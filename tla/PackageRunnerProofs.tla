------------------------- MODULE PackageRunnerProofs -------------------------
(***************************************************************************)
(* For every set of packages: the runner keeps the promise of              *)
(* FaceSelection and starts a face on probation only when somebody chose   *)
(* it since the last reset.                                                *)
(*                                                                         *)
(* First the index by itself: every mutation maps valid indexes to valid   *)
(* ones, and what follows for its two copies.  The runner's steps are      *)
(* steps of PackageIndex, whose invariant therefore holds for it too.      *)
(* What has to be added is what the task knows during an attempt, and how  *)
(* far the stored index may be ahead of the one in RAM: a reset at any     *)
(* moment makes the stored one the face of the watch.                      *)
(***************************************************************************)
EXTENDS PackageRunner, FiniteSetTheorems, TLAPS

USE DEF MaxAttempts, Types

(* Cardinality facts the capacity checks rest on.                          *)
LEMMA RefSets ==
  ASSUME NEW S \in SUBSET Refs
  PROVE  IsFiniteSet(S) /\ Cardinality(S) \in Nat
BY CapacityAssumption, FS_Subset, FS_CardinalityType

LEMMA AddRef ==
  ASSUME NEW S \in SUBSET Refs, NEW r \in Refs
  PROVE  Cardinality(S \cup {r}) <= Cardinality(S) + 1
<1>1. Cardinality(S \cup {r}) = IF r \in S THEN Cardinality(S) ELSE Cardinality(S) + 1
  BY RefSets, FS_AddElement
<1>2. QED BY <1>1, RefSets

LEMMA SubsetSmaller ==
  ASSUME NEW S \in SUBSET Refs, NEW T \in SUBSET S
  PROVE  Cardinality(T) <= Cardinality(S)
BY RefSets, FS_Subset

LEMMA RecordedFits ==
  ASSUME NEW i \in Index, HealthSound(i), Cardinality(Installed(i)) <= InstalledMax
  PROVE  Cardinality(i.recorded) <= HealthMax
<1>1. Installed(i) \in SUBSET Refs /\ i.recorded \in SUBSET Installed(i)
  BY DEF Installed, HealthSound
<1>2. Cardinality(i.recorded) <= Cardinality(Installed(i))
  BY <1>1, SubsetSmaller
<1>3. Cardinality(i.recorded) \in Nat /\ Cardinality(Installed(i)) \in Nat
  BY <1>1, RefSets
<1> QED BY <1>2, <1>3, CapacityAssumption

-----------------------------------------------------------------------------
LEMMA EmptyValid == EmptyIndex \in Index /\ Valid(EmptyIndex)
<1>1. EmptyIndex \in Index BY DEF EmptyIndex, Index
<1>2. Installed(EmptyIndex) = {} /\ EmptyIndex.recorded = {}
  BY DEF EmptyIndex, Installed
<1>3. CountsFit(EmptyIndex)
  BY <1>2, FS_EmptySet, CapacityAssumption DEF CountsFit
<1> QED BY <1>1, <1>3 DEF EmptyIndex, Valid, FacesInstalled, PriorSound, HealthSound

(* A change of the three faces only leaves the rest of validity alone.     *)
LEMMA FacesChanged ==
  ASSUME NEW i \in Index, Valid(i), NEW j \in Index,
         j.type = i.type, j.recorded = i.recorded, j.attempts = i.attempts,
         j.quarantined = i.quarantined, FacesInstalled(j), PriorSound(j)
  PROVE  Valid(j)
<1>1. Installed(j) = Installed(i) BY DEF Installed
<1> QED BY <1>1 DEF Valid, CountsFit, HealthSound

LEMMA SelectedValid ==
  ASSUME NEW i \in Index, Valid(i), NEW r \in Refs, CanSelect(i, r)
  PROVE  Selected(i, r) \in Index /\ Valid(Selected(i, r))
<1> DEFINE j == Selected(i, r)
<1>1. j \in Index BY DEF Index, Selected
<1>2. /\ j.active = i.active /\ j.pending = r /\ j.prior = i.active
      /\ j.type = i.type /\ j.recorded = i.recorded
      /\ j.attempts = i.attempts /\ j.quarantined = i.quarantined
  BY DEF Index, Selected
<1>3. FacesInstalled(j) /\ PriorSound(j)
  BY <1>2, NoRefAssumption DEF Valid, FacesInstalled, PriorSound, Watchfaces, CanSelect
<1> QED BY <1>1, <1>2, <1>3, FacesChanged

LEMMA BuiltinValid ==
  ASSUME NEW i \in Index, Valid(i)
  PROVE  BuiltinSelected(i) \in Index /\ Valid(BuiltinSelected(i))
<1> DEFINE j == BuiltinSelected(i)
<1>1. j \in Index BY DEF Index, BuiltinSelected
<1>2. /\ j.active = NoRef /\ j.pending = NoRef /\ j.prior = NoRef
      /\ j.type = i.type /\ j.recorded = i.recorded
      /\ j.attempts = i.attempts /\ j.quarantined = i.quarantined
  BY DEF Index, BuiltinSelected
<1>3. FacesInstalled(j) /\ PriorSound(j)
  BY <1>2 DEF FacesInstalled, PriorSound
<1> QED BY <1>1, <1>2, <1>3, FacesChanged

LEMMA PromotedValid ==
  ASSUME NEW i \in Index, Valid(i)
  PROVE  Promoted(i) \in Index /\ Valid(Promoted(i))
<1> DEFINE j == Promoted(i)
<1>1. j \in Index BY DEF Index, Promoted
<1>2. /\ j.active = i.pending /\ j.pending = NoRef /\ j.prior = NoRef
      /\ j.type = i.type /\ j.recorded = i.recorded
      /\ j.attempts = i.attempts /\ j.quarantined = i.quarantined
  BY DEF Index, Promoted
<1>3. FacesInstalled(j) /\ PriorSound(j)
  BY <1>2 DEF Valid, FacesInstalled, PriorSound, Watchfaces
<1> QED BY <1>1, <1>2, <1>3, FacesChanged

LEMMA RolledBackValid ==
  ASSUME NEW i \in Index, Valid(i)
  PROVE  RolledBack(i) \in Index /\ Valid(RolledBack(i))
<1> DEFINE j == RolledBack(i)
<1>1. j \in Index BY DEF Index, RolledBack
<1>2. /\ j.active = i.prior /\ j.pending = NoRef /\ j.prior = NoRef
      /\ j.type = i.type /\ j.recorded = i.recorded
      /\ j.attempts = i.attempts /\ j.quarantined = i.quarantined
  BY DEF Index, RolledBack
<1>3. FacesInstalled(j) /\ PriorSound(j)
  BY <1>2 DEF Valid, FacesInstalled, PriorSound, Watchfaces
<1> QED BY <1>1, <1>2, <1>3, FacesChanged

LEMMA BegunValid ==
  ASSUME NEW i \in Index, Valid(i), NEW r \in Refs, CanBegin(i, r)
  PROVE  Begun(i, r) \in Index /\ Valid(Begun(i, r))
<1> DEFINE j == Begun(i, r)
<1>1. j \in Index
  <2>1. i.recorded \cup {r} \in SUBSET Refs /\ i.quarantined \cup {r} \in SUBSET Refs
    BY DEF Index
  <2>2. [i.attempts EXCEPT ![r] = @ + 1] \in [Refs -> Nat] BY DEF Index
  <2> QED BY <2>1, <2>2 DEF Index, Begun
<1>2. /\ j.type = i.type /\ j.active = i.active /\ j.pending = i.pending
      /\ j.prior = i.prior /\ j.recorded = i.recorded \cup {r}
  BY DEF Index, Begun
<1>3. HealthSound(j)
  BY DEF Index, Valid, HealthSound, CanBegin, Begun, Exhausted, Installed
<1>4. CountsFit(j)
  <2>1. Cardinality(Installed(j)) <= InstalledMax
    BY <1>2 DEF Valid, CountsFit, Installed
  <2> QED BY <2>1, <1>1, <1>3, RecordedFits DEF CountsFit
<1> QED BY <1>1, <1>2, <1>3, <1>4 DEF Valid, FacesInstalled, PriorSound, Watchfaces

LEMMA FinishedValid ==
  ASSUME NEW i \in Index, Valid(i), NEW r \in Refs, CanFinish(i, r),
         NEW clean \in BOOLEAN, clean => r \notin i.quarantined
  PROVE  Finished(i, r, clean) \in Index /\ Valid(Finished(i, r, clean))
<1> DEFINE j == Finished(i, r, clean)
<1>1. j \in Index BY DEF Index, Finished
<1>2. /\ j.type = i.type /\ j.active = i.active /\ j.pending = i.pending
      /\ j.prior = i.prior /\ j.recorded = i.recorded
  BY DEF Index, Finished
<1>3. HealthSound(j)
  BY DEF Index, Valid, HealthSound, CanFinish, Finished, Exhausted, Installed
<1> QED
  BY <1>1, <1>2, <1>3 DEF Valid, FacesInstalled, PriorSound, Watchfaces, CountsFit, Installed

LEMMA RegisteredValid ==
  ASSUME NEW i \in Index, Valid(i), NEW r \in Refs, CanRegister(i, r), NEW t \in Types
  PROVE  Registered(i, r, t) \in Index /\ Valid(Registered(i, r, t))
<1> DEFINE j == Registered(i, r, t)
<1>1. j \in Index BY DEF Index, Registered
<1>2. /\ j.active = i.active /\ j.pending = i.pending /\ j.prior = i.prior
      /\ j.recorded = i.recorded /\ j.attempts = i.attempts
      /\ j.quarantined = i.quarantined
  BY DEF Index, Registered
<1>3. Installed(j) = Installed(i) \cup {r}
  BY DEF Index, Registered, Installed
<1>4. Watchfaces(i) \subseteq Watchfaces(j)
  BY DEF Index, Registered, Watchfaces, CanRegister, Installed
<1>5. Cardinality(Installed(j)) <= InstalledMax
  <2>1. Installed(i) \in SUBSET Refs BY DEF Installed
  <2>2. Cardinality(Installed(j)) <= Cardinality(Installed(i)) + 1
    BY <1>3, <2>1, AddRef
  <2>3. Cardinality(Installed(j)) \in Nat /\ Cardinality(Installed(i)) \in Nat
    BY <1>3, <2>1, RefSets
  <2> QED BY <2>2, <2>3, CapacityAssumption DEF CanRegister
<1>6. HealthSound(j)
  BY <1>2, <1>3 DEF Valid, HealthSound
<1>7. FacesInstalled(j) /\ PriorSound(j)
  BY <1>2, <1>4 DEF Valid, FacesInstalled, PriorSound
<1> QED BY <1>1, <1>5, <1>6, <1>7, RecordedFits DEF Valid, CountsFit

LEMMA UnregisteredValid ==
  ASSUME NEW i \in Index, Valid(i), NEW r \in Installed(i)
  PROVE  Unregistered(i, r) \in Index /\ Valid(Unregistered(i, r))
<1> DEFINE j == Unregistered(i, r)
<1>0. r \in Refs BY DEF Installed
<1>1. j \in Index BY <1>0, NoRefAssumption DEF Index, Unregistered, BuiltinSelected
<1>2. /\ j.type = [i.type EXCEPT ![r] = "none"]
      /\ j.recorded = i.recorded \ {r}
      /\ j.attempts = [i.attempts EXCEPT ![r] = 0]
      /\ j.quarantined = i.quarantined \ {r}
  BY DEF Index, Unregistered, BuiltinSelected
<1>3. Installed(j) = Installed(i) \ {r} /\ Watchfaces(j) = Watchfaces(i) \ {r}
  BY <1>0, <1>2 DEF Index, Installed, Watchfaces
<1>4. Cardinality(Installed(j)) <= InstalledMax
  <2>1. Installed(i) \in SUBSET Refs /\ Installed(j) \in SUBSET Installed(i)
    BY <1>3 DEF Installed
  <2>2. Cardinality(Installed(j)) <= Cardinality(Installed(i))
    BY <2>1, SubsetSmaller
  <2>3. Cardinality(Installed(j)) \in Nat /\ Cardinality(Installed(i)) \in Nat
    BY <2>1, RefSets
  <2> QED BY <2>2, <2>3, CapacityAssumption DEF Valid, CountsFit
<1>5. HealthSound(j)
  BY <1>0, <1>2, <1>3 DEF Index, Valid, HealthSound
<1>6. FacesInstalled(j) /\ PriorSound(j)
  <2>1. \/ j.active = NoRef /\ j.pending = NoRef /\ j.prior = NoRef
        \/ j.active = i.active /\ j.pending = NoRef /\ j.prior = NoRef /\ r # i.active
        \/ /\ j.active = i.active /\ j.pending = i.pending /\ j.prior = i.prior
           /\ r \notin {i.active, i.pending, i.prior}
    BY DEF Index, Unregistered, BuiltinSelected
  <2> QED BY <2>1, <1>3 DEF Valid, FacesInstalled, PriorSound
<1> QED BY <1>1, <1>4, <1>5, <1>6, RecordedFits DEF Valid, CountsFit
-----------------------------------------------------------------------------
(* commit_index: the copies after a commit of a valid next index.          *)
LEMMA CommitCopies ==
  ASSUME TypeOK, StoreLoadable, Valid(ram), NEW next \in Index, Commit(next)
  PROVE  /\ ram' \in Index /\ Valid(ram')
         /\ nvs' \in Index \cup {Blank} /\ StoreLoadable'
BY DEF Commit, CommitOk, CommitFails, TypeOK, StoreLoadable

LEMMA CopiesInductive ==
  ASSUME TypeOK, Valid(ram), StoreLoadable, [Next]_vars
  PROVE  /\ ram' \in Index /\ Valid(ram')
         /\ nvs' \in Index \cup {Blank} /\ StoreLoadable'
<1> USE DEF TypeOK
<1>1. CASE IndexInit
  BY <1>1, EmptyValid DEF IndexInit, StoreLoadable
<1>2. CASE IndexInitFails
  BY <1>2, EmptyValid DEF IndexInitFails, StoreLoadable
<1>3. CASE Restart
  BY <1>3, EmptyValid DEF Restart, StoreLoadable
<1>9. CASE StoreErased
  BY <1>9, EmptyValid DEF StoreErased, StoreLoadable
<1>4. CASE SelectBuiltin
  BY <1>4, BuiltinValid, CommitCopies DEF SelectBuiltin
<1>5. CASE RecoverStalePending
  BY <1>5, RolledBackValid, CommitCopies DEF RecoverStalePending
<1>6. CASE IndexClear
  BY <1>6, EmptyValid, CommitCopies DEF IndexClear
<1>7. ASSUME NEW r \in Refs, Mutate(r)
      PROVE  /\ ram' \in Index /\ Valid(ram')
             /\ nvs' \in Index \cup {Blank} /\ StoreLoadable'
  <2>1. CASE SelectWatchface(r)
    BY <2>1, SelectedValid, CommitCopies DEF SelectWatchface
  <2>2. CASE PromotePending(r)
    BY <2>2, PromotedValid, CommitCopies DEF PromotePending
  <2>3. CASE RollbackPending(r)
    BY <2>3, RolledBackValid, CommitCopies DEF RollbackPending
  <2>4. CASE BeginAttempt(r)
    <3>1. Commit(Begun(ram, r)) BY <2>4 DEF BeginAttempt, Commit
    <3> QED BY <2>4, <3>1, BegunValid, CommitCopies DEF BeginAttempt
  <2>5. CASE Unregister(r)
    BY <2>5, UnregisteredValid, CommitCopies DEF Unregister
  <2>6. ASSUME NEW clean \in BOOLEAN, FinishAttempt(r, clean)
        PROVE  /\ ram' \in Index /\ Valid(ram')
               /\ nvs' \in Index \cup {Blank} /\ StoreLoadable'
    <3>1. Finished(ram, r, clean) \in Index BY DEF Index, Finished
    <3> QED BY <2>6, <3>1, CommitCopies DEF FinishAttempt
  <2>7. ASSUME NEW t \in Types, RegisterInstalled(r, t)
        PROVE  /\ ram' \in Index /\ Valid(ram')
               /\ nvs' \in Index \cup {Blank} /\ StoreLoadable'
    BY <2>7, RegisteredValid, CommitCopies DEF RegisterInstalled
  <2> QED BY <1>7, <2>1, <2>2, <2>3, <2>4, <2>5, <2>6, <2>7 DEF Mutate
<1>8. CASE UNCHANGED vars
  BY <1>8 DEF vars, StoreLoadable
<1> QED BY <1>1, <1>2, <1>3, <1>4, <1>5, <1>6, <1>7, <1>8, <1>9 DEF Next

-----------------------------------------------------------------------------
(* What a commit leaves of the starts and of the quarantines.              *)
LEMMA StartsKept ==
  ASSUME IndexInv, ready, NEW next \in Index, unclean' \in [Refs -> Nat],
         \/ /\ CommitOk(next)
            /\ \A r \in Refs : unclean'[r] <= next.attempts[r]
         \/ /\ CommitFails(next)
            /\ \A r \in Refs : unclean'[r] <= unclean[r]
            /\ nvs' = next => \A r \in Refs : unclean'[r] <= next.attempts[r]
  PROVE  StartsRecorded'
<1>1. next # Blank BY BlankAssumption
<1>2. CASE CommitOk(next)
  BY <1>1, <1>2 DEF CommitOk, CommitFails, IndexInv, TypeOK, Index, StartsRecorded
<1>3. CASE CommitFails(next) /\ nvs' = nvs
  <2>1. nvs \in Index \/ nvs = Blank BY DEF IndexInv, TypeOK
  <2> QED BY <1>1, <1>3, <2>1 DEF CommitFails, CommitOk, IndexInv, TypeOK, Index, StartsRecorded
<1>4. CASE CommitFails(next) /\ nvs' = next
  BY <1>1, <1>4 DEF CommitFails, CommitOk, IndexInv, TypeOK, Index, StartsRecorded
<1> QED BY <1>2, <1>3, <1>4 DEF CommitFails

LEMMA QuarantineKept ==
  ASSUME IndexInv, NEW next \in Index, Commit(next),
         \A r \in ram.quarantined : r \in next.quarantined \/ r \notin Installed(next)
  PROVE  QuarantineStored' /\ \A r \in ram.quarantined :
                                r \in nvs'.quarantined \/ r \notin Installed(nvs')
<1>1. next # Blank BY BlankAssumption
<1>2. nvs' \in {nvs, next} /\ ram' \in {ram, next} /\ (ram' # ram => ram' = nvs')
  BY DEF Commit, CommitOk, CommitFails
<1> QED BY <1>1, <1>2 DEF IndexInv, QuarantineStored

(* Both, for a mutation that leaves the health records as they are.        *)
LEMMA HealthUntouched ==
  ASSUME IndexInv, ready, NEW next \in Index, Commit(next), UNCHANGED unclean,
         next.attempts = ram.attempts, next.quarantined = ram.quarantined
  PROVE  StartsRecorded' /\ QuarantineStored'
<1>1. \A r \in Refs : unclean[r] <= next.attempts[r]
  BY DEF IndexInv, StartsRecorded
<1>2. unclean' \in [Refs -> Nat] /\ \A r \in Refs : unclean'[r] <= unclean[r]
  BY DEF IndexInv, TypeOK
<1>3. StartsRecorded' BY <1>1, <1>2, StartsKept DEF Commit
<1>4. QuarantineStored' BY QuarantineKept
<1> QED BY <1>3, <1>4

-----------------------------------------------------------------------------
LEMMA IndexInvInit == Init => IndexInv
<1> SUFFICES ASSUME Init PROVE IndexInv OBVIOUS
<1>1. ram = EmptyIndex /\ nvs = Blank /\ ready = FALSE /\ unclean = [r \in Refs |-> 0]
  BY DEF Init
<1>2. ram.quarantined = {} BY <1>1 DEF EmptyIndex
<1>3. TypeOK BY <1>1, EmptyValid DEF TypeOK
<1>4. StartsRecorded BY <1>1 DEF StartsRecorded
<1>5. QuarantineStored BY <1>2 DEF QuarantineStored
<1> QED BY <1>1, <1>3, <1>4, <1>5, EmptyValid DEF IndexInv, StoreLoadable

(* One step per action; the copies come from CopiesInductive, the history  *)
(* from the lemmas above.                                                  *)
LEMMA IndexInvNext == IndexInv /\ [Next]_vars => IndexInv'
<1> SUFFICES ASSUME IndexInv, [Next]_vars PROVE IndexInv' OBVIOUS
<1> USE DEF IndexInv
<1>1. /\ ram' \in Index /\ Valid(ram')
      /\ nvs' \in Index \cup {Blank} /\ StoreLoadable'
  BY CopiesInductive
<1>2. SUFFICES /\ ready' \in BOOLEAN /\ unclean' \in [Refs -> Nat]
               /\ StartsRecorded' /\ QuarantineStored'
  BY <1>1 DEF TypeOK
<1>3. CASE IndexInit
  <2>1. ram' = nvs' /\ ready' = TRUE /\ UNCHANGED unclean
    BY <1>3 DEF IndexInit
  <2>2. nvs' = nvs \/ (nvs = Blank /\ \A r \in Refs : unclean[r] = 0)
    BY <1>3 DEF IndexInit, StartsRecorded, TypeOK
  <2>3. nvs' # Blank /\ ram' # Blank BY <1>1, <2>1, BlankAssumption
  <2> QED
    BY <1>1, <2>1, <2>2, <2>3 DEF TypeOK, Index, StartsRecorded, QuarantineStored
<1>4. CASE IndexInitFails
  <2>1. \A r \in Refs : unclean[r] = 0
    BY <1>4 DEF IndexInitFails, StartsRecorded, TypeOK
  <2>2. nvs' # Blank /\ ram' = ram /\ ready' = FALSE /\ ready = FALSE
        /\ UNCHANGED unclean /\ nvs = Blank
    BY <1>4, BlankAssumption, EmptyValid DEF IndexInitFails, TypeOK
  <2>3. ram.quarantined = {} BY <2>2 DEF QuarantineStored
  <2>4. QuarantineStored' BY <2>2, <2>3 DEF QuarantineStored
  <2>5. nvs' \in Index BY <1>1, <2>2
  <2>6. StartsRecorded' BY <2>1, <2>2, <2>5 DEF StartsRecorded, Index
  <2> QED BY <2>2, <2>4, <2>6 DEF TypeOK
<1>5. CASE Restart
  BY <1>5 DEF Restart, TypeOK, StartsRecorded, QuarantineStored, EmptyIndex
<1>11. CASE StoreErased
  <2>1. /\ ~ready /\ ready' = ready /\ ram' = ram /\ nvs' = EmptyIndex /\ Forget
    BY <1>11 DEF StoreErased, TypeOK
  <2>2. nvs' # Blank /\ EmptyIndex.recorded = {} /\ Installed(EmptyIndex) = {}
    BY <2>1, EmptyValid, BlankAssumption DEF EmptyIndex, Installed
  <2>3. unclean' = [r \in Refs |-> 0] BY <2>1, <2>2 DEF Forget
  <2>4. QuarantineStored' BY <2>1, <2>2 DEF QuarantineStored
  <2>5. StartsRecorded'
    BY <2>1, <2>2, <2>3, EmptyValid DEF StartsRecorded, Index
  <2> QED BY <2>1, <2>3, <2>4, <2>5 DEF TypeOK
<1>6. CASE SelectBuiltin
  <2>1. BuiltinSelected(ram).attempts = ram.attempts
        /\ BuiltinSelected(ram).quarantined = ram.quarantined
    BY DEF BuiltinSelected, TypeOK, Index
  <2> QED
    BY <1>6, <2>1, BuiltinValid, HealthUntouched
    DEF SelectBuiltin, TypeOK, Commit, CommitOk, CommitFails
<1>7. CASE RecoverStalePending
  <2>1. RolledBack(ram).attempts = ram.attempts
        /\ RolledBack(ram).quarantined = ram.quarantined
    BY DEF RolledBack, TypeOK, Index
  <2> QED
    BY <1>7, <2>1, RolledBackValid, HealthUntouched
    DEF RecoverStalePending, TypeOK, Commit, CommitOk, CommitFails
<1>8. CASE IndexClear
  <2>1. /\ ready /\ Commit(EmptyIndex) /\ Forget BY <1>8 DEF IndexClear
  <2>2. EmptyIndex # Blank BY EmptyValid, BlankAssumption
  <2>3. unclean' \in [Refs -> Nat] /\ \A r \in Refs : unclean'[r] <= unclean[r]
    BY <2>1 DEF Forget, TypeOK
  <2>4. nvs' = EmptyIndex => \A r \in Refs : unclean'[r] <= EmptyIndex.attempts[r]
    BY <2>1, <2>2 DEF Forget, EmptyIndex
  <2>5. StartsRecorded'
    BY <2>1, <2>3, <2>4, EmptyValid, StartsKept DEF Commit, CommitOk
  <2>6. QuarantineStored'
    BY <2>1, EmptyValid, QuarantineKept DEF EmptyIndex, Installed
  <2> QED BY <2>1, <2>3, <2>5, <2>6 DEF Commit, CommitOk, CommitFails, TypeOK
<1>9. ASSUME NEW r \in Refs, Mutate(r)
      PROVE  /\ ready' \in BOOLEAN /\ unclean' \in [Refs -> Nat]
             /\ StartsRecorded' /\ QuarantineStored'
  <2>1. CASE SelectWatchface(r)
    <3>1. Selected(ram, r).attempts = ram.attempts
          /\ Selected(ram, r).quarantined = ram.quarantined
      BY DEF Selected, TypeOK, Index
    <3> QED
      BY <2>1, <3>1, SelectedValid, HealthUntouched
      DEF SelectWatchface, TypeOK, Commit, CommitOk, CommitFails
  <2>2. CASE PromotePending(r)
    <3>1. Promoted(ram).attempts = ram.attempts
          /\ Promoted(ram).quarantined = ram.quarantined
      BY DEF Promoted, TypeOK, Index
    <3> QED
      BY <2>2, <3>1, PromotedValid, HealthUntouched
      DEF PromotePending, TypeOK, Commit, CommitOk, CommitFails
  <2>3. CASE RollbackPending(r)
    <3>1. RolledBack(ram).attempts = ram.attempts
          /\ RolledBack(ram).quarantined = ram.quarantined
      BY DEF RolledBack, TypeOK, Index
    <3> QED
      BY <2>3, <3>1, RolledBackValid, HealthUntouched
      DEF RollbackPending, TypeOK, Commit, CommitOk, CommitFails
  <2>4. CASE BeginAttempt(r)
    <3> DEFINE next == Begun(ram, r)
    <3>1. next \in Index BY <2>4, BegunValid DEF BeginAttempt, TypeOK
    <3>2. /\ \A q \in Refs : next.attempts[q] =
               IF q = r /\ ~Exhausted(ram, r) THEN ram.attempts[q] + 1 ELSE ram.attempts[q]
          /\ ram.quarantined \subseteq next.quarantined
      BY DEF Begun, TypeOK, Index
    <3>3. \A q \in Refs : unclean[q] <= ram.attempts[q] /\ ram.attempts[q] \in Nat
      BY <2>4 DEF BeginAttempt, StartsRecorded, TypeOK, Index
    <3>4. unclean' \in [Refs -> Nat]
      BY <2>4 DEF BeginAttempt, TypeOK
    <3>5. CASE /\ CommitOk(next)
               /\ unclean' = [unclean EXCEPT ![r] = IF Exhausted(ram, r) THEN @ ELSE @ + 1]
      <4>1. \A q \in Refs : unclean'[q] <= next.attempts[q]
        BY <3>2, <3>3, <3>5 DEF TypeOK
      <4>2. StartsRecorded' BY <2>4, <3>1, <3>4, <3>5, <4>1, StartsKept DEF BeginAttempt
      <4> QED BY <3>1, <3>2, <3>4, <3>5, <4>2, QuarantineKept DEF Commit, CommitOk, TypeOK
    <3>6. CASE CommitFails(next) /\ UNCHANGED unclean
      <4>1. \A q \in Refs : unclean'[q] <= next.attempts[q] /\ unclean'[q] <= unclean[q]
        BY <3>2, <3>3, <3>6 DEF TypeOK
      <4>2. StartsRecorded' BY <2>4, <3>1, <3>4, <3>6, <4>1, StartsKept DEF BeginAttempt
      <4> QED BY <3>1, <3>2, <3>4, <3>6, <4>2, QuarantineKept DEF Commit, CommitFails, TypeOK
    <3> QED BY <2>4, <3>5, <3>6 DEF BeginAttempt
  <2>5. CASE Unregister(r)
    <3> DEFINE next == Unregistered(ram, r)
    <3>1. ready /\ Commit(next) /\ Forget /\ r \in Installed(ram)
      BY <2>5 DEF Unregister
    <3>2. next \in Index /\ Valid(next) /\ next # Blank
      BY <3>1, UnregisteredValid, BlankAssumption DEF TypeOK
    <3>3. /\ next.attempts = [ram.attempts EXCEPT ![r] = 0]
          /\ next.recorded = ram.recorded \ {r}
          /\ next.quarantined = ram.quarantined \ {r}
          /\ next.type = [ram.type EXCEPT ![r] = "none"]
      BY DEF Unregistered, BuiltinSelected, TypeOK, Index
    <3>4. unclean' \in [Refs -> Nat] /\ \A q \in Refs : unclean'[q] <= unclean[q]
      BY <3>1 DEF Forget, TypeOK
    <3>5. nvs' = next => \A q \in Refs : unclean'[q] <= next.attempts[q]
      BY <3>1, <3>2, <3>3 DEF Forget, StartsRecorded, TypeOK, Index
    <3>6. StartsRecorded'
      BY <3>1, <3>2, <3>4, <3>5, StartsKept DEF Commit, CommitOk
    <3>7. QuarantineStored'
      BY <3>1, <3>2, <3>3, QuarantineKept DEF Installed, TypeOK, Index
    <3> QED BY <3>1, <3>4, <3>6, <3>7 DEF Commit, CommitOk, CommitFails, TypeOK
  <2>6. ASSUME NEW clean \in BOOLEAN, FinishAttempt(r, clean)
        PROVE  /\ ready' \in BOOLEAN /\ unclean' \in [Refs -> Nat]
               /\ StartsRecorded' /\ QuarantineStored'
    <3> DEFINE next == Finished(ram, r, clean)
    <3>1. /\ ready /\ Commit(next)
          /\ unclean' = [unclean EXCEPT ![r] = IF clean THEN 0 ELSE @]
      BY <2>6 DEF FinishAttempt
    <3>2. next \in Index BY DEF Finished, TypeOK, Index
    <3>3. /\ next.attempts = IF clean THEN [ram.attempts EXCEPT ![r] = 0] ELSE ram.attempts
          /\ ram.quarantined \subseteq next.quarantined
      BY DEF Finished, TypeOK, Index
    <3>4. unclean' \in [Refs -> Nat] /\ \A q \in Refs : unclean'[q] <= unclean[q]
      BY <3>1 DEF TypeOK
    <3>5. \A q \in Refs : unclean'[q] <= next.attempts[q]
      BY <3>1, <3>3 DEF StartsRecorded, TypeOK, Index
    <3>6. StartsRecorded'
      BY <3>1, <3>2, <3>4, <3>5, StartsKept DEF Commit, CommitOk
    <3>7. QuarantineStored' BY <3>1, <3>2, <3>3, QuarantineKept
    <3> QED BY <3>1, <3>4, <3>6, <3>7 DEF Commit, CommitOk, CommitFails, TypeOK
  <2>7. ASSUME NEW t \in Types, RegisterInstalled(r, t)
        PROVE  /\ ready' \in BOOLEAN /\ unclean' \in [Refs -> Nat]
               /\ StartsRecorded' /\ QuarantineStored'
    <3>1. Registered(ram, r, t).attempts = ram.attempts
          /\ Registered(ram, r, t).quarantined = ram.quarantined
      BY DEF Registered, TypeOK, Index
    <3> QED
      BY <2>7, <3>1, RegisteredValid, HealthUntouched
      DEF RegisterInstalled, TypeOK, Commit, CommitOk, CommitFails
  <2> QED BY <1>9, <2>1, <2>2, <2>3, <2>4, <2>5, <2>6, <2>7 DEF Mutate
<1>10. CASE UNCHANGED vars
  BY <1>10 DEF vars, TypeOK, StartsRecorded, QuarantineStored
<1> QED BY <1>3, <1>4, <1>5, <1>6, <1>7, <1>8, <1>9, <1>10, <1>11 DEF Next

-----------------------------------------------------------------------------
(* The index stays well formed in both copies, and the starts granted stay *)
(* on record, under every order of calls, failed saves and restarts        *)
(* (package_state.c:235).                                                  *)
THEOREM IndexInvariant == Spec => []IndexInv
BY IndexInvInit, IndexInvNext, PTL DEF Spec

(* commit_index never refuses an index for its content: every mutation of  *)
(* a valid index is valid (package_state.c:235).                           *)
THEOREM MutationsAlwaysValid == Spec => []MutationsValid
<1>1. IndexInv => MutationsValid
  <2> SUFFICES ASSUME IndexInv PROVE MutationsValid OBVIOUS
  <2>1. ram \in Index /\ Valid(ram) BY DEF IndexInv, TypeOK
  <2>2. /\ Valid(BuiltinSelected(ram))
        /\ Valid(Promoted(ram)) /\ Valid(RolledBack(ram))
    BY <2>1, BuiltinValid, PromotedValid, RolledBackValid
  <2>3. ASSUME NEW r \in Refs
        PROVE  /\ CanSelect(ram, r) => Valid(Selected(ram, r))
               /\ CanBegin(ram, r) => Valid(Begun(ram, r))
               /\ CanFinish(ram, r) => Valid(Finished(ram, r, FALSE))
               /\ CanFinish(ram, r) /\ r \notin ram.quarantined
                    => Valid(Finished(ram, r, TRUE))
               /\ CanRegister(ram, r) => \A t \in Types : Valid(Registered(ram, r, t))
               /\ r \in Installed(ram) => Valid(Unregistered(ram, r))
    BY <2>1, SelectedValid, BegunValid, FinishedValid, RegisteredValid, UnregisteredValid
  <2> QED BY <2>2, <2>3 DEF MutationsValid
<1> QED BY <1>1, IndexInvariant, PTL

(* A package that may start always finds a health record: begin_attempt    *)
(* never answers ERR_LIMIT (package_state.c:457).                          *)
THEOREM HealthSlotAlwaysFree == Spec => []HealthSlotFree
<1>1. IndexInv => HealthSlotFree
  <2> SUFFICES ASSUME IndexInv, NEW r \in Installed(ram), r \notin ram.recorded
               PROVE  Cardinality(ram.recorded) < HealthMax
    BY DEF HealthSlotFree, HasHealthSlot
  <2>1. /\ ram.recorded \cup {r} \in SUBSET Installed(ram)
        /\ Installed(ram) \in SUBSET Refs /\ ram.recorded \in SUBSET Refs
    BY DEF IndexInv, Valid, HealthSound, Installed
  <2>2. Cardinality(ram.recorded \cup {r}) = Cardinality(ram.recorded) + 1
    BY <2>1, RefSets, FS_AddElement
  <2>3. Cardinality(ram.recorded \cup {r}) <= Cardinality(Installed(ram))
    BY <2>1, SubsetSmaller
  <2>4. Cardinality(Installed(ram)) <= InstalledMax
    BY DEF IndexInv, Valid, CountsFit
  <2>5. Cardinality(Installed(ram)) \in Nat /\ Cardinality(ram.recorded) \in Nat
    BY <2>1, RefSets
  <2> QED BY <2>2, <2>3, <2>4, <2>5, CapacityAssumption
<1> QED BY <1>1, IndexInvariant, PTL

(* No package is granted a fourth start without a clean stop since the     *)
(* first: there is no persistent boot loop (package_state.c:461).          *)
THEOREM StartsAlwaysBounded == Spec => []StartsBounded
<1>1. IndexInv => StartsBounded
  <2> SUFFICES ASSUME IndexInv, NEW r \in Refs PROVE unclean[r] <= MaxAttempts
    BY DEF StartsBounded
  <2>1. CASE nvs = Blank
    BY <2>1 DEF IndexInv, StartsRecorded, TypeOK
  <2>2. CASE nvs # Blank
    <3>1. unclean[r] <= nvs.attempts[r] BY <2>2 DEF IndexInv, StartsRecorded
    <3>2. nvs.attempts[r] <= MaxAttempts
      BY <2>2 DEF IndexInv, StoreLoadable, Valid, HealthSound
    <3> QED BY <2>2, <3>1, <3>2 DEF IndexInv, TypeOK, Index
  <2> QED BY <2>1, <2>2
<1> QED BY <1>1, IndexInvariant, PTL

(* The stored index can always be loaded again (package_state.c:264).      *)
THEOREM StoreAlwaysLoadable == Spec => []StoreLoadable
<1>1. IndexInv => StoreLoadable BY DEF IndexInv
<1> QED BY <1>1, IndexInvariant, PTL

-----------------------------------------------------------------------------
(* Every other step commits one index, and no such index forgets the       *)
(* quarantine of a package it keeps or invents an active face.             *)
Conservative(next) ==
  /\ next \in Index
  /\ \A r \in ram.quarantined : r \in next.quarantined \/ r \notin Installed(next)
  /\ next.active \in {ram.active, ram.pending, NoRef}

LEMMA MutationsConservative ==
  ASSUME IndexInv, Next
  PROVE  \/ IndexInit \/ IndexInitFails \/ StoreErased \/ Restart
         \/ \E next : Conservative(next) /\ Commit(next)
<1>0. ram \in Index /\ Valid(ram) BY DEF IndexInv, TypeOK
<1>1. CASE SelectBuiltin
  <2>1. Conservative(BuiltinSelected(ram))
    BY <1>0 DEF Conservative, BuiltinSelected, Index
  <2> QED BY <1>1, <2>1 DEF SelectBuiltin
<1>2. Conservative(RolledBack(ram))
  BY <1>0 DEF Conservative, RolledBack, Index, Valid, PriorSound
<1>3. CASE RecoverStalePending
  BY <1>2, <1>3 DEF RecoverStalePending
<1>4. CASE IndexClear
  <2>1. Conservative(EmptyIndex)
    BY EmptyValid DEF Conservative, EmptyIndex, Installed
  <2> QED BY <1>4, <2>1 DEF IndexClear
<1>5. ASSUME NEW r \in Refs, Mutate(r)
      PROVE  \E next : Conservative(next) /\ Commit(next)
  <2>1. CASE SelectWatchface(r)
    <3>1. Conservative(Selected(ram, r)) BY <1>0 DEF Conservative, Selected, Index
    <3> QED BY <2>1, <3>1 DEF SelectWatchface
  <2>2. CASE PromotePending(r)
    <3>1. Conservative(Promoted(ram)) BY <1>0 DEF Conservative, Promoted, Index
    <3> QED BY <2>2, <3>1 DEF PromotePending
  <2>3. CASE RollbackPending(r)
    BY <1>2, <2>3 DEF RollbackPending
  <2>4. CASE BeginAttempt(r)
    <3>1. Begun(ram, r) \in Index BY <1>0, <2>4, BegunValid DEF BeginAttempt
    <3>2. Conservative(Begun(ram, r))
      BY <1>0, <3>1 DEF Conservative, Begun, Index
    <3> QED BY <2>4, <3>2 DEF BeginAttempt, Commit
  <2>5. CASE Unregister(r)
    <3>1. Unregistered(ram, r) \in Index
      BY <1>0, <2>5, UnregisteredValid DEF Unregister
    <3>2. /\ Unregistered(ram, r).quarantined = ram.quarantined \ {r}
          /\ Unregistered(ram, r).type = [ram.type EXCEPT ![r] = "none"]
          /\ Unregistered(ram, r).active \in {ram.active, NoRef}
      BY <1>0 DEF Unregistered, BuiltinSelected, Index
    <3>3. r \notin Installed(Unregistered(ram, r))
      BY <1>0, <3>2 DEF Installed, Index
    <3>4. Conservative(Unregistered(ram, r))
      BY <3>1, <3>2, <3>3 DEF Conservative
    <3> QED BY <2>5, <3>4 DEF Unregister
  <2>6. ASSUME NEW clean \in BOOLEAN, FinishAttempt(r, clean)
        PROVE  \E next : Conservative(next) /\ Commit(next)
    <3>1. Conservative(Finished(ram, r, clean))
      BY <1>0 DEF Conservative, Finished, Index
    <3> QED BY <2>6, <3>1 DEF FinishAttempt
  <2>7. ASSUME NEW t \in Types, RegisterInstalled(r, t)
        PROVE  \E next : Conservative(next) /\ Commit(next)
    <3>1. Conservative(Registered(ram, r, t))
      BY <1>0 DEF Conservative, Registered, Index
    <3> QED BY <2>7, <3>1 DEF RegisterInstalled
  <2> QED BY <1>5, <2>1, <2>2, <2>3, <2>4, <2>5, <2>6, <2>7 DEF Mutate
<1> QED BY <1>1, <1>3, <1>4, <1>5 DEF Next

(* A quarantine survives every call, failed save and restart until the     *)
(* package is removed (package_state.c:535).                               *)
THEOREM QuarantineSurvives == Spec => QuarantineDurable
<1> DEFINE Kept == \A r \in ram.quarantined :
                     r \in nvs'.quarantined \/ r \notin Installed(nvs')
<1>1. ASSUME IndexInv, Next PROVE Kept
  <2>1. CASE \E next : Conservative(next) /\ Commit(next)
    <3> PICK next : Conservative(next) /\ Commit(next) BY <2>1
    <3> QED BY <1>1, QuarantineKept DEF Conservative
  <2>2. CASE IndexInit
    BY <1>1, <2>2 DEF IndexInit, IndexInv, QuarantineStored
  <2>3. CASE IndexInitFails
    BY <1>1, <2>3 DEF IndexInitFails, IndexInv, QuarantineStored
  <2>4. CASE Restart
    BY <1>1, <2>4 DEF Restart, IndexInv, QuarantineStored
  <2>5. CASE StoreErased
    <3>1. Installed(nvs') = {}
      BY <2>5 DEF StoreErased, EmptyIndex, Installed
    <3> QED BY <3>1
  <2> QED BY <1>1, <2>1, <2>2, <2>3, <2>4, <2>5, MutationsConservative
<1>2. IndexInv /\ [Next]_vars => [Kept]_vars BY <1>1
<1> QED BY <1>2, IndexInvariant, PTL DEF Spec, QuarantineDurable

(* While the firmware is up, only the pending face or the built-in one     *)
(* replaces the active face (package_state.c:395).                         *)
THEOREM OnlyPendingBecomesActive == Spec => ActiveComesFromPending
<1> DEFINE Kept == ready /\ ready' => ram'.active \in {ram.active, ram.pending, NoRef}
<1>1. ASSUME IndexInv, Next PROVE Kept
  <2>1. CASE \E next : Conservative(next) /\ Commit(next)
    BY <2>1 DEF Conservative, Commit, CommitOk, CommitFails
  <2>2. CASE IndexInit \/ IndexInitFails \/ StoreErased \/ Restart
    BY <2>2 DEF IndexInit, IndexInitFails, StoreErased, Restart
  <2> QED BY <1>1, <2>1, <2>2, MutationsConservative
<1>2. IndexInv /\ [Next]_vars => [Kept]_vars BY <1>1
<1> QED BY <1>2, IndexInvariant, PTL DEF Spec, ActiveComesFromPending

-----------------------------------------------------------------------------
(* The runner.                                                             *)
RunRecord ==
  [ref : Refs \cup {NoRef}, pending : BOOLEAN, rendered : BOOLEAN,
   drew : BOOLEAN, cancelled : BOOLEAN, failed : BOOLEAN]

RunnerTyped ==
  /\ pc \in BootCalls \cup InAttempt \cup {"off", "deferred", "idle", "purged", "start", "back"}
  /\ mode \in {"normal", "blocked", "safe"}
  /\ run \in RunRecord
  /\ shown \in BOOLEAN /\ chosen \in BOOLEAN

(* A package runs only after a boot that went well, which left no          *)
(* candidate but one chosen since.                                         *)
BootSound ==
  /\ pc = "off" => ~ready
  /\ pc \in InAttempt \cup {"start", "back"} => mode = "normal"
  /\ mode = "normal" /\ pc \notin {"off", "deferred", "import", "recover"}
       => ready /\ (ram.pending # NoRef => chosen)
  /\ pc = "purged" => mode = "safe" /\ ram = EmptyIndex

(* What the task knows in an attempt.                                      *)
AttemptSound ==
  /\ pc \in InAttempt => run.ref \in Refs
  /\ pc \in InAttempt /\ run.pending =>
       /\ ram.pending = run.ref
       /\ run.rendered => shown
  /\ pc \in {"promote", "rollback"} => run.pending
  /\ pc = "promote" => run.rendered

(* The stored index is one that a step of FaceSelection leads to.          *)
StoreAhead ==
  /\ IF ready THEN nvs # Blank ELSE ram = EmptyIndex
  /\ shown => ready /\ ram.pending # NoRef
  /\ ready =>
       \/ nvs.active = ram.active
       \/ nvs.active = NoRef /\ nvs.pending = NoRef
       \/ shown /\ nvs.active = ram.pending /\ nvs.pending = NoRef

(* Without a fault both copies agree, and count the starts exactly.        *)
CountsExact ==
  ~faulted =>
    /\ ready => ram = nvs
    /\ nvs # Blank => \A r \in Refs : nvs.attempts[r] = unclean[r]

RunnerInv ==
  /\ IndexInv
  /\ RunnerTyped /\ BootSound /\ AttemptSound /\ StoreAhead /\ CountsExact

USE DEF BootCalls, InAttempt, RunnerTyped, BootSound, AttemptSound, RunnerInv

(* What a step has to leave intact: the parts of the invariant beyond      *)
(* PackageIndex's, and the promise of FaceSelection.                       *)
Face == IF ready THEN ram.active ELSE IF nvs = Blank THEN NoRef ELSE nvs.active
Candidate == IF ready THEN ram.pending ELSE IF nvs = Blank THEN NoRef ELSE nvs.pending

PromiseStep == [Promise!Next]_<<Face, Candidate, shown>>

Sound == RunnerTyped /\ BootSound /\ AttemptSound /\ StoreAhead /\ CountsExact
Keeps == Sound' /\ PromiseStep

-----------------------------------------------------------------------------
(* The runner's steps are the index's.                                     *)
LEMMA RunnerStepsIndex ==
  ASSUME RunnerInv, [RunnerNext]_allVars
  PROVE  [Next]_vars
<1>1. ram \in Index /\ ram.recorded \subseteq Refs
  BY DEF IndexInv, TypeOK, Index
<1>2. CASE BootStep
  BY <1>2 DEF BootStep, BootWanted, BootInit, BootCallFails, BootCallDone, Recover, Next
<1>3. CASE AttemptStep
  <2>1. CASE StartAttempt
    BY <2>1 DEF StartAttempt, BeginAttempt, CanBegin, Installed, Next, Mutate
  <2>2. CASE Finish
    BY <2>2, <1>1 DEF Finish, FinishAttempt, CanFinish, Next, Mutate, Clean
  <2>3. CASE Promote BY <2>3 DEF Promote, Next, Mutate
  <2>4. CASE Rollback BY <2>4 DEF Rollback, Next, Mutate
  <2> QED
    BY <1>3, <2>1, <2>2, <2>3, <2>4
    DEF AttemptStep, StartRefused, LoadAndStart, Render, StopRequested, Back
<1>4. CASE Purge \/ Purged \/ ChooseBuiltin \/ GoHome \/ Wake \/ Reset
  BY <1>4 DEF Purge, Purged, ChooseBuiltin, GoHome, Wake, Reset, Next
<1>5. ASSUME NEW r \in Refs,
             \/ ReconcileDrops(r) \/ Remove(r) \/ ChooseFace(r) \/ OpenApp(r)
             \/ \E t \in Types : Install(r, t)
      PROVE  [Next]_vars
  BY <1>5 DEF ReconcileDrops, Remove, ChooseFace, OpenApp, Install, Next, Mutate
<1>6. CASE UNCHANGED allVars BY <1>6 DEF allVars
<1> QED BY <1>2, <1>3, <1>4, <1>5, <1>6 DEF RunnerNext

-----------------------------------------------------------------------------
(* The two faces and the counts of the next index of each mutation.        *)
LEMMA NextFaces ==
  ASSUME NEW i \in Index, NEW r \in Refs
  PROVE  /\ Selected(i, r).active = i.active /\ Selected(i, r).pending = r
         /\ Selected(i, r).attempts = i.attempts
         /\ BuiltinSelected(i).active = NoRef /\ BuiltinSelected(i).pending = NoRef
         /\ BuiltinSelected(i).attempts = i.attempts
         /\ Promoted(i).active = i.pending /\ Promoted(i).pending = NoRef
         /\ Promoted(i).attempts = i.attempts
         /\ RolledBack(i).active = i.prior /\ RolledBack(i).pending = NoRef
         /\ RolledBack(i).attempts = i.attempts
         /\ Begun(i, r).active = i.active /\ Begun(i, r).pending = i.pending
         /\ \A c \in BOOLEAN : /\ Finished(i, r, c).active = i.active
                               /\ Finished(i, r, c).pending = i.pending
         /\ \A t \in Types : /\ Registered(i, r, t).active = i.active
                             /\ Registered(i, r, t).pending = i.pending
                             /\ Registered(i, r, t).attempts = i.attempts
BY DEF Index, Selected, BuiltinSelected, Promoted, RolledBack, Begun, Finished, Registered

LEMMA UnregisteredFaces ==
  ASSUME NEW i \in Index, NEW r \in Refs
  PROVE  /\ \/ /\ Unregistered(i, r).active = i.active
               /\ Unregistered(i, r).pending \in {i.pending, NoRef}
            \/ Unregistered(i, r).active = NoRef /\ Unregistered(i, r).pending = NoRef
         /\ Unregistered(i, r).attempts = [i.attempts EXCEPT ![r] = 0]
         /\ Unregistered(i, r).recorded = i.recorded \ {r}
BY DEF Index, Unregistered, BuiltinSelected

(* A save of an index FaceSelection can step to keeps the stored copy one  *)
(* such step ahead at most, and is such a step when it is reported.        *)
Allowed(next) ==
  \/ next.active = ram.active
  \/ next.active = NoRef /\ next.pending = NoRef
  \/ shown /\ next.active = ram.pending /\ next.pending = NoRef

LEMMA SaveAhead ==
  ASSUME Sound, ready, NEW next \in Index, NEW ok \in BOOLEAN, Saves(ok, next),
         Allowed(next), ok => (shown' => shown /\ next.pending = ram.pending),
         ~ok => shown' = shown, shown' \in BOOLEAN
  PROVE  StoreAhead' /\ PromiseStep
<1>0. next # Blank BY BlankAssumption
<1>1. CASE ok
  <2>1. ram' = next /\ nvs' = next /\ ready' = ready
    BY <1>1 DEF Saves, CommitOk
  <2>2. StoreAhead' BY <1>0, <1>1, <2>1 DEF Sound, StoreAhead
  <2>3. Face = ram.active /\ Candidate = ram.pending
        /\ Face' = next.active /\ Candidate' = next.pending
    BY <2>1 DEF Face, Candidate
  <2>4. shown => Candidate # NoRef BY <2>3 DEF Sound, StoreAhead
  <2>5. next.pending \in Refs \cup {NoRef} BY DEF Index
  <2>6. CASE Face' = Face
    BY <1>1, <2>2, <2>3, <2>4, <2>5, <2>6
    DEF PromiseStep, Sound, Promise!Next, Promise!Choose, Promise!Reject, Promise!Reboot,
        Face, Candidate
  <2>7. CASE Face' = NoRef /\ Candidate' = NoRef
    BY <1>1, <2>2, <2>3, <2>4, <2>7
    DEF PromiseStep, Promise!Next, Promise!Reset, Face, Candidate
  <2>8. CASE shown /\ Face' = Candidate /\ Candidate' = NoRef
    BY <1>1, <2>2, <2>3, <2>4, <2>8
    DEF PromiseStep, Promise!Next, Promise!Accept, Face, Candidate
  <2> QED BY <2>2, <2>3, <2>6, <2>7, <2>8 DEF Allowed
<1>2. CASE ~ok
  <2>1. ram' = ram /\ nvs' \in {nvs, next} /\ ready' = ready
    BY <1>2 DEF Saves, CommitFails
  <2>2. StoreAhead'
    BY <1>0, <1>2, <2>1 DEF Sound, StoreAhead, Allowed
  <2> QED BY <1>2, <2>1, <2>2 DEF PromiseStep, Face, Candidate
<1> QED BY <1>1, <1>2

LEMMA SaveCounts ==
  ASSUME Sound, ready, NEW next \in Index, NEW ok \in BOOLEAN, Saves(ok, next),
         ok /\ ~faulted => \A q \in Refs : next.attempts[q] = unclean'[q]
  PROVE  CountsExact'
BY DEF Saves, CommitOk, CountsExact
LEMMA CountsInRam ==
  ASSUME Sound, ready, ~faulted
  PROVE  \A q \in Refs : ram.attempts[q] = unclean[q]
BY DEF Sound, CountsExact, StoreAhead

(* The run record after a callback.                                        *)
LEMMA RunFailed ==
  ASSUME NEW r \in RunRecord, NEW f \in BOOLEAN
  PROVE  LET g == [r EXCEPT !.failed = f]
         IN  /\ g \in RunRecord /\ g.ref = r.ref /\ g.pending = r.pending
             /\ g.rendered = r.rendered
BY DEF RunRecord

LEMMA CallbackKeeps ==
  ASSUME NEW r \in RunRecord, AfterCallback(r)
  PROVE  /\ run' \in RunRecord /\ run'.ref = r.ref /\ run'.pending = r.pending
         /\ run'.rendered = r.rendered
         /\ pc' \in {"active", "finish"}
BY RunFailed DEF AfterCallback

(* A step that leaves the index alone.                                     *)
LEMMA IndexKept ==
  ASSUME Sound, UNCHANGED vars, shown' = shown, faulted => faulted'
  PROVE  StoreAhead' /\ CountsExact' /\ PromiseStep
BY DEF Sound, StoreAhead, CountsExact, PromiseStep, Face, Candidate, vars

-----------------------------------------------------------------------------
(* The boot, the shell and the portal.                                     *)
LEMMA QuietSteps ==
  ASSUME RunnerInv,
         \/ Wake \/ BootWanted \/ BootCallDone \/ GoHome \/ \E r \in Refs : OpenApp(r)
         \/ StartRefused \/ LoadAndStart \/ StopRequested \/ Back
  PROVE  Keeps
<1>0. Sound BY DEF Sound
<1>1. UNCHANGED vars /\ shown' = shown /\ (faulted => faulted')
  BY DEF Wake, BootWanted, BootCallDone, GoHome, OpenApp, StartRefused, LoadAndStart, StopRequested, Back
<1>2. StoreAhead' /\ CountsExact' /\ PromiseStep BY <1>0, <1>1, IndexKept
<1>3. ram' = ram /\ ready' = ready BY <1>1 DEF vars
<1>4. RunnerTyped' /\ BootSound' /\ AttemptSound'
  <2>1. CASE Wake BY <2>1, <1>1, <1>3 DEF Wake, RunRecord
  <2>9. CASE BootWanted BY <2>9, <1>1, <1>3 DEF BootWanted
  <2>2. CASE BootCallDone BY <2>2, <1>1, <1>3 DEF BootCallDone, NextCall
  <2>3. CASE GoHome BY <2>3, <1>1, <1>3 DEF GoHome
  <2>4. ASSUME NEW r \in Refs, OpenApp(r)
        PROVE  RunnerTyped' /\ BootSound' /\ AttemptSound'
    BY <2>4, <1>1, <1>3 DEF OpenApp, NoRun, RunRecord
  <2>5. CASE StartRefused BY <2>5, <1>1, <1>3 DEF StartRefused, NoRun, RunRecord
  <2>6. CASE LoadAndStart
    <3> PICK c \in BOOLEAN : AfterCallback([run EXCEPT !.cancelled = @ \/ c])
      BY <2>6 DEF LoadAndStart
    <3> DEFINE r == [run EXCEPT !.cancelled = @ \/ c]
    <3>1. /\ r \in RunRecord /\ r.ref = run.ref /\ r.pending = run.pending
          /\ r.rendered = run.rendered
      BY DEF RunRecord
    <3>2. /\ run' \in RunRecord /\ run'.ref = run.ref /\ run'.pending = run.pending
          /\ run'.rendered = run.rendered /\ pc' \in {"active", "finish"}
      BY <3>1, CallbackKeeps
    <3> QED BY <2>6, <3>2, <1>1, <1>3 DEF LoadAndStart
  <2>7. CASE StopRequested
    <3>1. /\ run' \in RunRecord /\ run'.ref = run.ref /\ run'.pending = run.pending
          /\ run'.rendered = run.rendered
      BY <2>7, RunFailed DEF StopRequested
    <3> QED BY <2>7, <3>1, <1>1, <1>3 DEF StopRequested
  <2>8. CASE Back BY <2>8, <1>1, <1>3 DEF Back, NoRun, RunRecord
  <2> QED BY <2>1, <2>2, <2>3, <2>4, <2>5, <2>6, <2>7, <2>8, <2>9
<1> QED BY <1>2, <1>4 DEF Keeps, Sound

LEMMA BootSteps ==
  ASSUME RunnerInv, BootInit \/ BootCallFails
  PROVE  Keeps
<1>1. EmptyIndex.active = NoRef /\ EmptyIndex.pending = NoRef
      /\ \A r \in Refs : EmptyIndex.attempts[r] = 0
  BY DEF EmptyIndex
<1>2. EmptyIndex # Blank BY EmptyValid, BlankAssumption
<1>3. nvs = Blank => \A r \in Refs : unclean[r] = 0
  BY DEF IndexInv, StartsRecorded, TypeOK
<1>4. CASE BootInit
  <2>1. RunnerTyped' /\ BootSound' /\ AttemptSound'
    BY <1>4 DEF BootInit, IndexInit, runnerVars
  <2>2. StoreAhead'
    BY <1>1, <1>2, <1>4 DEF BootInit, IndexInit, runnerVars, StoreAhead
  <2>3. CountsExact'
    BY <1>1, <1>2, <1>3, <1>4 DEF BootInit, IndexInit, runnerVars, CountsExact
  <2>4. PromiseStep
    BY <1>1, <1>2, <1>4 DEF BootInit, IndexInit, runnerVars, PromiseStep, Face, Candidate
  <2> QED BY <2>1, <2>2, <2>3, <2>4 DEF Keeps, Sound
<1>5. CASE BootCallFails
  <2>1. RunnerTyped' /\ BootSound' /\ AttemptSound'
    BY <1>5 DEF BootCallFails, NextCall, IndexInitFails, vars
  <2>2. StoreAhead'
    BY <1>1, <1>2, <1>5 DEF BootCallFails, IndexInitFails, vars, StoreAhead
  <2>3. CountsExact'
    BY <1>1, <1>2, <1>3, <1>5 DEF BootCallFails, IndexInitFails, vars, CountsExact
  <2>4. PromiseStep
    BY <1>1, <1>2, <1>5
    DEF BootCallFails, IndexInitFails, vars, PromiseStep, Face, Candidate
  <2> QED BY <2>1, <2>2, <2>3, <2>4 DEF Keeps, Sound
<1> QED BY <1>4, <1>5

LEMMA ResetStep ==
  ASSUME RunnerInv, Reset \/ Purged
  PROVE  Keeps
<1>1. EmptyIndex.active = NoRef /\ EmptyIndex.pending = NoRef BY DEF EmptyIndex
<1>2. nvs # Blank => nvs.pending \in Refs \cup {NoRef}
  BY DEF IndexInv, TypeOK, Index
<1>3. shown' = FALSE /\ nvs' = nvs /\ (faulted' = faulted) /\ unclean' = unclean
      /\ ready' = FALSE
  BY <1>1 DEF Reset, Purged, Restart, vars, StoreAhead
<1>4. RunnerTyped' /\ BootSound' /\ AttemptSound'
  <2>1. CASE Reset BY <1>3, <2>1 DEF Reset, NoRun, RunRecord
  <2>2. CASE Purged BY <1>3, <2>2 DEF Purged
  <2> QED BY <2>1, <2>2
<1>5. StoreAhead' /\ CountsExact'
  BY <1>3 DEF Reset, Purged, Restart, vars, StoreAhead, CountsExact
<1>6. PromiseStep
  <2>1. Face' = (IF nvs = Blank THEN NoRef ELSE nvs.active)
        /\ Candidate' = (IF nvs = Blank THEN NoRef ELSE nvs.pending)
    BY <1>3 DEF Face, Candidate
  <2>2. CASE Face' = Face
    BY <1>2, <1>3, <2>1, <2>2
    DEF PromiseStep, Promise!Next, Promise!Choose, Promise!Reject, Face, Candidate
  <2>3. CASE Face' = NoRef /\ Candidate' = NoRef
    BY <1>3, <2>1, <2>3 DEF PromiseStep, Promise!Next, Promise!Reset, Face, Candidate
  <2>4. CASE shown /\ Face' = Candidate /\ Candidate' = NoRef
    BY <1>3, <2>1, <2>4
    DEF PromiseStep, Promise!Next, Promise!Accept, StoreAhead, Face, Candidate
  <2> QED BY <2>1, <2>2, <2>3, <2>4 DEF StoreAhead, Face, Candidate
<1> QED BY <1>4, <1>5, <1>6 DEF Keeps, Sound

LEMMA RecoverStep ==
  ASSUME RunnerInv, Recover
  PROVE  Keeps
<1>0. Sound /\ ram \in Index /\ Valid(ram) BY DEF Sound, IndexInv, TypeOK
<1>1. CASE UNCHANGED <<vars, mode, shown, chosen, faulted>> /\ ram.pending = NoRef
  <2>1. StoreAhead' /\ CountsExact' /\ PromiseStep BY <1>0, <1>1, IndexKept
  <2>2. RunnerTyped' /\ BootSound' /\ AttemptSound'
    BY <1>1 DEF Recover, NextCall, vars
  <2> QED BY <2>1, <2>2 DEF Keeps, Sound
<1>2. ASSUME NEW ok \in BOOLEAN, RecoverStalePending, Saves(ok, RolledBack(ram)),
             mode' = IF ok THEN mode ELSE "blocked", KeepShown
      PROVE  Keeps
  <2>1. /\ RolledBack(ram).active = ram.active /\ RolledBack(ram).pending = NoRef
        /\ RolledBack(ram).attempts = ram.attempts
    BY <1>0, <1>2, NextFaces DEF RecoverStalePending, RolledBack, Index, Valid, PriorSound
  <2>2. /\ ready /\ ready' /\ ram' = (IF ok THEN RolledBack(ram) ELSE ram)
        /\ unclean' = unclean
    BY <1>2 DEF RecoverStalePending, Saves, CommitOk, CommitFails
  <2>3. StoreAhead' /\ PromiseStep
    BY <1>0, <1>2, <2>1, <2>2, RolledBackValid, SaveAhead DEF KeepShown, Allowed, Sound
  <2>4. CountsExact'
    BY <1>0, <1>2, <2>1, <2>2, RolledBackValid, SaveCounts, CountsInRam
  <2>5. RunnerTyped' /\ BootSound' /\ AttemptSound'
    BY <1>2, <2>1, <2>2 DEF Recover, NextCall, KeepShown
  <2> QED BY <2>3, <2>4, <2>5 DEF Keeps, Sound
<1> QED BY <1>1, <1>2 DEF Recover
LEMMA UnregisterSteps ==
  ASSUME RunnerInv, NEW r \in Refs, ReconcileDrops(r) \/ Remove(r)
  PROVE  Keeps
<1>0. Sound /\ ram \in Index /\ Valid(ram)
  BY DEF Sound, IndexInv, TypeOK
<1> DEFINE next == Unregistered(ram, r)
<1>1. Unregister(r) /\ KeepShown /\ run' = run /\ plan' = plan
  BY DEF ReconcileDrops, Remove
<1>2. ready /\ r \in Installed(ram) /\ Forget BY <1>1 DEF Unregister
<1>3. next \in Index /\ Valid(next) BY <1>0, <1>2, UnregisteredValid
<1> PICK ok \in BOOLEAN :
      /\ Saves(ok, next)
      /\ \/ Remove(r) /\ pc' = pc /\ mode' = mode
         \/ /\ ReconcileDrops(r)
            /\ IF ok \/ pc = "deferred" THEN UNCHANGED <<pc, mode>>
               ELSE pc' = NextCall /\ mode' = IF mode = "safe" THEN "safe" ELSE "blocked"
  BY DEF ReconcileDrops, Remove
<1>4. /\ ram' = (IF ok THEN next ELSE ram) /\ ready' = ready
      /\ ok => nvs' = next
  BY DEF Saves, CommitOk, CommitFails
<1>5. StoreAhead' /\ PromiseStep
  <2>1. Allowed(next) BY <1>0, UnregisteredFaces DEF Allowed
  <2>2. ok => (shown' => shown /\ next.pending = ram.pending)
    BY <1>1, <1>4 DEF KeepShown
  <2>3. shown' \in BOOLEAN /\ (~ok => shown' = shown) BY <1>1, <1>4 DEF KeepShown
  <2> QED BY <1>0, <1>2, <1>3, <2>1, <2>2, <2>3, SaveAhead
<1>6. CountsExact'
  <2>1. ok /\ ~faulted => \A q \in Refs : next.attempts[q] = unclean'[q]
    <3> SUFFICES ASSUME ok, ~faulted, NEW q \in Refs
                 PROVE  next.attempts[q] = unclean'[q]
      OBVIOUS
    <3>1. ram.attempts[q] = unclean[q] BY <1>0, <1>2, CountsInRam
    <3>2. q \notin ram.recorded => ram.attempts[q] = 0
      BY <1>0 DEF Valid, HealthSound
    <3>3. nvs' # Blank /\ nvs' = next BY <1>3, <1>4, BlankAssumption
    <3>4. unclean'[q] = IF q \in next.recorded THEN unclean[q] ELSE 0
      BY <1>2, <3>3 DEF Forget
    <3>5. /\ next.attempts = [ram.attempts EXCEPT ![r] = 0]
          /\ next.recorded = ram.recorded \ {r}
      BY <1>0, UnregisteredFaces
    <3> QED BY <1>0, <3>1, <3>2, <3>4, <3>5 DEF Index
  <2> QED BY <1>0, <1>2, <1>3, <2>1, SaveCounts
<1>7. RunnerTyped' /\ BootSound' /\ AttemptSound'
  <2>1. next.pending \in {ram.pending, NoRef} BY <1>0, UnregisteredFaces
  <2>2. pc \notin InAttempt \cup {"off", "purged", "start", "back"}
        /\ pc' \notin InAttempt \cup {"off", "purged", "start", "back"}
    BY DEF ReconcileDrops, Remove, NextCall
  <2> QED BY <1>1, <1>2, <1>4, <2>1, <2>2 DEF KeepShown, ReconcileDrops, Remove, NextCall
<1> QED BY <1>5, <1>6, <1>7 DEF Keeps, Sound

LEMMA InstallStep ==
  ASSUME RunnerInv, NEW r \in Refs, NEW t \in Types, Install(r, t)
  PROVE  Keeps
<1>0. Sound /\ ram \in Index /\ Valid(ram) BY DEF Sound, IndexInv, TypeOK
<1> DEFINE next == Registered(ram, r, t)
<1> PICK ok \in BOOLEAN : Saves(ok, next) BY DEF Install
<1>1. ready /\ CanRegister(ram, r) /\ unclean' = unclean
  BY DEF Install, RegisterInstalled
<1>2. next \in Index BY <1>0, <1>1, RegisteredValid
<1>3. /\ next.active = ram.active /\ next.pending = ram.pending
      /\ next.attempts = ram.attempts
  BY <1>0, NextFaces
<1>4. ram' = (IF ok THEN next ELSE ram) /\ ready' = ready
  BY DEF Saves, CommitOk, CommitFails
<1>5. StoreAhead' /\ PromiseStep
  BY <1>0, <1>1, <1>2, <1>3, SaveAhead DEF Allowed, Install
<1>6. CountsExact'
  BY <1>0, <1>1, <1>2, <1>3, SaveCounts, CountsInRam
<1>7. RunnerTyped' /\ BootSound' /\ AttemptSound'
  BY <1>1, <1>3, <1>4 DEF Install
<1> QED BY <1>5, <1>6, <1>7 DEF Keeps, Sound

LEMMA PurgeStep ==
  ASSUME RunnerInv, Purge
  PROVE  Keeps
<1>0. Sound /\ ram \in Index BY DEF Sound, IndexInv, TypeOK
<1>1. /\ EmptyIndex.active = NoRef /\ EmptyIndex.pending = NoRef
      /\ EmptyIndex.recorded = {}
      /\ \A q \in Refs : EmptyIndex.attempts[q] = 0
  BY DEF EmptyIndex
<1>2. EmptyIndex \in Index /\ EmptyIndex # Blank BY EmptyValid, BlankAssumption
<1>3. ASSUME IndexClear, NEW ok \in BOOLEAN, Saves(ok, EmptyIndex),
             pc' = IF ok THEN "purged" ELSE "idle"
      PROVE  Keeps
  <2>1. ready /\ Forget BY <1>3 DEF IndexClear
  <2>2. ram' = (IF ok THEN EmptyIndex ELSE ram) /\ ready' = ready
        /\ (ok => nvs' = EmptyIndex)
    BY <1>3 DEF Saves, CommitOk, CommitFails
  <2>3. StoreAhead' /\ PromiseStep
    BY <1>0, <1>1, <1>2, <1>3, <2>1, <2>2, SaveAhead DEF Allowed, Purge, KeepShown, Sound
  <2>4. CountsExact'
    BY <1>0, <1>1, <1>2, <1>3, <2>1, <2>2, SaveCounts DEF Forget
  <2>5. RunnerTyped' /\ BootSound' /\ AttemptSound'
    BY <1>3, <2>1, <2>2 DEF Purge, KeepShown
  <2> QED BY <2>3, <2>4, <2>5 DEF Keeps, Sound
<1>4. CASE StoreErased /\ UNCHANGED pc /\ faulted' \in {faulted, TRUE}
  <2>1. /\ ~ready /\ nvs' = EmptyIndex /\ ram' = ram /\ ready' = ready /\ Forget
        /\ shown' = FALSE
    BY <1>4 DEF StoreErased, Purge, KeepShown, StoreAhead
  <2>2. StoreAhead' BY <2>1 DEF StoreAhead
  <2>3. CountsExact' BY <1>1, <1>2, <2>1 DEF CountsExact, Forget
  <2>4. RunnerTyped' /\ BootSound' /\ AttemptSound'
    BY <1>4, <2>1 DEF Purge, KeepShown
  <2>5. PromiseStep
    BY <1>1, <1>2, <2>1 DEF PromiseStep, Promise!Next, Promise!Reset, Face, Candidate
  <2> QED BY <2>2, <2>3, <2>4, <2>5 DEF Keeps, Sound
<1> QED BY <1>3, <1>4 DEF Purge

LEMMA ChooseSteps ==
  ASSUME RunnerInv, ChooseBuiltin \/ \E r \in Refs : ChooseFace(r)
  PROVE  Keeps
<1>0. Sound /\ ram \in Index /\ Valid(ram) BY DEF Sound, IndexInv, TypeOK
<1>1. CASE ChooseBuiltin
  <2> DEFINE next == BuiltinSelected(ram)
  <2> PICK ok \in BOOLEAN : Saves(ok, next) BY <1>1 DEF ChooseBuiltin
  <2>1. ready /\ unclean' = unclean BY <1>1 DEF ChooseBuiltin, SelectBuiltin
  <2>2. /\ next \in Index /\ next.active = NoRef /\ next.pending = NoRef
        /\ next.attempts = ram.attempts
    BY <1>0, BuiltinValid DEF BuiltinSelected, Index
  <2>3. ram' = (IF ok THEN next ELSE ram) /\ ready' = ready
    BY DEF Saves, CommitOk, CommitFails
  <2>4. StoreAhead' /\ PromiseStep
    BY <1>0, <1>1, <2>1, <2>2, <2>3, SaveAhead DEF Allowed, ChooseBuiltin, KeepShown, Sound
  <2>5. CountsExact' BY <1>0, <2>1, <2>2, SaveCounts, CountsInRam
  <2>6. RunnerTyped' /\ BootSound' /\ AttemptSound'
    BY <1>1, <2>1, <2>2, <2>3 DEF ChooseBuiltin, KeepShown
  <2> QED BY <2>4, <2>5, <2>6 DEF Keeps, Sound
<1>2. ASSUME NEW r \in Refs, ChooseFace(r) PROVE Keeps
  <2> DEFINE next == Selected(ram, r)
  <2> PICK ok \in BOOLEAN :
        /\ Saves(ok, next)
        /\ IF ok THEN shown' = FALSE /\ chosen' = TRUE
           ELSE UNCHANGED <<shown, chosen>>
        /\ \/ UNCHANGED <<pc, plan>>
           \/ ok /\ mode = "normal" /\ pc' = "start" /\ plan' = "once"
    BY <1>2 DEF ChooseFace
  <2>1. ready /\ CanSelect(ram, r) /\ unclean' = unclean
    BY <1>2 DEF ChooseFace, SelectWatchface
  <2>2. /\ next \in Index /\ next.active = ram.active /\ next.pending = r
        /\ next.attempts = ram.attempts
    BY <1>0, <2>1, SelectedValid, NextFaces
  <2>3. ram' = (IF ok THEN next ELSE ram) /\ ready' = ready
    BY DEF Saves, CommitOk, CommitFails
  <2>4. StoreAhead' /\ PromiseStep
    BY <1>0, <2>1, <2>2, SaveAhead DEF Allowed, Sound
  <2>5. CountsExact' BY <1>0, <2>1, <2>2, SaveCounts, CountsInRam
  <2>6. RunnerTyped' /\ BootSound' /\ AttemptSound'
    BY <1>2, <2>1, <2>2, <2>3 DEF ChooseFace
  <2> QED BY <2>4, <2>5, <2>6 DEF Keeps, Sound
<1> QED BY <1>1, <1>2
-----------------------------------------------------------------------------
(* One attempt.                                                            *)
LEMMA StartAttemptStep ==
  ASSUME RunnerInv, StartAttempt
  PROVE  Keeps
<1>0. Sound /\ ram \in Index /\ Valid(ram) BY DEF Sound, IndexInv, TypeOK
<1> DEFINE next == Begun(ram, Target)
<1>1. /\ BeginAttempt(Target) /\ ready /\ CanBegin(ram, Target)
      /\ Target \in Refs /\ pc = "start"
  BY DEF StartAttempt, BeginAttempt, CanBegin, Installed
<1> PICK ok \in BOOLEAN :
      /\ Saves(ok, next)
      /\ IF ok /\ ~Exhausted(ram, Target)
         THEN /\ pc' = "loading"
              /\ run' = [NoRun EXCEPT !.ref = Target, !.pending = ram.pending = Target]
         ELSE pc' = "back" /\ run' = [NoRun EXCEPT !.failed = TRUE]
  BY DEF StartAttempt
<1>2. next \in Index /\ next.active = ram.active /\ next.pending = ram.pending
  BY <1>0, <1>1, BegunValid, NextFaces
<1>3. ram' = (IF ok THEN next ELSE ram) /\ ready' = ready
  BY DEF Saves, CommitOk, CommitFails
<1>4. StoreAhead' /\ PromiseStep
  BY <1>0, <1>1, <1>2, SaveAhead DEF Allowed, StartAttempt, Sound
<1>5. CountsExact'
  <2>1. ASSUME ok, ~faulted, NEW q \in Refs
        PROVE  next.attempts[q] = unclean'[q]
    <3>1. ram.attempts[q] = unclean[q] BY <1>0, <1>1, <2>1, CountsInRam
    <3>2. next # ram
      <4>1. next.recorded = ram.recorded \cup {Target}
            /\ (~Exhausted(ram, Target) => next.attempts[Target] = ram.attempts[Target] + 1)
            /\ (Exhausted(ram, Target) => Target \in next.quarantined)
        BY <1>0, <1>1 DEF Begun, Index
      <4>2. ram.attempts[Target] \in Nat BY <1>0, <1>1 DEF Index
      <4> QED BY <1>1, <4>1, <4>2 DEF CanBegin
    <3>3. CommitOk(next)
          /\ unclean' = [unclean EXCEPT ![Target] = IF Exhausted(ram, Target) THEN @ ELSE @ + 1]
      BY <1>1, <1>3, <2>1, <3>2 DEF BeginAttempt, CommitFails
    <3>4. next.attempts = IF Exhausted(ram, Target) THEN ram.attempts
                          ELSE [ram.attempts EXCEPT ![Target] = @ + 1]
      BY <1>0 DEF Begun, Index
    <3>5. unclean \in [Refs -> Nat] /\ ram.attempts \in [Refs -> Nat]
      BY <1>0 DEF IndexInv, TypeOK, Index
    <3> QED BY <1>1, <3>1, <3>3, <3>4, <3>5
  <2> QED BY <1>0, <1>1, <1>2, <2>1, SaveCounts
<1>6. run' \in RunRecord /\ run'.rendered = FALSE
      /\ (pc' = "loading" => run'.ref = Target /\ (run'.pending => ram.pending = Target))
  BY <1>1 DEF NoRun, RunRecord
<1>7. RunnerTyped' /\ BootSound' /\ AttemptSound'
  BY <1>1, <1>2, <1>3, <1>6 DEF StartAttempt
<1> QED BY <1>4, <1>5, <1>7 DEF Keeps, Sound

LEMMA RenderStep ==
  ASSUME RunnerInv, Render
  PROVE  Keeps
<1>0. Sound BY DEF Sound
<1>1. ram' = ram /\ ready' = ready /\ nvs' = nvs /\ unclean' = unclean
      /\ faulted' = faulted /\ chosen' = chosen /\ mode' = mode /\ pc = "active"
  BY DEF Render, vars
<1>2. /\ run' \in RunRecord /\ run'.ref = run.ref /\ run'.pending = run.pending
      /\ pc' \in {"active", "finish"}
      /\ \/ shown' = (shown \/ run.pending)
         \/ run'.rendered = run.rendered /\ shown' = shown
  <2>1. CASE AfterCallback([run EXCEPT !.rendered = TRUE, !.drew = TRUE])
             /\ shown' = (shown \/ run.pending)
    <3> DEFINE r == [run EXCEPT !.rendered = TRUE, !.drew = TRUE]
    <3>1. r \in RunRecord /\ r.ref = run.ref /\ r.pending = run.pending
      BY DEF RunRecord
    <3> QED BY <2>1, <3>1, CallbackKeeps
  <2>2. CASE AfterCallback([run EXCEPT !.cancelled = TRUE, !.drew = TRUE])
             /\ UNCHANGED shown
    <3> DEFINE r == [run EXCEPT !.cancelled = TRUE, !.drew = TRUE]
    <3>1. /\ r \in RunRecord /\ r.ref = run.ref /\ r.pending = run.pending
          /\ r.rendered = run.rendered
      BY DEF RunRecord
    <3> QED BY <2>2, <3>1, CallbackKeeps
  <2>3. CASE pc' = "finish" /\ run' = [run EXCEPT !.failed = TRUE] /\ UNCHANGED shown
    BY <2>3, RunFailed
  <2> QED BY <2>1, <2>2, <2>3 DEF Render
<1>3. run.pending \in BOOLEAN BY DEF RunRecord
<1>4. run.pending => ram.pending \in Refs BY <1>1
<1>5. shown' \in BOOLEAN BY <1>2, <1>3
<1>6. RunnerTyped' /\ BootSound' /\ AttemptSound'
  BY <1>1, <1>2, <1>3, <1>5
<1>7. ready BY <1>1
<1>8. StoreAhead' BY <1>1, <1>2, <1>4, <1>7, NoRefAssumption DEF StoreAhead
<1>9. CountsExact' BY <1>1 DEF CountsExact
<1>10. PromiseStep
  BY <1>1, <1>2, <1>3, <1>4, <1>5, <1>7, NoRefAssumption
  DEF PromiseStep, Promise!Next, Promise!Show, Face, Candidate
<1> QED BY <1>6, <1>8, <1>9, <1>10 DEF Keeps, Sound

LEMMA FinishStep ==
  ASSUME RunnerInv, Finish
  PROVE  Keeps
<1>0. Sound /\ ram \in Index BY DEF Sound, IndexInv, TypeOK
<1>1. run.ref \in Refs /\ pc = "finish" /\ run.pending \in BOOLEAN
  BY DEF Finish, RunRecord
<1>2. Clean \in BOOLEAN BY <1>1 DEF Clean
<1> PICK clean \in {Clean, FALSE}, ok \in BOOLEAN :
      /\ FinishAttempt(run.ref, clean)
      /\ Saves(ok, Finished(ram, run.ref, clean))
      /\ run' = [run EXCEPT !.failed = ~(clean /\ ok)]
      /\ pc' = IF ~run.pending THEN "back"
               ELSE IF clean /\ ok THEN "promote" ELSE "rollback"
  BY DEF Finish
<1> DEFINE next == Finished(ram, run.ref, clean)
<1>3. clean \in BOOLEAN BY <1>2
<1>4. /\ ready /\ CanFinish(ram, run.ref)
      /\ unclean' = [unclean EXCEPT ![run.ref] = IF clean THEN 0 ELSE @]
  BY DEF FinishAttempt
<1>5. /\ next \in Index /\ next.active = ram.active /\ next.pending = ram.pending
      /\ next.attempts = IF clean THEN [ram.attempts EXCEPT ![run.ref] = 0] ELSE ram.attempts
  BY <1>0, <1>1, <1>3 DEF Finished, Index
<1>6. ram' = (IF ok THEN next ELSE ram) /\ ready' = ready
  BY DEF Saves, CommitOk, CommitFails
<1>7. StoreAhead' /\ PromiseStep
  BY <1>0, <1>4, <1>5, SaveAhead DEF Allowed, Finish, Sound
<1>8. CountsExact'
  <2>1. ASSUME ok, ~faulted, NEW q \in Refs
        PROVE  next.attempts[q] = unclean'[q]
    <3>1. ram.attempts[q] = unclean[q] BY <1>0, <1>4, <2>1, CountsInRam
    <3>2. unclean \in [Refs -> Nat] /\ ram.attempts \in [Refs -> Nat]
      BY <1>0 DEF IndexInv, TypeOK, Index
    <3> QED BY <1>1, <1>3, <1>4, <1>5, <3>1, <3>2
  <2> QED BY <1>0, <1>4, <1>5, <2>1, SaveCounts
<1>9. /\ run' \in RunRecord /\ run'.ref = run.ref /\ run'.pending = run.pending
      /\ run'.rendered = run.rendered
  BY <1>3, RunFailed
<1>10. pc' = "promote" => run.rendered
  BY <1>1, <1>2, <1>3 DEF Clean
<1>11. RunnerTyped' /\ BootSound' /\ AttemptSound'
  BY <1>1, <1>4, <1>5, <1>6, <1>9, <1>10 DEF Finish
<1> QED BY <1>7, <1>8, <1>11 DEF Keeps, Sound

LEMMA PromoteStep ==
  ASSUME RunnerInv, Promote
  PROVE  Keeps
<1>0. Sound /\ ram \in Index /\ Valid(ram) BY DEF Sound, IndexInv, TypeOK
<1> DEFINE next == Promoted(ram)
<1> PICK ok \in BOOLEAN :
      /\ Saves(ok, next)
      /\ IF ok THEN pc' = "back" /\ UNCHANGED run
         ELSE pc' = "rollback" /\ run' = [run EXCEPT !.failed = TRUE]
  BY DEF Promote
<1>1. pc = "promote" /\ ready /\ unclean' = unclean /\ KeepShown
      /\ ram.pending = run.ref /\ run.ref \in Refs /\ shown
  BY DEF Promote, PromotePending
<1>2. /\ next \in Index /\ next.active = ram.pending /\ next.pending = NoRef
      /\ next.attempts = ram.attempts
  BY <1>0, <1>1, PromotedValid, NextFaces
<1>3. ram' = (IF ok THEN next ELSE ram) /\ ready' = ready
  BY DEF Saves, CommitOk, CommitFails
<1>4. StoreAhead' /\ PromiseStep
  BY <1>0, <1>1, <1>2, <1>3, SaveAhead DEF Allowed, KeepShown, Sound
<1>5. CountsExact' BY <1>0, <1>1, <1>2, SaveCounts, CountsInRam
<1>6. /\ run' \in RunRecord /\ run'.ref = run.ref /\ run'.pending = run.pending
      /\ run'.rendered = run.rendered
  BY RunFailed
<1>7. RunnerTyped' /\ BootSound' /\ AttemptSound'
  BY <1>1, <1>2, <1>3, <1>6 DEF Promote, KeepShown
<1> QED BY <1>4, <1>5, <1>7 DEF Keeps, Sound

LEMMA RollbackStep ==
  ASSUME RunnerInv, Rollback
  PROVE  Keeps
<1>0. Sound /\ ram \in Index /\ Valid(ram) BY DEF Sound, IndexInv, TypeOK
<1> DEFINE next == RolledBack(ram)
<1> PICK ok \in BOOLEAN : Saves(ok, next) BY DEF Rollback
<1>1. /\ pc = "rollback" /\ pc' = "back" /\ run' = run /\ mode' = mode
      /\ ready /\ unclean' = unclean /\ KeepShown
      /\ ram.pending = run.ref /\ run.ref \in Refs
  BY DEF Rollback, RollbackPending
<1>2. /\ next \in Index /\ next.active = ram.active /\ next.pending = NoRef
      /\ next.attempts = ram.attempts
  BY <1>0, <1>1, RolledBackValid, NextFaces, NoRefAssumption DEF Valid, PriorSound
<1>3. ram' = (IF ok THEN next ELSE ram) /\ ready' = ready
  BY DEF Saves, CommitOk, CommitFails
<1>4. StoreAhead' /\ PromiseStep
  BY <1>0, <1>1, <1>2, <1>3, SaveAhead DEF Allowed, KeepShown, Sound
<1>5. CountsExact' BY <1>0, <1>1, <1>2, SaveCounts, CountsInRam
<1>6. RunnerTyped' /\ BootSound' /\ AttemptSound'
  BY <1>1, <1>2, <1>3 DEF KeepShown
<1> QED BY <1>4, <1>5, <1>6 DEF Keeps, Sound

-----------------------------------------------------------------------------
LEMMA RunnerInvInit == RunnerInit => RunnerInv
<1> SUFFICES ASSUME RunnerInit PROVE RunnerInv OBVIOUS
<1>1. IndexInv BY IndexInvInit DEF RunnerInit
<1>2. CountsExact /\ StoreAhead
  BY DEF RunnerInit, Init, CountsExact, StoreAhead
<1> QED BY <1>1, <1>2 DEF RunnerInit, Init, NoRun, RunRecord

LEMMA RunnerStep ==
  ASSUME RunnerInv, [RunnerNext]_allVars
  PROVE  Keeps
<1>1. CASE BootStep
  BY <1>1, QuietSteps, BootSteps, RecoverStep DEF BootStep
<1>2. CASE AttemptStep
  BY <1>2, QuietSteps, StartAttemptStep, RenderStep, FinishStep, PromoteStep, RollbackStep
  DEF AttemptStep
<1>3. CASE Wake \/ Reset \/ Purge \/ Purged \/ ChooseBuiltin \/ GoHome
  BY <1>3, QuietSteps, ResetStep, PurgeStep, ChooseSteps
<1>4. ASSUME NEW r \in Refs,
             \/ ReconcileDrops(r) \/ Remove(r) \/ ChooseFace(r) \/ OpenApp(r)
             \/ \E t \in Types : Install(r, t)
      PROVE  Keeps
  BY <1>4, QuietSteps, UnregisterSteps, ChooseSteps, InstallStep
<1>5. CASE UNCHANGED allVars
  BY <1>5 DEF allVars, runnerVars, vars, Keeps, Sound, StoreAhead, CountsExact,
              PromiseStep, Face, Candidate
<1> QED BY <1>1, <1>2, <1>3, <1>4, <1>5 DEF RunnerNext

LEMMA RunnerInvNext == RunnerInv /\ [RunnerNext]_allVars => RunnerInv'
<1> SUFFICES ASSUME RunnerInv, [RunnerNext]_allVars PROVE RunnerInv' OBVIOUS
<1>1. IndexInv' BY RunnerStepsIndex, IndexInvNext
<1>2. Sound' BY RunnerStep DEF Keeps
<1> QED BY <1>1, <1>2 DEF Sound

(* The inductive invariant of the runner: what the task knows in an        *)
(* attempt, and how far flash may be ahead of RAM (idf_runtime.c:1120).    *)
THEOREM RunnerInvariant == RunnerSpec => []RunnerInv
BY RunnerInvInit, RunnerInvNext, PTL DEF RunnerSpec

(* The firmware calls the index only as the index's own specification      *)
(* allows: every theorem about that one holds of the running watch         *)
(* (package_policy.c, idf_runtime.c).                                      *)
THEOREM RunnerUsesIndex == RunnerSpec => Spec
<1>1. RunnerInit => Init BY DEF RunnerInit
<1>2. RunnerInv /\ [RunnerNext]_allVars => [Next]_vars BY RunnerStepsIndex
<1> QED BY <1>1, <1>2, RunnerInvariant, PTL DEF RunnerSpec, Spec

(* The active face is replaced only by a candidate whose frame was on the  *)
(* panel, whatever save fails and whenever the power goes (README.md:124). *)
THEOREM PromiseAlwaysKept == RunnerSpec => PromiseKept
<1>1. RunnerInit => Promise!Init
  BY DEF RunnerInit, Init, Promise!Init
<1>2. RunnerInv /\ [RunnerNext]_allVars => [Promise!Next]_<<Face, Candidate, shown>>
  BY RunnerStep DEF Keeps, PromiseStep
<1> QED
  BY <1>1, <1>2, RunnerInvariant, PTL
  DEF RunnerSpec, PromiseKept, Promise!Spec, Face, Candidate

(* A face on probation runs only when somebody chose it since the last     *)
(* reset (watchface_action_policy.c:162).                                  *)
THEOREM NeverASecondProbation == RunnerSpec => []NoSecondProbation
<1>1. RunnerInv => NoSecondProbation
  BY NoRefAssumption DEF NoSecondProbation
<1> QED BY <1>1, RunnerInvariant, PTL

(* Unless a save has failed, a quarantined package has had its three       *)
(* starts, none of which ended cleanly (package_state.c:466).              *)
THEOREM NeverAHastyQuarantine == RunnerSpec => []NoHastyQuarantine
<1>1. RunnerInv => NoHastyQuarantine
  <2> SUFFICES ASSUME RunnerInv, ~faulted, NEW r \in ram.quarantined
               PROVE  unclean[r] = MaxAttempts
    BY DEF NoHastyQuarantine
  <2>1. ram \in Index /\ Valid(ram) /\ r \in Refs /\ ram.attempts[r] = MaxAttempts
    BY DEF IndexInv, TypeOK, Index, Valid, HealthSound
  <2>3. ready BY DEF StoreAhead, EmptyIndex
  <2> QED BY <2>1, <2>3, CountsInRam DEF Sound
<1> QED BY <1>1, RunnerInvariant, PTL
=============================================================================
