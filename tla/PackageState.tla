----------------------------- MODULE PackageState -----------------------------
(***************************************************************************)
(* The state directory of one package (host_caps.c): host_storage_read and *)
(* host_storage_write one file operation at a time, with a file system of  *)
(* which any operation may fail, a power loss between any two of them, and *)
(* the scrubbing of temporaries when a session opens and when the watch    *)
(* boots.                                                                  *)
(*                                                                         *)
(* A node is a path below the state root; it is absent, a directory or a   *)
(* file.  A path may thus be a file now and the directory of another path  *)
(* later.  The package has the storage capability and its arguments lie in *)
(* its memory; what it may read of its assets never changes and is left    *)
(* out.                                                                    *)
(***************************************************************************)
EXTENDS Naturals, FiniteSetsExt

CONSTANTS
  Nodes,    \* paths below the state root
  Above,    \* for each the paths of its proper ancestors
  Size,     \* contents a package writes, with their sizes
  Temps,    \* names of temporaries, .watchy-state-<random>
  Quota,    \* WATCHY_PACKAGE_STATE_QUOTA
  NodeMax,  \* WATCHY_PACKAGE_STATE_NODE_MAX
  None, Dir, Torn

Contents == DOMAIN Size

(* Paths and names are bounded strings (WATCHY_PACKAGE_HOST_PATH_MAX), so  *)
(* there are finitely many of them.                                        *)
ASSUME StateAssumption ==
  /\ Above \in [Nodes -> SUBSET Nodes]
  /\ \A n \in Nodes : n \notin Above[n] /\ \A m \in Above[n] : Above[m] \subseteq Above[n]
  /\ Size \in [Contents -> Nat] /\ Quota \in Nat /\ NodeMax \in Nat \ {0}
  /\ {None, Dir, Torn} \cap Contents = {} /\ None # Dir /\ Torn \notin {None, Dir}
  /\ None \notin Nat
  /\ IsFiniteSet(Nodes) /\ IsFiniteSet(Temps)

VARIABLES
  node,     \* what is at a path
  temp,     \* bytes in a temporary, None when it does not exist
  kept,     \* temporaries of this session that could not be unlinked
  session,  \* "off" before the boot has scrubbed, "closed", "open"
  lock,     \* state_mutex is taken
  call,     \* the host call the package is in
  told      \* what the last call answered

stateVars == <<node, temp, kept, session, lock, call, told>>

NoCall == [at |-> "none"]
NoAnswer == [status |-> "none"]

-----------------------------------------------------------------------------
(* The tree.                                                               *)

IsFile(n) == node[n] \notin {None, Dir}

Leftovers == {t \in Temps : temp[t] # None}

(* A file of which only a part was written counts with what it holds; the  *)
(* model needs its size nowhere.                                           *)
FileSize(n) == IF node[n] = Torn THEN 0 ELSE Size[node[n]]

Stored(skip) == MapThenSumSet(FileSize, {n \in Nodes \ {skip} : IsFile(n)})
Scratch == MapThenSumSet(LAMBDA t : temp[t], Leftovers)

(* tree_size: all regular files below the root but the one to be replaced, *)
(* the temporaries included.                                               *)
TreeSize(skip) == Stored(skip) + Scratch

Entries(above) ==
  {n \in Nodes : node[n] # None /\ Above[n] = above}
    \cup (IF above = {} THEN Leftovers ELSE {})

(* The traversal keeps at most NodeMax names.  It always ends well with as *)
(* few entries, never with a larger directory; between, it depends on the  *)
(* order in which the directory is read.                                   *)
Measured(fits) ==
  /\ (Cardinality({n \in Nodes : node[n] # None}) + Cardinality(Leftovers) <= NodeMax => fits)
  /\ fits => \A above \in {{}} \cup {Above[n] \cup {n} : n \in Nodes} :
               Cardinality(Entries(above)) <= NodeMax

(* watchy_package_state_quota_allows.                                      *)
QuotaAllows(current, incoming) ==
  current <= Quota /\ incoming <= Quota - current

-----------------------------------------------------------------------------
(* Sessions.                                                               *)

(* The boot scrubs what an interrupted write left (reconcile_storage).     *)
Reconcile ==
  /\ session = "off"
  /\ \E left \in SUBSET Leftovers :
       /\ temp' = [t \in Temps |-> IF t \in left THEN temp[t] ELSE None]
       /\ session' = IF left = {} THEN "closed" ELSE "off"
  /\ UNCHANGED <<node, kept, lock, call, told>>

(* Mutant: a session starts over what an earlier one left.                 *)
OpenUnscrubbed ==
  /\ session = "closed"
  /\ session' = "open" /\ kept' = {} /\ told' = NoAnswer
  /\ UNCHANGED <<node, temp, lock, call>>

(* watchy_package_host_init: a temporary that cannot be removed keeps the  *)
(* package from being started.                                             *)
Open ==
  /\ session = "closed"
  /\ \E left \in SUBSET Leftovers :
       /\ temp' = [t \in Temps |-> IF t \in left THEN temp[t] ELSE None]
       /\ session' = IF left = {} THEN "open" ELSE "closed"
  /\ kept' = {} /\ told' = NoAnswer
  /\ UNCHANGED <<node, lock, call>>

(* watchy_package_host_deinit.                                             *)
Close ==
  /\ session = "open" /\ call = NoCall
  /\ session' = "closed" /\ kept' = {}
  /\ UNCHANGED <<node, temp, lock, call, told>>

(* A power loss, or the watchdog.  Of a temporary that was not synced any  *)
(* part may be left.                                                       *)
PowerLoss ==
  /\ session' = "off" /\ kept' = {} /\ lock' = FALSE
  /\ call' = NoCall /\ told' = NoAnswer
  /\ IF call.at \in {"write", "sync"}
     THEN \E n \in 0..temp[call.temp] : temp' = [temp EXCEPT ![call.temp] = n]
     ELSE UNCHANGED temp
  /\ UNCHANGED node

-----------------------------------------------------------------------------
(* The calls.                                                              *)

Answer(status, content) ==
  told' = [status |-> status, op |-> call.op, node |-> call.node,
           content |-> content, old |-> call.old]

Return(status, content) == Answer(status, content) /\ call' = NoCall /\ lock' = FALSE

Refuse == Return("invalid", None)

Calls(op, n, c, room) ==
  /\ session = "open" /\ call = NoCall
  /\ call' = [at |-> "lock", op |-> op, node |-> n, content |-> c, room |-> room,
              temp |-> None, old |-> node[n]]
  /\ told' = NoAnswer
  /\ UNCHANGED <<node, temp, kept, session, lock>>

CallRead == \E n \in Nodes, room \in 0..Quota : Calls("read", n, None, room)

(* Longer data than the quota is refused before the lock.                  *)
CallWrite == \E n \in Nodes, c \in Contents : Size[c] <= Quota /\ Calls("write", n, c, 0)

TakeLock ==
  /\ call.at = "lock" /\ ~lock
  /\ lock' = TRUE
  /\ call' = [call EXCEPT !.at = "check"]
  /\ UNCHANGED <<node, temp, kept, session, told>>

At(step) == call.at = step /\ UNCHANGED session

Goes(step) == call' = [call EXCEPT !.at = step] /\ UNCHANGED <<lock, told>>

(* host_storage_read.                                                      *)
Read ==
  /\ At("check") /\ call.op = "read"
  /\ \/ IsFile(call.node) /\ FileSize(call.node) <= call.room
        /\ Return("ok", node[call.node])
     \/ IsFile(call.node) /\ FileSize(call.node) > call.room /\ Return("invalid", None)
     \/ Return("failed", None)
  /\ UNCHANGED <<node, temp, kept>>

(* host_storage_write up to the directories: the target is a file or does  *)
(* not exist, the tree can be measured, the quota allows the new file.     *)
Admitted ==
  /\ node[call.node] # Dir
  /\ QuotaAllows(TreeSize(call.node), Size[call.content])

Check ==
  /\ At("check") /\ call.op = "write"
  /\ \/ \E fits \in BOOLEAN :
          Measured(fits) /\ IF Admitted /\ fits THEN Goes("mkdirs") ELSE Refuse
     \/ Refuse
  /\ UNCHANGED <<node, temp, kept>>

(* parent_mkdirs goes down from the root and takes a file for a directory  *)
(* that exists; below it, it fails.                                        *)
Missing == {m \in Above[call.node] : node[m] = None}

MakeDirectories ==
  /\ At("mkdirs")
  /\ \E made \in SUBSET Missing :
       /\ \A m \in made : \A a \in Above[m] : node[a] = Dir \/ a \in made
       /\ node' = [n \in Nodes |-> IF n \in made THEN Dir ELSE node[n]]
       /\ IF made = Missing THEN Goes("create") ELSE Refuse
  /\ UNCHANGED <<temp, kept>>

(* O_EXCL, with up to eight names.                                         *)
Create ==
  /\ At("create")
  /\ \/ \E t \in Temps \ Leftovers :
          /\ temp' = [temp EXCEPT ![t] = 0]
          /\ call' = [call EXCEPT !.at = "write", !.temp = t]
          /\ UNCHANGED <<lock, told>>
     \/ Return("failed", None) /\ UNCHANGED temp
  /\ UNCHANGED <<node, kept>>

(* Close, unlink, give the mutex; nobody looks whether the unlink worked.  *)
GiveUp ==
  /\ \/ temp' = [temp EXCEPT ![call.temp] = None] /\ UNCHANGED kept
     \/ kept' = kept \cup {call.temp} /\ UNCHANGED temp
  /\ Return("failed", None)

Remaining == Size[call.content] - temp[call.temp]

(* Mutant: a short write is taken for a whole one.                         *)
WriteOnce ==
  /\ At("write")
  /\ \/ \E n \in 1..Remaining : temp' = [temp EXCEPT ![call.temp] = @ + n]
     \/ Remaining = 0 /\ UNCHANGED temp
  /\ Goes("sync")
  /\ UNCHANGED <<node, kept>>

Write ==
  /\ At("write")
  /\ \/ \E n \in 1..Remaining : temp' = [temp EXCEPT ![call.temp] = @ + n]
                                /\ UNCHANGED <<call, lock, told, kept>>
     \/ Remaining = 0 /\ Goes("sync") /\ UNCHANGED <<temp, kept>>
     \/ Remaining > 0 /\ GiveUp
  /\ UNCHANGED node

Sync ==
  /\ At("sync")
  /\ (Goes("rename") /\ UNCHANGED <<temp, kept>>) \/ GiveUp
  /\ UNCHANGED node

Whole == IF Remaining = 0 THEN call.content ELSE Torn

(* Mutant: a rename that failed is not noticed.                            *)
RenameUnchecked ==
  /\ At("rename")
  /\ \/ node' = [node EXCEPT ![call.node] = Whole]
     \/ UNCHANGED node
  /\ temp' = [temp EXCEPT ![call.temp] = None]
  /\ Return("ok", call.content)
  /\ UNCHANGED kept

Rename ==
  /\ At("rename")
  /\ \/ /\ \A m \in Above[call.node] : node[m] = Dir
        /\ node' = [node EXCEPT ![call.node] = Whole]
        /\ temp' = [temp EXCEPT ![call.temp] = None]
        /\ Return("ok", call.content)
        /\ UNCHANGED kept
     \/ GiveUp /\ UNCHANGED node

-----------------------------------------------------------------------------
StateInit ==
  /\ node = [n \in Nodes |-> None] /\ temp = [t \in Temps |-> None]
  /\ kept = {} /\ session = "off" /\ lock = FALSE
  /\ call = NoCall /\ told = NoAnswer

HostCall ==
  TakeLock \/ Read \/ Check \/ MakeDirectories \/ Create \/ Write \/ Sync \/ Rename

StateNext ==
  \/ HostCall \/ CallRead \/ CallWrite
  \/ Reconcile \/ Open \/ Close \/ PowerLoss

StateSpec == StateInit /\ [][StateNext]_stateVars

-----------------------------------------------------------------------------
(* Between two calls of a session there is no temporary but the ones the   *)
(* file system refused to unlink, whatever was interrupted before          *)
(* (scrub_state_temporaries, host_caps.c:652).                             *)
LeftoversAccounted == session = "open" /\ call = NoCall => Leftovers \subseteq kept

(* What a call answers is so: after "ok" the file holds what was written,  *)
(* or what was read; after anything else it is what it was at the call.    *)
AnswersTrue ==
  told.status # "none" =>
    node[told.node] = IF told.status = "ok" THEN told.content ELSE told.old

(* Seen from the package its files are written at once or not at all.      *)
Store == INSTANCE StateStore WITH
  store <- [n \in Nodes |-> IF node[n] = Dir THEN None ELSE node[n]]

WritesAtomic == Store!Spec
=============================================================================
