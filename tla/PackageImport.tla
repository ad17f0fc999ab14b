--------------------------- MODULE PackageImport ---------------------------
(***************************************************************************)
(* The durable desktop importer: one accepted capture package, from the    *)
(* private snapshot of the package to its terminal history record, with    *)
(* the recovery pass that finishes whatever an interrupted import left.    *)
(*                                                                         *)
(* Translated from capture_import/schema2_runtime.py (transaction,         *)
(* coordinator and recovery), collection_persistence.py (publication of    *)
(* the collection file), cleanup_persistence.py (the deletion executor),   *)
(* snapshot.py, image_store.py, durable_repository.py (the journal),       *)
(* terminal_persistence.py (compaction and retirement) and lock.py.        *)
(*                                                                         *)
(* A step is one durable effect: a generation of the journal, or one       *)
(* object created, renamed or deleted.  Between any two steps the process  *)
(* may die (Crash) or an operation may raise (Abort).                      *)
(*                                                                         *)
(* Simplifications:                                                        *)
(*  - one import: a second one starts only after recovery returned         *)
(*    cleanly, and then works on other names;                              *)
(*  - writing a generation is one step: the .next candidate of an          *)
(*    interrupted append is either complete, and published by the next     *)
(*    load, or deleted by it (durable_repository.py:285-325);              *)
(*  - an item directory is created and deleted with its images;            *)
(*  - a file cut short counts as missing where recovery refuses it (the    *)
(*    owner markers, generation zero) and as present where it is deleted   *)
(*    like a whole one (an image, the package copy of an orphan);          *)
(*  - identities, digests and lengths are compared through the one word    *)
(*    that says whose bytes an object holds.                               *)
(***************************************************************************)
EXTENDS Naturals, FiniteSets

CONSTANTS
    Images,         \* the managed images of the selected coins
    Windows,        \* TRUE: hard link + ReplaceFileW; FALSE: atomic exchange
    HasBaseline,    \* FALSE: there was no collection file at preview
    MaxFailures,    \* bound: crashes and raised errors in a behaviour
    MaxSaves        \* bound: ordinary collection saves by the application

\* The members of a package snapshot directory, and of a managed image tree.
Snapshot == {"package", "lease", "owner", "snapDir"}
Tree == Images \cup {"marker", "imageRoot"}
Owned == Snapshot \cup Tree \cup {"temp", "backup"}

ASSUME ImagesAssumption ==
    /\ Images # {} /\ IsFiniteSet(Images)
    /\ Images \cap (Snapshot \cup {"marker", "imageRoot", "temp", "backup"}) = {}
ASSUME PlatformAssumption == Windows \in BOOLEAN /\ HasBaseline \in BOOLEAN
ASSUME BoundsAssumption == MaxFailures \in Nat /\ MaxSaves \in Nat

VARIABLES
    dest,       \* D: the collection file
    temp,       \* bytes under T's planned name ("none": no such file)
    files,      \* the other objects the import owns, as found on disk
    jr,         \* the newest journal generation
    store,      \* the journal directory that holds the generations
    history,    \* the terminal history record
    pc,         \* where each process stands
    lock,       \* the global import lock file
    lease,      \* who holds the advisory lock on the snapshot's lease
    alive,      \* does the process that made the snapshot still run?
    failures, saves

vars == <<dest, temp, files, jr, store, history, pc, lock, lease, alive,
          failures, saves>>
bounds == <<alive, failures, saves>>

-----------------------------------------------------------------------------
(* The data.                                                               *)

Procs == {"importer", "recovery"}

\* "+": the bytes on the left, then edited and saved by the application.
Collections == {"baseline", "baseline+", "prospective", "prospective+"}
Holding == {"prospective", "prospective+"}     \* these hold the new coins

TempBytes == {"none", "partial", "prospective", "baseline"}

Phases == {"NONE", "PREPARED", "COPYING_IMAGES", "FILES_READY",
           "COMMITTING_COLLECTION", "COLLECTION_COMMITTED", "ROLLING_BACK",
           "COMPACTING"}
Undecided == {"PREPARED", "COPYING_IMAGES", "FILES_READY",
              "COMMITTING_COLLECTION"}
TempStates == {"NONE", "PLANNED", "CREATED", "VERIFIED", "EXCHANGED", "PUBLISHED"}
BackupStates == {"NONE", "PLANNED", "CREATED", "VERIFIED", "EXCHANGED",
                 "RETAINED", "CLEANED"}
Results == {"none", "SUCCEEDED", "ROLLED_BACK"}

\* The fields of a generation that decide anything; op, targets, receipts and
\* status are those of its last cleanup operation.
Generations ==
    [phase: Phases, verified: SUBSET Images, temp: TempStates,
     backup: BackupStates, snapRef: BOOLEAN, audit: Results,
     op: {"NONE", "BASELINE_BACKUP", "SUCCESS_SNAPSHOT", "ROLLBACK_ALL"},
     targets: SUBSET Owned, receipts: SUBSET Owned,
     status: {"NONE", "INTENT", "COMPLETE"},
     compaction: {"NONE", "PLANNING", "READY"}]

\* dir: active name, .retire- name, or gone; chain: generation files in it.
Stores ==
    [dir: {"none", "active", "retire"}, chain: Nat, owner: BOOLEAN,
     manifest: {"none", "partial", "complete", "final"}]

\* partial/complete: the record under its temporary name; pending: the
\* authority for retirement; final: history.
Histories ==
    [state: {"none", "partial", "complete", "pending", "final"},
     result: Results]

Stages == {"start", "preparing", "preview", "cancel", "genesis", "execute",
           "ended",                                        \* the importer
           "idle", "pending", "scan", "orphan", "dispatch", "rollback",
           "resume", "recompact", "retire",                \* recovery
           "success", "compact"}                           \* both

-----------------------------------------------------------------------------
(* What the code computes before it acts.                                  *)

Present(o) == IF o = "temp" THEN temp # "none" ELSE o \in files

\* Deletion order: collection files, images before their root, the snapshot's
\* members before its directory.  Snapshots are made in the reverse order.
Rank(o) ==
    CASE o = "temp" -> 0 [] o = "backup" -> 1 [] o \in Images -> 2
      [] o = "marker" -> 3 [] o = "imageRoot" -> 4 [] o = "package" -> 5
      [] o = "lease" -> 6 [] o = "owner" -> 7 [] OTHER -> 8

Children(o) ==
    CASE o = "imageRoot" -> Tree \ {"imageRoot"}
      [] o = "snapDir" -> Snapshot \ {"snapDir"}
      [] OTHER -> {}

\* The executor opens the parent directory before it looks for the target.
ParentPresent(o) ==
    /\ o \in Tree \ {"imageRoot"} => "imageRoot" \in files
    /\ o \in Snapshot \ {"snapDir"} => "snapDir" \in files

\* Targets are removed in order and receipted one by one.
Owing == jr.targets \ jr.receipts
NextTarget(o) ==
    /\ o \in Owing
    /\ \A q \in Owing : Rank(o) <= Rank(q)
    /\ \A q \in Owing : Rank(q) = Rank(o) /\ ~Present(q) => q = o

\* The file at T's name must hold the bytes the target commits to.
Exact(o) ==
    o = "temp" => temp = IF jr.op = "ROLLBACK_ALL" THEN "prospective"
                                                   ELSE "baseline"

BackupName == IF Windows THEN "backup" ELSE "temp"
SnapshotWhole == Snapshot \subseteq files
TreeWhole == Tree \subseteq files

\* list_heads returned this import, and its head names the snapshot.
Listed == store.dir = "active" /\ store.chain > 0
OrphanedUnreferenced == "snapDir" \in files       \* mutant: journals ignored
Orphaned == "snapDir" \in files /\ ~(Listed /\ jr.snapRef)
Reopenable == jr.snapRef /\ SnapshotWhole /\ lease = "free"

\* Every append is made under the lock and adds one generation file.
Append(p, g) ==
    /\ lock = p /\ store.dir = "active"
    /\ jr' = g
    /\ store' = [store EXCEPT !.chain = @ + 1]

Freed(holder, p) == IF holder = p THEN "free" ELSE holder
At(p, stage) == pc[p] = stage
Goto(p, stage) == pc' = [pc EXCEPT ![p] = stage]
Rest(p) == IF p = "importer" THEN "ended" ELSE "idle"

\* Leave the lease scope and hand the snapshot back (normally or by raising).
LeaveLocked(p) ==
    /\ Goto(p, Rest(p))
    /\ lock' = Freed(lock, p)
    /\ lease' = Freed(lease, p)

Blank == [phase |-> "NONE", verified |-> {}, temp |-> "NONE",
          backup |-> "NONE", snapRef |-> FALSE, audit |-> "none",
          op |-> "NONE", targets |-> {}, receipts |-> {}, status |-> "NONE",
          compaction |-> "NONE"]

Init ==
    /\ dest = "baseline" /\ temp = "none" /\ files = {}
    /\ jr = Blank
    /\ store = [dir |-> "none", chain |-> 0, owner |-> FALSE, manifest |-> "none"]
    /\ history = [state |-> "none", result |-> "none"]
    /\ pc = [importer |-> "start", recovery |-> "idle"]
    /\ lock = "free" /\ lease = "free" /\ alive = TRUE
    /\ failures = 0 /\ saves = 0

-----------------------------------------------------------------------------
(* Preparing: a private snapshot of the package, then the preview.  No     *)
(* lock is held, so recovery and ordinary saves may run meanwhile.         *)

CreateSnapshot ==
    /\ pc["importer"] \in {"start", "preparing"}
    /\ \E o \in Snapshot \ files :
        /\ \A q \in Snapshot \ files : Rank(q) <= Rank(o)
        /\ files' = files \cup {o}
        /\ lease' = IF o = "lease" THEN "importer" ELSE lease
        /\ Goto("importer", IF o = "package" THEN "preview" ELSE "preparing")
    /\ UNCHANGED <<dest, temp, jr, store, history, lock>> /\ UNCHANGED bounds

\* The preview is closed, or the package does not validate.
Cancel ==
    /\ At("importer", "preview")
    /\ Goto("importer", "cancel")
    /\ UNCHANGED <<dest, temp, files, jr, store, history, lock, lease>>
    /\ UNCHANGED bounds

\* Commit takes the lock for a new import, or for nothing when every coin is
\* skipped: then execute only cleans the snapshot up.
Commit ==
    /\ At("importer", "preview") /\ lock = "free" /\ store.dir = "none"
    /\ lock' = "importer"
    /\ \/ Goto("importer", "genesis")
       \/ Goto("importer", "cancel")
    /\ UNCHANGED <<dest, temp, files, jr, store, history, lease>>
    /\ UNCHANGED bounds

\* cleanup_snapshot: package, lease, owner, directory, with no journal entry.
\* It serves both a cancelled preview and an orphan found at startup.
RemoveUnjournaled(p) ==
    /\ pc[p] \in {"cancel", "orphan"}
    /\ \E o \in Snapshot \cap files :
        /\ \A q \in Snapshot \cap files : Rank(o) <= Rank(q)
        /\ files' = files \ {o}
        /\ lease' = IF o = "lease" THEN Freed(lease, p) ELSE lease
        /\ IF o # "snapDir" THEN UNCHANGED <<pc, lock>>
           ELSE IF p = "importer" THEN Goto(p, "ended") /\ lock' = Freed(lock, p)
           ELSE Goto(p, "dispatch") /\ UNCHANGED lock
    /\ UNCHANGED <<dest, temp, jr, store, history>> /\ UNCHANGED bounds

-----------------------------------------------------------------------------
(* The transaction: Schema2PackageImportTransactionService.execute.        *)

\* The collection is no longer the one previewed: nothing durable was done.
CollectionChanged ==
    /\ At("importer", "genesis") /\ store.dir = "none" /\ dest # "baseline"
    /\ Goto("importer", "preview") /\ lock' = "free"
    /\ UNCHANGED <<dest, temp, files, jr, store, history, lease>>
    /\ UNCHANGED bounds

\* create(): the directory, owner.json, then generation zero.
CreateJournalDirectory ==
    /\ At("importer", "genesis") /\ store.dir = "none"
    /\ SnapshotWhole /\ dest = "baseline"
    /\ store' = [store EXCEPT !.dir = "active"]
    /\ UNCHANGED <<dest, temp, files, jr, history, pc, lock, lease>>
    /\ UNCHANGED bounds

WriteJournalOwner ==
    /\ At("importer", "genesis") /\ store.dir = "active" /\ ~store.owner
    /\ store' = [store EXCEPT !.owner = TRUE]
    /\ UNCHANGED <<dest, temp, files, jr, history, pc, lock, lease>>
    /\ UNCHANGED bounds

Genesis ==
    /\ At("importer", "genesis") /\ store.owner
    /\ jr' = [Blank EXCEPT !.phase = "PREPARED", !.snapRef = TRUE]
    /\ store' = [store EXCEPT !.chain = 1]
    /\ Goto("importer", "execute")
    /\ UNCHANGED <<dest, temp, files, history, lock, lease>> /\ UNCHANGED bounds

\* A step of execute that only adds a generation.
Durable(g) ==
    /\ At("importer", "execute") /\ Append("importer", g)
    /\ UNCHANGED <<dest, temp, files, history, pc, lock, lease>>
    /\ UNCHANGED bounds

\* A step of execute that only touches the managed images.
Writes(o) ==
    /\ At("importer", "execute") /\ jr.phase = "COPYING_IMAGES"
    /\ jr.verified = {} /\ o \notin files
    /\ files' = files \cup {o}
    /\ UNCHANGED <<dest, temp, jr, store, history, pc, lock, lease>>
    /\ UNCHANGED bounds

StartCopying == jr.phase = "PREPARED" /\ Durable([jr EXCEPT !.phase = "COPYING_IMAGES"])

\* copy(): exclusive creation of the root, the owner marker and each image.
MakeImageRoot == Writes("imageRoot")
WriteMarker == "imageRoot" \in files /\ Writes("marker")
WriteImage == "marker" \in files /\ \E i \in Images : Writes(i)

\* Mutant: the evidence comes from the plan, before the files are there.
RecordImageFromPlan ==
    /\ jr.phase = "COPYING_IMAGES"
    /\ \E i \in Images \ jr.verified :
          Durable([jr EXCEPT !.verified = @ \cup {i}])

\* One generation per image, only once copy() verified the whole tree.
RecordImage ==
    /\ jr.phase = "COPYING_IMAGES" /\ TreeWhole
    /\ \E i \in Images \ jr.verified :
          Durable([jr EXCEPT !.verified = @ \cup {i}])

FilesReady ==
    /\ jr.phase = "COPYING_IMAGES" /\ jr.verified = Images
    /\ Durable([jr EXCEPT !.phase = "FILES_READY"])

\* The publication intent: T planned, and B when there is a baseline to keep.
DeclareCommit ==
    /\ jr.phase = "FILES_READY"
    /\ Durable([jr EXCEPT !.phase = "COMMITTING_COLLECTION", !.temp = "PLANNED",
                          !.backup = IF HasBaseline THEN "PLANNED" ELSE "NONE"])

\* create_temporary: exclusive create, T CREATED, write and sync, T VERIFIED.
\* (phase is COMMITTING_COLLECTION throughout: see Committing.)
Committing == At("importer", "execute") /\ jr.phase = "COMMITTING_COLLECTION"

CreateTemporary ==
    /\ Committing /\ jr.temp = "PLANNED" /\ temp = "none"
    /\ temp' = "partial"
    /\ UNCHANGED <<dest, files, jr, store, history, pc, lock, lease>>
    /\ UNCHANGED bounds

RecordTemporary ==
    /\ Committing
    /\ \/ jr.temp = "PLANNED" /\ temp = "partial"
          /\ Durable([jr EXCEPT !.temp = "CREATED"])
       \/ jr.temp = "CREATED" /\ temp = "prospective"
          /\ Durable([jr EXCEPT !.temp = "VERIFIED"])

WriteTemporary ==
    /\ Committing /\ jr.temp = "CREATED" /\ temp = "partial"
    /\ temp' = "prospective"
    /\ UNCHANGED <<dest, files, jr, store, history, pc, lock, lease>>
    /\ UNCHANGED bounds

\* create_windows_backup: hard link, B CREATED, verify, B VERIFIED.
LinkBackup ==
    /\ Committing /\ Windows /\ jr.temp = "VERIFIED" /\ jr.backup = "PLANNED"
    /\ "backup" \notin files
    /\ files' = files \cup {"backup"}
    /\ UNCHANGED <<dest, temp, jr, store, history, pc, lock, lease>>
    /\ UNCHANGED bounds

RecordBackup ==
    /\ Committing /\ Windows /\ "backup" \in files
    /\ \/ jr.backup = "PLANNED" /\ Durable([jr EXCEPT !.backup = "CREATED"])
       \/ jr.backup = "CREATED" /\ Durable([jr EXCEPT !.backup = "VERIFIED"])

\* Mutant: a plain replacement of D that keeps no baseline.
PublishByReplace ==
    /\ Committing /\ dest = "baseline" /\ jr.temp = "VERIFIED"
    /\ dest' = "prospective" /\ temp' = "none"
    /\ UNCHANGED <<files, jr, store, history, pc, lock, lease>>
    /\ UNCHANGED bounds

\* publish(): D changes in one namespace operation.  POSIX exchanges D and T,
\* so the baseline bytes are then found under T's name.
Publish ==
    /\ Committing /\ dest = "baseline"
    /\ jr.temp = "VERIFIED" /\ temp = "prospective"
    /\ jr.backup = IF ~HasBaseline THEN "NONE"
                   ELSE IF Windows THEN "VERIFIED" ELSE "PLANNED"
    /\ dest' = "prospective"
    /\ temp' = IF HasBaseline /\ ~Windows THEN "baseline" ELSE "none"
    /\ UNCHANGED <<files, jr, store, history, pc, lock, lease>>
    /\ UNCHANGED bounds

RecordExchange ==
    /\ Committing /\ dest = "prospective"
    /\ ~Windows /\ jr.backup = "PLANNED" /\ temp = "baseline"
    /\ Durable([jr EXCEPT !.temp = "EXCHANGED", !.backup = "EXCHANGED"])

\* The generation that decides for success.  Only the names and identities it
\* proves differ between the transaction and recovery.
Committed ==
    [jr EXCEPT !.phase = "COLLECTION_COMMITTED", !.temp = "PUBLISHED",
               !.backup = IF HasBaseline THEN "RETAINED" ELSE "NONE",
               !.audit = "SUCCEEDED"]

RecordCommitted ==
    /\ Committing /\ dest = "prospective"
    /\ HasBaseline /\ ~Windows => jr.temp = "EXCHANGED"
    /\ Append("importer", Committed)
    /\ Goto("importer", "success")
    /\ UNCHANGED <<dest, temp, files, history, lock, lease>> /\ UNCHANGED bounds

Execute ==
    \/ StartCopying \/ MakeImageRoot \/ WriteMarker \/ WriteImage \/ RecordImage
    \/ FilesReady \/ DeclareCommit \/ CreateTemporary \/ RecordTemporary
    \/ WriteTemporary \/ LinkBackup \/ RecordBackup \/ Publish \/ RecordExchange
    \/ RecordCommitted

-----------------------------------------------------------------------------
(* Cleanup, in the transaction and in recovery alike: an INTENT naming the *)
(* targets, then for each one its removal and its receipt, then COMPLETE.  *)

Intend(p, kind, targets) ==
    Append(p, [jr EXCEPT !.op = kind, !.targets = targets, !.receipts = {},
                         !.status = "INTENT"])

BackupIntent(p) ==
    /\ At(p, "success") /\ jr.op = "NONE" /\ jr.backup = "RETAINED"
    /\ Intend(p, "BASELINE_BACKUP", {BackupName})
    /\ UNCHANGED <<dest, temp, files, history, pc, lock, lease>>
    /\ UNCHANGED bounds

\* The snapshot's lease is released as soon as the intent is durable.
SnapshotIntent(p) ==
    /\ pc[p] \in {"success", "resume"} /\ jr.phase = "COLLECTION_COMMITTED"
    /\ \/ jr.op = "NONE" /\ jr.backup # "RETAINED"
       \/ jr.op = "BASELINE_BACKUP" /\ jr.status = "COMPLETE"
    /\ Intend(p, "SUCCESS_SNAPSHOT", Snapshot)
    /\ Goto(p, "success") /\ lease' = Freed(lease, p)
    /\ UNCHANGED <<dest, temp, files, history, lock>> /\ UNCHANGED bounds

\* Mutant: the images go only when every one of them had been verified.
RollbackTargetsByInventory ==
    {"temp"} \cup Snapshot \cup (IF jr.verified = Images THEN Tree ELSE {})

\* T and B when the journal knows their identity, the image tree when it is
\* there, and the snapshot.
RollbackTargets ==
    (IF jr.temp # "PLANNED" /\ jr.temp # "NONE" THEN {"temp"} ELSE {})
        \cup (IF jr.backup # "PLANNED" /\ jr.backup # "NONE" THEN {"backup"} ELSE {})
        \cup (Tree \cap files) \cup Snapshot

RollbackIntent(p) ==
    /\ At(p, "rollback") /\ jr.op = "NONE"
    /\ "imageRoot" \in files => "marker" \in files
    /\ Intend(p, "ROLLBACK_ALL", RollbackTargets)
    /\ lease' = Freed(lease, p)
    /\ UNCHANGED <<dest, temp, files, history, pc, lock>> /\ UNCHANGED bounds

Cleaning(p) ==
    pc[p] \in {"success", "rollback", "resume"} /\ lock = p /\ jr.status = "INTENT"

RemoveTarget(p) ==
    /\ Cleaning(p)
    /\ \E o \in Owing :
        /\ NextTarget(o) /\ Present(o) /\ ParentPresent(o)
        /\ Exact(o) /\ Children(o) \cap files = {}
        /\ o = "lease" => lease = "free"
        /\ temp' = IF o = "temp" THEN "none" ELSE temp
        /\ files' = files \ {o}
    /\ UNCHANGED <<dest, jr, store, history, pc, lock, lease>>
    /\ UNCHANGED bounds

\* The head stops naming the snapshot with the first receipt for one of its
\* members; a resumed cleanup of it forgets the name with whatever receipt
\* comes first (clear_snapshot).
ReceiptTarget(p) ==
    /\ Cleaning(p)
    /\ \E o \in Owing :
        /\ NextTarget(o) /\ ~Present(o) /\ ParentPresent(o)
        /\ Append(p, [jr EXCEPT
             !.receipts = @ \cup {o},
             !.backup = IF jr.op = "BASELINE_BACKUP" THEN "CLEANED" ELSE @,
             !.snapRef = @ /\ o \notin Snapshot
                           /\ ~(At(p, "resume") /\ jr.op # "BASELINE_BACKUP")])
    /\ UNCHANGED <<dest, temp, files, history, pc, lock, lease>>
    /\ UNCHANGED bounds

CompleteCleanup(p) ==
    /\ Cleaning(p) /\ Owing = {}
    /\ Append(p, [jr EXCEPT !.status = "COMPLETE"])
    /\ UNCHANGED <<dest, temp, files, history, pc, lock, lease>>
    /\ UNCHANGED bounds

Cleanup(p) ==
    \/ BackupIntent(p) \/ SnapshotIntent(p) \/ RollbackIntent(p)
    \/ RemoveTarget(p) \/ ReceiptTarget(p) \/ CompleteCleanup(p)

-----------------------------------------------------------------------------
(* Terminal compaction and retirement: TerminalPersistenceService.         *)
(* "compact" runs it through in one call that knows the error category;    *)
(* "recompact" (resume_compaction) takes over from a COMPACTING head.      *)

Compacting(p) == pc[p] \in {"compact", "recompact"} /\ lock = p

\* Mutant: the compacting generation drops the audit with the artifacts.
StartCompactionWithoutAudit(p) ==
    /\ pc[p] \in {"success", "rollback", "resume"}
    /\ jr.status = "COMPLETE" /\ ~jr.snapRef
    /\ jr.op \in {"SUCCESS_SNAPSHOT", "ROLLBACK_ALL"}
    /\ Append(p, [jr EXCEPT !.phase = "COMPACTING", !.temp = "NONE",
                            !.backup = "NONE", !.audit = "none",
                            !.compaction = "PLANNING"])
    /\ Goto(p, "compact")
    /\ UNCHANGED <<dest, temp, files, history, lock, lease>> /\ UNCHANGED bounds

StartCompaction(p) ==
    /\ pc[p] \in {"success", "rollback", "resume"}
    /\ jr.status = "COMPLETE" /\ ~jr.snapRef
    /\ \/ jr.phase = "COLLECTION_COMMITTED" /\ jr.op = "SUCCESS_SNAPSHOT"
          /\ jr.backup \in {"NONE", "CLEANED"}
       \/ jr.phase = "ROLLING_BACK" /\ jr.op = "ROLLBACK_ALL"
    /\ Append(p, [jr EXCEPT !.phase = "COMPACTING", !.temp = "NONE",
                            !.backup = "NONE", !.compaction = "PLANNING"])
    /\ Goto(p, "compact")
    /\ UNCHANGED <<dest, temp, files, history, lock, lease>> /\ UNCHANGED bounds

WritingManifest(p) ==
    /\ Compacting(p) /\ jr.compaction = "PLANNING"
    /\ store.dir = "active" /\ store.manifest = "none"

\* A new manifest, or the complete candidate an interrupted write left.
PublishManifest(p) ==
    /\ \/ WritingManifest(p)
       \/ At(p, "recompact") /\ store.manifest = "complete"
    /\ store' = [store EXCEPT !.manifest = "final"]
    /\ UNCHANGED <<dest, temp, files, jr, history, pc, lock, lease>>
    /\ UNCHANGED bounds

\* The commit generation: it seals the manifest and the outcome payload.
SealOutcome(p) ==
    /\ Compacting(p) /\ jr.compaction = "PLANNING" /\ store.manifest = "final"
    /\ Append(p, [jr EXCEPT !.compaction = "READY"])
    /\ UNCHANGED <<dest, temp, files, history, pc, lock, lease>>
    /\ UNCHANGED bounds

\* resume_compaction rebuilds the outcome from the head's error_category, which
\* is always null; a rolled-back audit carries ROLLED_BACK, and the record that
\* would disagree with its audit does not validate.
Provable(p) == At(p, "compact") \/ jr.audit = "SUCCEEDED"

WritingPending(p) ==
    /\ Compacting(p) /\ jr.compaction = "READY" /\ store.dir = "active"
    /\ history.state = "none" /\ Provable(p)

PublishPending(p) ==
    /\ \/ WritingPending(p)
       \/ At(p, "recompact") /\ history.state = "complete"
    /\ history' = [state |-> "pending", result |-> jr.audit]
    /\ UNCHANGED <<dest, temp, files, jr, store, pc, lock, lease>>
    /\ UNCHANGED bounds

DeletePartialRecord(p) ==
    /\ At(p, "recompact") /\ jr.compaction = "READY" /\ history.state = "partial"
    /\ history' = [history EXCEPT !.state = "none"]
    /\ UNCHANGED <<dest, temp, files, jr, store, pc, lock, lease>>
    /\ UNCHANGED bounds

\* _retire: rename, then H, the generations backwards, owner.json and last the
\* manifest that lists them; then the directory; then the final name.
RetiringEarly(p) ==          \* mutant: without waiting for the pending record
    pc[p] \in {"compact", "recompact", "retire"} /\ lock = p
        /\ jr.compaction = "READY"
Retiring(p) ==
    pc[p] \in {"compact", "recompact", "retire"} /\ lock = p
        /\ history.state = "pending"

Retire(p, s) ==
    /\ Retiring(p) /\ store' = s
    /\ UNCHANGED <<dest, temp, files, jr, history, pc, lock, lease>>
    /\ UNCHANGED bounds

RenameForRetirement(p) ==
    store.dir = "active" /\ Retire(p, [store EXCEPT !.dir = "retire"])

DeleteRetired(p) ==
    /\ store.dir = "retire"
    /\ \/ store.chain > 0 /\ Retire(p, [store EXCEPT !.chain = @ - 1])
       \/ store.chain = 0 /\ store.owner /\ Retire(p, [store EXCEPT !.owner = FALSE])
       \/ store.chain = 0 /\ ~store.owner /\ store.manifest = "final"
          /\ Retire(p, [store EXCEPT !.manifest = "none"])

RemoveRetirement(p) ==
    /\ store.dir = "retire" /\ store.manifest = "none"
    /\ Retire(p, [store EXCEPT !.dir = "none"])

Finalize(p) ==
    /\ Retiring(p) /\ store.dir = "none"
    /\ history' = [history EXCEPT !.state = "final"]
    /\ IF At(p, "retire") THEN Goto(p, "scan") /\ UNCHANGED <<lock, lease>>
                          ELSE LeaveLocked(p)
    /\ UNCHANGED <<dest, temp, files, jr, store>> /\ UNCHANGED bounds

Compaction(p) ==
    \/ StartCompaction(p) \/ PublishManifest(p) \/ SealOutcome(p)
    \/ PublishPending(p) \/ DeletePartialRecord(p) \/ RenameForRetirement(p)
    \/ DeleteRetired(p) \/ RemoveRetirement(p) \/ Finalize(p)

-----------------------------------------------------------------------------
(* Recovery: reconcile_pending_imports, run each time the import dialog    *)
(* opens, by any instance of the application.                              *)

R == "recovery"

StartRecoveryUnlocked ==          \* mutant: the lock is taken from its holder
    /\ At(R, "idle")
    /\ lock' = R /\ Goto(R, "pending")
    /\ UNCHANGED <<dest, temp, files, jr, store, history, lease>>
    /\ UNCHANGED bounds

StartRecovery ==
    /\ At(R, "idle") /\ lock = "free"
    /\ lock' = R /\ Goto(R, "pending")
    /\ UNCHANGED <<dest, temp, files, jr, store, history, lease>>
    /\ UNCHANGED bounds

Moves(from, to) ==
    /\ At(R, from) /\ lock = R /\ Goto(R, to)
    /\ UNCHANGED <<dest, temp, files, jr, store, history, lock, lease>>
    /\ UNCHANGED bounds

\* Mutant: resume_pending looks under the active name only.
PendingBlockedRetiring == store.dir # "active" \/ store.manifest # "final"

\* resume_pending needs the operational directory and its manifest.
PendingBlocked == store.dir = "none" \/ store.manifest # "final"
ResumePending ==
    \/ history.state = "pending" /\ ~PendingBlocked /\ Moves("pending", "retire")
    \/ history.state # "pending" /\ Moves("pending", "scan")

\* list_heads refuses a retirement directory and a chain without a genesis.
ListBlocked == store.dir = "retire" \/ (store.dir = "active" /\ store.chain = 0)

\* An orphan must be whole, not leased, and its maker must be dead.
OrphanBlocked == Orphaned /\ (~SnapshotWhole \/ (lease = "free" /\ alive))
Scan ==
    /\ ~ListBlocked
    /\ Orphaned => SnapshotWhole /\ lease # "free"
    /\ Moves("scan", "dispatch")
CollectOrphan ==
    /\ At(R, "scan") /\ lock = R /\ ~ListBlocked
    /\ Orphaned /\ SnapshotWhole /\ lease = "free" /\ ~alive
    /\ Goto(R, "orphan") /\ lease' = R
    /\ UNCHANGED <<dest, temp, files, jr, store, history, lock>>
    /\ UNCHANGED bounds

NothingToRecover ==
    /\ At(R, "dispatch") /\ ~Listed
    /\ LeaveLocked(R)
    /\ UNCHANGED <<dest, temp, files, jr, store, history>> /\ UNCHANGED bounds

AtHead(phases) == At(R, "dispatch") /\ Listed /\ jr.phase \in phases

ResumeCompaction ==
    AtHead({"COMPACTING"}) /\ Moves("dispatch", "recompact")

\* A partial manifest is deleted, and the attempt then fails for want of one.
DeletePartialManifest ==
    /\ At(R, "recompact") /\ store.manifest = "partial"
    /\ store' = [store EXCEPT !.manifest = "none"]
    /\ LeaveLocked(R)
    /\ UNCHANGED <<dest, temp, files, jr, history>> /\ UNCHANGED bounds

\* The temporary record is created before the record is built and refused.
OutcomeRefused ==
    /\ At(R, "recompact") /\ jr.compaction = "READY"
    /\ history.state = "none" /\ ~Provable(R)
    /\ history' = [history EXCEPT !.state = "partial"]
    /\ LeaveLocked(R)
    /\ UNCHANGED <<dest, temp, files, jr, store>> /\ UNCHANGED bounds

\* COMMITTING_COLLECTION with the prospective collection in place: prove the
\* images, T's identity and the retained baseline, and go on to success.
BackupFound ==
    HasBaseline => IF Windows THEN "backup" \in files ELSE temp = "baseline"
RecoverCommitted ==
    /\ AtHead({"COMMITTING_COLLECTION"}) /\ dest = "prospective"
    /\ Reopenable /\ TreeWhole /\ BackupFound
    /\ jr.temp \notin {"NONE", "PLANNED"}
    /\ Append(R, Committed)
    /\ UNCHANGED <<dest, temp, files, history, pc, lock, lease>>
    /\ UNCHANGED bounds

\* _finish_success: reopen the snapshot while cleanup has not touched it, then
\* start or resume the cleanup of the backup and of the snapshot.
BackupPending == jr.op = "BASELINE_BACKUP" /\ jr.status = "INTENT"
SnapshotPending == jr.op \in {"NONE", "BASELINE_BACKUP"}
FinishSuccess ==
    /\ AtHead({"COLLECTION_COMMITTED"}) /\ lock = R
    /\ SnapshotPending => Reopenable
    /\ BackupPending => jr.backup = "RETAINED"
    /\ Goto(R, IF jr.status = "INTENT" THEN "resume" ELSE "success")
    /\ lease' = IF SnapshotPending THEN R ELSE lease
    /\ UNCHANGED <<dest, temp, files, jr, store, history, lock>>
    /\ UNCHANGED bounds

\* Mutants: no look at the collection; the audit of the other outcome.
StartRollbackUnchecked ==
    /\ AtHead(Undecided) /\ Reopenable
    /\ Append(R, [jr EXCEPT !.phase = "ROLLING_BACK", !.audit = "ROLLED_BACK"])
    /\ Goto(R, "rollback") /\ lease' = R
    /\ UNCHANGED <<dest, temp, files, history, lock>> /\ UNCHANGED bounds

StartRollbackMisreported ==
    /\ AtHead(Undecided) /\ dest = "baseline" /\ Reopenable
    /\ Append(R, [jr EXCEPT !.phase = "ROLLING_BACK", !.audit = "SUCCEEDED"])
    /\ Goto(R, "rollback") /\ lease' = R
    /\ UNCHANGED <<dest, temp, files, history, lock>> /\ UNCHANGED bounds

StartRollbackAgain ==          \* mutant: an earlier attempt is not looked for
    /\ AtHead(Undecided \cup {"ROLLING_BACK"}) /\ dest = "baseline" /\ Reopenable
    /\ Append(R, [jr EXCEPT !.phase = "ROLLING_BACK", !.audit = "ROLLED_BACK"])
    /\ Goto(R, "rollback") /\ lease' = R
    /\ UNCHANGED <<dest, temp, files, history, lock>> /\ UNCHANGED bounds

\* _finish_rollback: only over the baseline.  A first attempt records the
\* decision; a later one needs the ROLLBACK_ALL operation of the earlier.
StartRollback ==
    /\ AtHead(Undecided) /\ dest = "baseline" /\ Reopenable
    /\ Append(R, [jr EXCEPT !.phase = "ROLLING_BACK", !.audit = "ROLLED_BACK"])
    /\ Goto(R, "rollback") /\ lease' = R
    /\ UNCHANGED <<dest, temp, files, history, lock>> /\ UNCHANGED bounds

ResumeRollback ==
    /\ AtHead({"ROLLING_BACK"}) /\ dest = "baseline" /\ jr.op = "ROLLBACK_ALL"
    /\ Moves("dispatch", IF jr.status = "INTENT" THEN "resume" ELSE "rollback")

\* Every check of recovery that raises: the attempt ends with nothing changed.
DispatchBlocked ==
    \/ jr.phase \in Undecided /\ dest # "baseline"
       /\ ~(jr.phase = "COMMITTING_COLLECTION" /\ dest = "prospective")
    \/ jr.phase = "ROLLING_BACK" /\ (dest # "baseline" \/ jr.op = "NONE")
    \/ jr.phase \in Undecided /\ ~Reopenable
    \/ jr.phase = "COMMITTING_COLLECTION" /\ dest = "prospective"
       /\ ~(TreeWhole /\ BackupFound /\ jr.temp \notin {"NONE", "PLANNED"})
    \/ jr.phase = "COLLECTION_COMMITTED" /\ SnapshotPending /\ ~Reopenable
    \/ jr.phase = "COLLECTION_COMMITTED" /\ BackupPending /\ jr.backup # "RETAINED"

CleanupBlocked ==
    \/ At(R, "rollback") /\ jr.op = "NONE"
       /\ "imageRoot" \in files /\ "marker" \notin files
    \/ Cleaning(R) /\ \E o \in Owing :
          /\ NextTarget(o)
          /\ \/ ~ParentPresent(o)
             \/ Present(o) /\ (~Exact(o) \/ Children(o) \cap files # {})

Blocked ==
    \/ At(R, "pending") /\ history.state = "pending" /\ PendingBlocked
    \/ At(R, "scan") /\ (ListBlocked \/ OrphanBlocked)
    \/ At(R, "dispatch") /\ Listed /\ DispatchBlocked
    \/ CleanupBlocked

FailClosed ==
    /\ lock = R /\ Blocked /\ LeaveLocked(R)
    /\ UNCHANGED <<dest, temp, files, jr, store, history>> /\ UNCHANGED bounds

Recover ==
    \/ ResumePending \/ Scan \/ CollectOrphan \/ NothingToRecover
    \/ ResumeCompaction \/ DeletePartialManifest \/ OutcomeRefused
    \/ RecoverCommitted \/ FinishSuccess \/ StartRollback \/ ResumeRollback
    \/ FailClosed

-----------------------------------------------------------------------------
(* The environment: failures, the operator, and the application's saves.   *)

\* What a write cut short leaves behind: a part of the file, or all of it
\* still under its temporary name.
Torn(p) ==
    \/ UNCHANGED <<store, history>>
    \/ /\ WritingManifest(p)
       /\ \E m \in {"partial", "complete"} : store' = [store EXCEPT !.manifest = m]
       /\ UNCHANGED history
    \/ /\ WritingPending(p)
       /\ \E s \in {"partial", "complete"} :
            history' = [state |-> s, result |-> jr.audit]
       /\ UNCHANGED store

Fails == failures < MaxFailures /\ failures' = failures + 1 /\ UNCHANGED saves

\* An operation raises.  Before the journal exists the preview stays open (and
\* a snapshot being made is removed); after it, the import is left to recovery.
\* A cleanup_snapshot that raised keeps the lease it may still hold.
Abort(p) ==
    /\ Fails /\ ~At(p, Rest(p)) /\ pc[p] \notin {"start", "preview"}
    /\ IF pc[p] \in {"genesis", "cancel"}
       THEN /\ Goto(p, IF At(p, "genesis") THEN "preview" ELSE "ended")
            /\ lock' = Freed(lock, p) /\ UNCHANGED lease
       ELSE LeaveLocked(p)
    /\ files' = IF At(p, "preparing") THEN files \ Snapshot ELSE files
    /\ Torn(p)
    /\ UNCHANGED <<dest, temp, jr, alive>>

\* A process dies.  The operating system frees its lease; its lock file stays.
Crash(p) ==
    /\ Fails /\ ~At(p, Rest(p)) /\ pc[p] # "start"
    /\ Goto(p, Rest(p))
    /\ lock' = IF lock = p THEN "stale" ELSE lock
    /\ lease' = Freed(lease, p)
    /\ alive' = IF p = "importer" THEN FALSE ELSE alive
    /\ Torn(p)
    /\ UNCHANGED <<dest, temp, files, jr>>

\* The application whose import ended is closed.
Exit ==
    /\ At("importer", "ended") /\ alive
    /\ alive' = FALSE /\ lease' = Freed(lease, "importer")
    /\ UNCHANGED <<dest, temp, files, jr, store, history, pc, lock, failures, saves>>

\* The importer never clears a lock it finds: the operator does.
ClearStaleLock ==
    /\ lock = "stale" /\ lock' = "free"
    /\ UNCHANGED <<dest, temp, files, jr, store, history, pc, lease>>
    /\ UNCHANGED bounds

\* CoinCollection.save_collection, of a collection loaded as it is now: it
\* takes the same lock.
Save ==
    /\ saves < MaxSaves /\ saves' = saves + 1 /\ lock = "free"
    /\ pc["importer"] \notin {"start", "preparing"}
    /\ dest' = IF dest \in Holding THEN "prospective+" ELSE "baseline+"
    /\ UNCHANGED <<temp, files, jr, store, history, pc, lock, lease, alive, failures>>

-----------------------------------------------------------------------------
Prepare == CreateSnapshot \/ Cancel \/ Commit

Importer ==
    \/ RemoveUnjournaled("importer") \/ CollectionChanged
    \/ CreateJournalDirectory \/ WriteJournalOwner \/ Genesis \/ Execute
    \/ Cleanup("importer") \/ Compaction("importer")

Recovering ==
    Recover \/ RemoveUnjournaled(R) \/ Cleanup(R) \/ Compaction(R)

Environment ==
    \/ \E p \in Procs : Abort(p) \/ Crash(p)
    \/ Exit \/ Save

Next ==
    Prepare \/ Importer \/ StartRecovery \/ Recovering \/ ClearStaleLock
        \/ Environment

Spec == Init /\ [][Next]_vars

\* The importer runs once its lock is taken; the dialog is opened again while
\* work may be left, and recovery then runs; the operator clears a dead lock.
\* No fairness for the user's choices, failures, saves, or closing the window.
Fairness ==
    /\ WF_vars(Importer) /\ WF_vars(Recovering)
    /\ WF_vars(StartRecovery) /\ WF_vars(ClearStaleLock)

LiveSpec == Spec /\ Fairness

-----------------------------------------------------------------------------
(* Correctness.                                                            *)

TypeOK ==
    /\ dest \in Collections /\ temp \in TempBytes
    /\ files \subseteq Owned
    /\ jr \in Generations /\ store \in Stores /\ history \in Histories
    /\ pc \in [Procs -> Stages]
    /\ lock \in Procs \cup {"free", "stale"}
    /\ lease \in Procs \cup {"free"}
    /\ alive \in BOOLEAN /\ failures \in Nat /\ saves \in Nat

Recorded == history.state \in {"pending", "final"}

\* All or nothing, and history tells which: a record is kept of SUCCEEDED when
\* and only when the collection holds the new coins (invariant 6 of
\* DESKTOP_PACKAGE_IMPORT_RECOVERY_INVARIANTS.md; terminal_persistence.compact
\* never looks at the collection again).
HistoryIsTrue ==
    Recorded => /\ history.result # "none"
                /\ (history.result = "SUCCEEDED") <=> (dest \in Holding)

\* The new coins name their managed images, so from publication on no crash,
\* rollback or cleanup may cost one of them (schema2_runtime._finish_rollback
\* deletes the tree; only the baseline check stands in its way).
ImagesOutliveTheCoins == dest \in Holding => TreeWhole

\* Until the journal has recorded the commit, the collection the user had is
\* still on disk, in D or in the retained backup (collection_persistence).
BaselineKept ==
    /\ jr.phase = "COMMITTING_COLLECTION" /\ dest \in Holding => BackupFound
    /\ jr.phase = "COLLECTION_COMMITTED" /\ jr.op = "NONE" => BackupFound

\* Every file recovery would need to reopen the package is there until a
\* cleanup operation for it is durable (invariant 16 of the durable
\* persistence design: a referenced snapshot is no orphan).
EvidenceKept ==
    Listed /\ jr.snapRef /\ jr.op \in {"NONE", "BASELINE_BACKUP"} => SnapshotWhole

\* Cleanup precedes history (invariant 4): a record exists only when the
\* snapshot is gone, together with T and B of a success and the images of a
\* rollback.  Of a rollback's T at most an empty file is left, one that was
\* created but not yet recorded, never a copy of anyone's collection.
CleanupPrecedesHistory ==
    Recorded =>
        /\ Snapshot \cap files = {}
        /\ IF history.result = "SUCCEEDED"
           THEN temp = "none" /\ "backup" \notin files
           ELSE Tree \cap files = {} /\ temp \in {"none", "partial"}

\* The import is always in one safe place: a whole chain of generations under
\* its active name, or a record.  Retirement never runs ahead of the record,
\* and history is final only when nothing operational is left.
OneAuthority ==
    /\ jr.phase # "NONE" => (Listed /\ store.owner) \/ Recorded
    /\ store.dir = "retire" => history.state = "pending"
    /\ history.state = "final" => store.dir = "none"
    /\ store.dir = "active" /\ Recorded =>
            store.owner /\ store.manifest = "final" /\ jr.compaction = "READY"

\* One actor at a time between lock and release (invariant 9), whatever the
\* order of crashes, cleared locks and reopened dialogs; a live preview keeps
\* the lease of its snapshot, so that no orphan scan takes it.
Serialized ==
    /\ pc["importer"] \in {"genesis", "execute", "success", "compact"} => lock = "importer"
    /\ pc["recovery"] # "idle" <=> lock = "recovery"
    /\ pc["importer"] \in {"preview", "genesis", "execute"} =>
            SnapshotWhole /\ lease = "importer"

\* Nothing is deleted without authority (invariant 8): an owned object goes
\* only under a durable INTENT that names it, as an unreferenced snapshot, or
\* by becoming the collection file itself.
DeletesUnderAuthority ==
    [][\A o \in Owned : Present(o) /\ ~Present(o)' =>
          \/ Listed /\ jr.status = "INTENT" /\ o \in jr.targets
          \/ o \in Snapshot /\ ~(Listed /\ jr.snapRef)
          \/ o = "temp" /\ dest' # dest]_vars

\* A decision in the journal is final: no later generation, recovery or record
\* revises it, and after it the coins neither enter nor leave the collection.
DecisionIsFinal ==
    [][jr.audit # "none" =>
          /\ jr'.audit = jr.audit
          /\ dest \in Holding <=> dest' \in Holding]_vars

\* The promise of AtomicImport.
Outcome ==
    IF jr.phase = "NONE" THEN "none"
    ELSE IF dest \in Holding THEN "imported"
    ELSE IF jr.audit = "ROLLED_BACK" THEN "abandoned" ELSE "undecided"

Promise == INSTANCE AtomicImport WITH
    outcome <- Outcome, record <- IF Recorded THEN history.result ELSE "none"

ImplementsPromise == Promise!Spec

\* The durable states no later recovery pass gets out of.  Some are meant to
\* stop it (another program's bytes, a snapshot or journal that cannot be
\* proved); the others are the interrupted steps the README lists.
ForeignCollection ==
    \/ jr.phase \in Undecided \cup {"ROLLING_BACK"} /\ dest = "baseline+"
    \/ jr.phase = "COMMITTING_COLLECTION" /\ dest = "prospective+"
UnprovableSnapshot == Orphaned /\ ~SnapshotWhole
NoGenesis == store.dir = "active" /\ store.chain = 0
RollbackWithoutIntent == jr.phase = "ROLLING_BACK" /\ jr.op = "NONE"
PartialTemporary ==
    jr.op = "ROLLBACK_ALL" /\ "temp" \in Owing /\ temp = "partial"
BackupReceiptOnly == BackupPending /\ jr.backup = "CLEANED"
SnapshotCollected ==
    /\ jr.status = "INTENT" /\ "snapDir" \notin files
    /\ Owing \cap (Snapshot \ {"snapDir"}) # {}
OutcomeLost ==
    /\ jr.phase = "COMPACTING" /\ jr.audit = "ROLLED_BACK"
    /\ history.state \in {"none", "partial"}
RetirementTorn ==
    history.state = "pending" /\ (store.dir = "none" \/ store.manifest # "final")

Wedged ==
    \/ ForeignCollection \/ UnprovableSnapshot \/ NoGenesis
    \/ RollbackWithoutIntent \/ PartialTemporary \/ BackupReceiptOnly
    \/ SnapshotCollected \/ OutcomeLost \/ RetirementTorn

\* A snapshot whose maker is still running is refused until that one exits.
AwaitsExit == Orphaned /\ lease = "free" /\ alive

AtRest == At("importer", "ended") /\ At(R, "idle")

\* Wedged is complete: a journaled import reaches final history unless recovery
\* finds one of these states, so no other crash point stalls an import.
SettlesOrWedges ==
    jr.phase # "NONE" ~>
        (history.state = "final" \/ (AtRest /\ (Wedged \/ AwaitsExit)))

\* Wedged is exact: once the processes are at rest in such a state, no number
\* of recovery passes changes it.
WedgedForGood == [](AtRest /\ Wedged => []Wedged)
=============================================================================
