--------------------------- MODULE ProcessedImport --------------------------
(***************************************************************************)
(* The import of a package whose photos were processed first (journal      *)
(* schema 3): a raw and a processed snapshot instead of one, and the       *)
(* unified recovery pass, which does one deletion per pass.                *)
(*                                                                         *)
(* Translated from capture_import/coordinator.py and schema2_runtime.py    *)
(* (prepare), transaction.py (execute_genesis), schema3_runtime.py,        *)
(* recovery.py (the unified pass), processed_snapshot.py,                  *)
(* cleanup_persistence.py (Schema3CleanupProtocol), collection_persistence *)
(* .py (observe_planned), durable_repository.py and                        *)
(* terminal_persistence.py (Schema3TerminalPersistenceService).            *)
(*                                                                         *)
(* Simplifications, besides those of PackageImport:                        *)
(*  - the lease of a snapshot goes with its directory or its owner file,   *)
(*    processed artifacts and their manifest are one object;               *)
(*  - the journal directory is bare, holds a chain, carries its retirement *)
(*    name, or is gone: how many generations it holds is in PackageImport; *)
(*  - one import: what it blocks is the whole pass, for every other import *)
(*    as well.                                                             *)
(***************************************************************************)
EXTENDS Naturals, FiniteSets

CONSTANTS
    Images,         \* the managed images of the selected coins
    Worlds,         \* the platforms and starting collections considered
    MaxTargets,     \* the most targets a compacted cleanup may have (301)
    MaxFailures,    \* bound: crashes and raised errors in a behaviour
    MaxSaves        \* bound: ordinary collection saves by the application

Raw == {"package", "rawRoot"}
Processed == {"contents", "procOwner", "procComplete", "procRoot"}
Tree == Images \cup {"marker", "imageRoot"}
Owned == Raw \cup Processed \cup Tree \cup {"temp", "backup"}

ASSUME ImagesAssumption ==
    /\ Images # {} /\ IsFiniteSet(Images)
    /\ Images \cap (Raw \cup Processed
                        \cup {"marker", "imageRoot", "temp", "backup"}) = {}
ASSUME WorldsAssumption == Worlds \subseteq [windows: BOOLEAN, baseline: BOOLEAN]
ASSUME BoundsAssumption ==
    MaxTargets \in Nat /\ MaxFailures \in Nat /\ MaxSaves \in Nat

VARIABLES
    world,      \* the platform, and was there a collection at preview?
    dest,       \* D: the collection file
    temp,       \* bytes under T's planned name
    files,      \* the other objects the import owns, as found on disk
    jr,         \* the newest journal generation
    store,      \* the journal directory and its retirement manifest
    history,    \* the terminal history record
    pc,         \* where each process stands
    lock,       \* the global import lock file
    lease,      \* does the importer hold the leases of its snapshots?
    alive,      \* does the process that made the snapshots still run?
    failures, saves

disk == <<dest, temp, files>>
durable == <<jr, store, history>>
control == <<pc, lock, lease>>
others == <<world, alive, failures, saves>>
vars == <<disk, durable, control, others>>

-----------------------------------------------------------------------------
(* The data.                                                               *)

Procs == {"importer", "recovery"}
R == "recovery"

Collections == {"baseline", "baseline+", "prospective", "prospective+"}
Holding == {"prospective", "prospective+"}     \* these hold the new coins
TempBytes == {"none", "partial", "prospective", "baseline"}

Phases == {"NONE", "PREPARED", "COPYING_IMAGES", "FILES_READY",
           "COMMITTING_COLLECTION", "COLLECTION_COMMITTED", "ROLLING_BACK",
           "COMPACTING"}
ArtifactStates == {"NONE", "PLANNED", "CREATED", "VERIFIED", "EXCHANGED",
                   "PUBLISHED", "RETAINED", "CLEANED"}
Results == {"none", "SUCCEEDED", "ROLLED_BACK"}
Kinds == {"NONE", "BASELINE_BACKUP", "SUCCESS_PROCESSED_SNAPSHOT",
          "SUCCESS_SNAPSHOT", "ROLLBACK_ALL"}

\* rawRef and procRef: the generation still names the snapshot; op, targets,
\* receipts and status are those of its last cleanup operation.
Generations ==
    [phase: Phases, verified: SUBSET Images, temp: ArtifactStates,
     backup: ArtifactStates, rawRef: BOOLEAN, procRef: BOOLEAN,
     audit: Results, op: Kinds, targets: SUBSET Owned, receipts: SUBSET Owned,
     status: {"NONE", "INTENT", "COMPLETE"},
     compaction: {"NONE", "PLANNING", "READY"}]
Stores == [dir: {"none", "bare", "chain", "retire"},
           manifest: {"none", "partial", "complete", "final"}]
Histories ==
    [state: {"none", "partial", "complete", "pending", "final"},
     result: Results]

Stages == {"start", "preparing", "unsealed", "sealing", "preview", "cancel",
           "genesis", "execute", "ended",                   \* the importer
           "idle", "pending", "scan", "rawOrphan", "procScan", "procOrphan",
           "dispatch", "rollback", "advance", "recompact",  \* recovery
           "next", "compact"}                               \* both

-----------------------------------------------------------------------------
(* What the code computes before it acts.                                  *)

Present(o) == IF o = "temp" THEN temp # "none" ELSE o \in files

\* The order of every deletion, journaled or not; creation goes backwards.
Rank(o) ==
    CASE o = "temp" -> 0 [] o = "backup" -> 1 [] o \in Images -> 2
      [] o = "marker" -> 3 [] o = "imageRoot" -> 4 [] o = "contents" -> 5
      [] o = "procOwner" -> 6 [] o = "procComplete" -> 7 [] o = "procRoot" -> 8
      [] o = "package" -> 9 [] OTHER -> 10

RawWhole == Raw \subseteq files
ProcessedWhole == Processed \subseteq files
TreeWhole == Tree \subseteq files

\* list_heads returned this import, and its head names the snapshot.
Listed == store.dir = "chain"
RawOrphan == "rawRoot" \in files /\ ~(Listed /\ jr.rawRef)
ProcessedOrphan == "procRoot" \in files /\ ~(Listed /\ jr.procRef)

\* What _cleanup_incomplete_orphan proves: an owner, and no readable receipt.
Incomplete == "procOwner" \in files /\ "procComplete" \notin files

\* _reopen: both snapshots, whole and not leased.
Reopenable == jr.rawRef /\ jr.procRef /\ RawWhole /\ ProcessedWhole
                  /\ lease = "free"

\* Every append is made under the lock, over the newest generation.
Append(p, g) == lock = p /\ Listed /\ jr' = g

Freed(holder, p) == IF holder = p THEN "free" ELSE holder
At(p, stage) == pc[p] = stage
Goto(p, stage) == pc' = [pc EXCEPT ![p] = stage]
Rest(p) == IF p = "importer" THEN "ended" ELSE "idle"

LeaveLocked(p) ==
    /\ Goto(p, Rest(p))
    /\ lock' = Freed(lock, p)
    /\ lease' = Freed(lease, p)

Blank == [phase |-> "NONE", verified |-> {}, temp |-> "NONE",
          backup |-> "NONE", rawRef |-> FALSE, procRef |-> FALSE,
          audit |-> "none", op |-> "NONE", targets |-> {}, receipts |-> {},
          status |-> "NONE", compaction |-> "NONE"]

Init ==
    /\ world \in Worlds
    /\ dest = "baseline" /\ temp = "none" /\ files = {}
    /\ jr = Blank
    /\ store = [dir |-> "none", manifest |-> "none"]
    /\ history = [state |-> "none", result |-> "none"]
    /\ pc = [importer |-> "start", recovery |-> "idle"]
    /\ lock = "free" /\ lease = "free" /\ alive = TRUE
    /\ failures = 0 /\ saves = 0

-----------------------------------------------------------------------------
(* Preparing: the raw snapshot without the lock, then the processed one    *)
(* under it, then the preview without it.                                  *)

Creates(o, stage) ==
    /\ files' = files \cup {o}
    /\ Goto("importer", stage)
    /\ UNCHANGED <<dest, temp>> /\ UNCHANGED durable

CreateRaw ==
    /\ \/ At("importer", "start") /\ Creates("rawRoot", "preparing")
       \/ At("importer", "preparing") /\ Creates("package", "unsealed")
    /\ lease' = "importer"
    /\ UNCHANGED <<lock, others>>

BeginSeal ==
    /\ At("importer", "unsealed") /\ lock = "free"
    /\ lock' = "importer" /\ Goto("importer", "sealing")
    /\ UNCHANGED <<disk, durable, lease, others>>

\* seal(): directory, owner, lease, artifacts and manifest, completion receipt.
Seal ==
    /\ At("importer", "sealing") /\ UNCHANGED <<lease, others>>
    /\ \/ "procRoot" \notin files /\ Creates("procRoot", "sealing")
            /\ UNCHANGED lock
       \/ "procRoot" \in files /\ "procOwner" \notin files
            /\ Creates("procOwner", "sealing") /\ UNCHANGED lock
       \/ "procOwner" \in files /\ "contents" \notin files
            /\ Creates("contents", "sealing") /\ UNCHANGED lock
       \/ "contents" \in files
            /\ Creates("procComplete", "preview") /\ lock' = "free"

\* The package does not validate, the lock is taken, or the dialog is closed.
Cancel ==
    /\ pc["importer"] \in {"unsealed", "preview"}
    /\ Goto("importer", "cancel")
    /\ UNCHANGED <<disk, durable, lock, lease, others>>

Commit ==
    /\ At("importer", "preview") /\ lock = "free"
    /\ lock' = "importer" /\ Goto("importer", "genesis")
    /\ UNCHANGED <<disk, durable, lease, others>>

\* Deletion with no journal entry: cancel() takes the processed snapshot first
\* and then the raw one, the orphan scans one snapshot each.
Unjournaled(p) ==
    CASE At(p, "cancel") -> Raw \cup Processed
      [] At(p, "rawOrphan") -> Raw
      [] At(p, "procOrphan") -> Processed
      [] OTHER -> {}

RemoveUnjournaled(p) ==
    /\ \E o \in Unjournaled(p) \cap files :
        /\ \A q \in Unjournaled(p) \cap files : Rank(o) <= Rank(q)
        /\ files' = files \ {o}
        /\ CASE o = "rawRoot" /\ p = "importer" -> LeaveLocked(p)
             [] o = "rawRoot" /\ p = R -> Goto(p, "procScan") /\ UNCHANGED <<lock, lease>>
             [] o = "procRoot" /\ p = R -> Goto(p, "dispatch") /\ UNCHANGED <<lock, lease>>
             [] OTHER -> UNCHANGED control
    /\ UNCHANGED <<dest, temp, durable, others>>

-----------------------------------------------------------------------------
(* The transaction: execute_genesis and progress_foreground_locked.        *)

\* No coin is selected, or the collection is no longer the one previewed.
Refuse ==
    /\ At("importer", "genesis") /\ store.dir = "none"
    /\ Goto("importer", "cancel")
    /\ UNCHANGED <<disk, durable, lock, lease, others>>

CreateJournalDirectory ==
    /\ At("importer", "genesis") /\ store.dir = "none" /\ dest = "baseline"
    /\ store' = [store EXCEPT !.dir = "bare"]
    /\ UNCHANGED <<disk, jr, history, control, others>>

Genesis ==
    /\ At("importer", "genesis") /\ store.dir = "bare"
    /\ jr' = [Blank EXCEPT !.phase = "PREPARED", !.rawRef = TRUE, !.procRef = TRUE]
    /\ store' = [store EXCEPT !.dir = "chain"]
    /\ Goto("importer", "execute")
    /\ UNCHANGED <<disk, history, lock, lease, others>>

Durable(g) ==
    /\ At("importer", "execute") /\ Append("importer", g)
    /\ UNCHANGED <<disk, store, history, control, others>>

Writes(o) ==
    /\ At("importer", "execute") /\ jr.phase = "COPYING_IMAGES" /\ o \notin files
    /\ files' = files \cup {o}
    /\ UNCHANGED <<dest, temp, durable, control, others>>

StartCopying ==
    jr.phase = "PREPARED" /\ Durable([jr EXCEPT !.phase = "COPYING_IMAGES"])

\* copy_processed: root, marker, then each image and at once its evidence.
MakeImageRoot == Writes("imageRoot")
WriteMarker == "imageRoot" \in files /\ Writes("marker")
WriteImage ==
    /\ "marker" \in files /\ Images \cap files = jr.verified
    /\ \E i \in Images : Writes(i)
RecordImage ==
    /\ jr.phase = "COPYING_IMAGES"
    /\ \E i \in (Images \cap files) \ jr.verified :
          Durable([jr EXCEPT !.verified = @ \cup {i}])

FilesReady ==
    /\ jr.phase = "COPYING_IMAGES" /\ jr.verified = Images
    /\ Durable([jr EXCEPT !.phase = "FILES_READY"])

DeclareCommit ==
    /\ jr.phase = "FILES_READY"
    /\ Durable([jr EXCEPT !.phase = "COMMITTING_COLLECTION", !.temp = "PLANNED",
                          !.backup = IF world.baseline THEN "PLANNED" ELSE "NONE"])

Committing == At("importer", "execute") /\ jr.phase = "COMMITTING_COLLECTION"

Publishes(d, t, f) ==
    /\ Committing
    /\ dest' = d /\ temp' = t /\ files' = f
    /\ UNCHANGED <<durable, control, others>>

CreateTemporary ==
    jr.temp = "PLANNED" /\ temp = "none" /\ Publishes(dest, "partial", files)
WriteTemporary ==
    jr.temp = "CREATED" /\ temp = "partial" /\ Publishes(dest, "prospective", files)
RecordTemporary ==
    /\ Committing
    /\ \/ jr.temp = "PLANNED" /\ temp = "partial"
          /\ Durable([jr EXCEPT !.temp = "CREATED"])
       \/ jr.temp = "CREATED" /\ temp = "prospective"
          /\ Durable([jr EXCEPT !.temp = "VERIFIED"])

LinkBackup ==
    /\ world.windows /\ jr.temp = "VERIFIED" /\ jr.backup = "PLANNED"
    /\ "backup" \notin files
    /\ Publishes(dest, temp, files \cup {"backup"})
RecordBackup ==
    /\ Committing /\ "backup" \in files
    /\ \/ jr.backup = "PLANNED" /\ Durable([jr EXCEPT !.backup = "CREATED"])
       \/ jr.backup = "CREATED" /\ Durable([jr EXCEPT !.backup = "VERIFIED"])

Exchanging == world.baseline /\ ~world.windows

Publish ==
    /\ dest = "baseline" /\ jr.temp = "VERIFIED" /\ temp = "prospective"
    /\ world.windows /\ world.baseline => jr.backup = "VERIFIED"
    /\ Publishes("prospective", IF Exchanging THEN "baseline" ELSE "none", files)

RecordExchange ==
    /\ Committing /\ Exchanging /\ dest = "prospective" /\ jr.backup = "PLANNED"
    /\ Durable([jr EXCEPT !.temp = "EXCHANGED", !.backup = "EXCHANGED"])

Committed ==
    [jr EXCEPT !.phase = "COLLECTION_COMMITTED", !.temp = "PUBLISHED",
               !.backup = IF world.baseline THEN "RETAINED" ELSE "NONE",
               !.audit = "SUCCEEDED"]

\* Both leases are given back before the first cleanup is begun.
RecordCommitted ==
    /\ Committing /\ dest = "prospective"
    /\ Exchanging => jr.temp = "EXCHANGED"
    /\ Append("importer", Committed)
    /\ Goto("importer", "next") /\ lease' = "free"
    /\ UNCHANGED <<disk, store, history, lock, others>>

Execute ==
    \/ StartCopying \/ MakeImageRoot \/ WriteMarker \/ WriteImage \/ RecordImage
    \/ FilesReady \/ DeclareCommit \/ CreateTemporary \/ WriteTemporary
    \/ RecordTemporary \/ LinkBackup \/ RecordBackup \/ Publish
    \/ RecordExchange \/ RecordCommitted

-----------------------------------------------------------------------------
(* Cleanup: an INTENT naming the targets; then, one pass each, a removal   *)
(* with its receipt for every target, and COMPLETE.                        *)

Intend(p, kind, targets) ==
    Append(p, [jr EXCEPT !.op = kind, !.targets = targets, !.receipts = {},
                         !.status = "INTENT"])

\* begin_success_next: which operation follows the one last completed.
NextKind ==
    IF jr.op = "NONE" /\ world.baseline THEN "BASELINE_BACKUP"
    ELSE IF jr.op \in {"NONE", "BASELINE_BACKUP"} THEN "SUCCESS_PROCESSED_SNAPSHOT"
    ELSE "SUCCESS_SNAPSHOT"
TargetsOf(kind) ==
    CASE kind = "BASELINE_BACKUP" -> {IF world.windows THEN "backup" ELSE "temp"}
      [] kind = "SUCCESS_PROCESSED_SNAPSHOT" -> Processed
      [] OTHER -> Raw

\* _start_success_cleanup reopens both snapshots, or the raw one once the
\* processed one is released.  It ends the import, or the pass.
BeginNext(p) ==
    /\ At(p, "next") /\ jr.phase = "COLLECTION_COMMITTED" /\ jr.rawRef
    /\ IF jr.procRef THEN Reopenable ELSE RawWhole
    /\ jr.procRef <=> NextKind # "SUCCESS_SNAPSHOT"
    /\ Intend(p, NextKind, TargetsOf(NextKind))
    /\ LeaveLocked(p)
    /\ UNCHANGED <<disk, store, history, others>>

\* Targets are removed in order and receipted one by one.
Owing == jr.targets \ jr.receipts
NextTarget(o) ==
    /\ o \in Owing
    /\ \A q \in Owing : Rank(o) <= Rank(q)
    /\ \A q \in Owing : Rank(q) = Rank(o) /\ ~Present(q) => q = o

\* verify_operation: what was receipted is gone, what is owed is there, but for
\* the next target; T's name holds the bytes that the target commits to.
Verified(o) ==
    /\ \A q \in jr.receipts : ~Present(q)
    /\ \A q \in Owing \ {o} : Present(q)
    /\ "temp" \in Owing /\ Present("temp") =>
            temp = IF jr.op = "ROLLBACK_ALL" THEN "prospective" ELSE "baseline"

ReleasedAtSuccessOnly(stage) ==          \* mutant: a rollback keeps the reference
    stage = "next" /\ jr.op = "SUCCESS_PROCESSED_SNAPSHOT"
        /\ jr.status = "COMPLETE"

\* release_processed_reference: a generation of its own, after the receipts of
\* the processed snapshot and before the first one of the raw snapshot.
ReleasedAt(stage) ==
    \/ /\ stage = "next" /\ jr.op = "SUCCESS_PROCESSED_SNAPSHOT"
       /\ jr.status = "COMPLETE"
    \/ /\ stage = "advance" /\ jr.op = "ROLLBACK_ALL" /\ jr.status = "INTENT"
       /\ Processed \subseteq jr.receipts /\ Raw \cap jr.receipts = {}

Advancing == At(R, "advance") /\ ~(jr.procRef /\ ReleasedAt("advance"))

RemoveTarget ==
    /\ Advancing
    /\ \E o \in Owing :
        /\ NextTarget(o) /\ Present(o) /\ Verified(o)
        /\ temp' = IF o = "temp" THEN "none" ELSE temp
        /\ files' = files \ {o}
    /\ UNCHANGED <<dest, durable, control, others>>

\* The receipt ends the pass; the last one for the raw snapshot forgets it.
ReceiptTarget ==
    /\ Advancing
    /\ \E o \in Owing :
        /\ NextTarget(o) /\ ~Present(o) /\ Verified(o)
        /\ Append(R, [jr EXCEPT
             !.receipts = @ \cup {o},
             !.backup = IF jr.op = "BASELINE_BACKUP" THEN "CLEANED" ELSE @,
             !.rawRef = @ /\ ~(o \in Raw /\ Owing \cap Raw = {o})])
    /\ LeaveLocked(R)
    /\ UNCHANGED <<disk, store, history, others>>

CompleteCleanup ==
    /\ At(R, "advance") /\ Owing = {}
    /\ Append(R, [jr EXCEPT !.status = "COMPLETE"])
    /\ Goto(R, "next")
    /\ UNCHANGED <<disk, store, history, lock, lease, others>>

ReleaseProcessed ==
    /\ jr.procRef /\ ReleasedAt(pc[R])
    /\ Append(R, [jr EXCEPT !.procRef = FALSE])
    /\ UNCHANGED <<disk, store, history, control, others>>

Cleanup ==
    \/ RemoveTarget \/ ReceiptTarget \/ CompleteCleanup \/ ReleaseProcessed

-----------------------------------------------------------------------------
(* Terminal compaction and retirement: Schema3TerminalPersistenceService.  *)

Compacting == pc[R] \in {"compact", "recompact"} /\ lock = R

\* _compact_if_eligible; the repository refuses the compacting generation after
\* a cleanup of too many targets (_validate_wide_cleanup_transition).
Narrow == Cardinality(jr.targets) <= MaxTargets
StartCompaction ==
    /\ At(R, "next") /\ jr.status = "COMPLETE" /\ ~jr.rawRef /\ ~jr.procRef
    /\ jr.op \in {"SUCCESS_SNAPSHOT", "ROLLBACK_ALL"} /\ Narrow
    /\ Append(R, [jr EXCEPT !.phase = "COMPACTING", !.temp = "NONE",
                            !.backup = "NONE", !.compaction = "PLANNING"])
    /\ Goto(R, "compact")
    /\ UNCHANGED <<disk, store, history, lock, lease, others>>

Stores3(s) == store' = s /\ UNCHANGED <<disk, jr, history, control, others>>
Writes3(h) == history' = h /\ UNCHANGED <<disk, jr, store, control, others>>

WritingManifest ==
    Compacting /\ jr.compaction = "PLANNING" /\ store.manifest = "none"
PublishManifest ==
    /\ WritingManifest \/ (At(R, "recompact") /\ store.manifest = "complete")
    /\ Stores3([store EXCEPT !.manifest = "final"])

SealOutcome ==
    /\ Compacting /\ jr.compaction = "PLANNING" /\ store.manifest = "final"
    /\ Append(R, [jr EXCEPT !.compaction = "READY"])
    /\ UNCHANGED <<disk, store, history, control, others>>

WritingPending ==
    /\ Compacting /\ jr.compaction = "READY" /\ Listed
    /\ history.state = "none"
PublishPending ==
    /\ WritingPending \/ (At(R, "recompact") /\ history.state = "complete")
    /\ Writes3([state |-> "pending", result |-> jr.audit])
DeletePartialRecord ==
    /\ At(R, "recompact") /\ jr.compaction = "READY" /\ history.state = "partial"
    /\ Writes3([history EXCEPT !.state = "none"])

\* _retire: the directory takes its retirement name, is emptied and removed,
\* and only then the record its final name.
RenameForRetirement ==
    /\ Compacting /\ history.state = "pending" /\ store.dir = "chain"
    /\ Stores3([store EXCEPT !.dir = "retire"])
RemoveRetirement ==
    /\ Compacting /\ store.dir = "retire"
    /\ Stores3([dir |-> "none", manifest |-> "none"])
Finalize ==
    /\ Compacting /\ history.state = "pending" /\ store.dir = "none"
    /\ history' = [history EXCEPT !.state = "final"]
    /\ LeaveLocked(R)
    /\ UNCHANGED <<disk, jr, store, others>>

Compaction ==
    \/ StartCompaction \/ PublishManifest \/ SealOutcome \/ PublishPending
    \/ DeletePartialRecord \/ RenameForRetirement \/ RemoveRetirement \/ Finalize

-----------------------------------------------------------------------------
(* UnifiedPackageImportRecoveryService.reconcile_pending_imports, run each *)
(* time the import dialog opens, by any instance of the application.       *)

StartRecovery ==
    /\ At(R, "idle") /\ lock = "free"
    /\ lock' = R /\ Goto(R, "pending")
    /\ UNCHANGED <<disk, durable, lease, others>>

Moves(from, to) ==
    /\ At(R, from) /\ lock = R /\ Goto(R, to)
    /\ UNCHANGED <<disk, durable, lock, lease, others>>

\* A pending record is resumed only with its head listed under the active name:
\* list_heads refuses the retirement name, and a head that is gone is refused
\* too, before resume_pending could finish what it knows how to finish.
ListBlocked ==
    \/ store.dir \in {"bare", "retire"}
    \/ history.state = "pending" /\ ~Listed
ListHeads ==
    /\ ~ListBlocked
    /\ Moves("pending", IF history.state = "pending" THEN "recompact" ELSE "scan")

\* The raw scan skips a leased orphan and refuses a living maker's.
RawScanBlocked == RawOrphan /\ lease = "free" /\ (alive \/ ~RawWhole)
RawScan ==
    /\ ~RawScanBlocked
    /\ Moves("scan", IF RawOrphan /\ lease = "free" THEN "rawOrphan" ELSE "procScan")

ProcessedScanBlockedByLease ==          \* mutant: an unproven orphan is deleted
    ProcessedOrphan /\ lease # "free"

\* The processed scan refuses a leased orphan, and one it can neither open nor
\* prove incomplete.
ProcessedScanBlocked ==
    ProcessedOrphan /\ (lease # "free" \/ ~(ProcessedWhole \/ Incomplete))
ProcessedScan ==
    /\ ~ProcessedScanBlocked
    /\ Moves("procScan", IF ProcessedOrphan THEN "procOrphan" ELSE "dispatch")

NothingToRecover ==
    /\ At(R, "dispatch") /\ ~Listed
    /\ LeaveLocked(R)
    /\ UNCHANGED <<disk, durable, others>>

AtHead(phases) == At(R, "dispatch") /\ Listed /\ jr.phase \in phases

ResumeCompaction ==
    AtHead({"COMPACTING"}) /\ Moves("dispatch", "recompact")

DeletePartialManifest ==
    /\ At(R, "recompact") /\ store.manifest = "partial"
    /\ store' = [store EXCEPT !.manifest = "none"]
    /\ LeaveLocked(R)
    /\ UNCHANGED <<disk, jr, history, others>>

\* _resume_cleanup, or the first success operation of a committed import.
ResumeCleanup ==
    /\ AtHead({"COLLECTION_COMMITTED", "ROLLING_BACK"})
    /\ jr.op # "NONE" \/ jr.phase = "COLLECTION_COMMITTED"
    /\ Moves("dispatch", IF jr.status = "INTENT" THEN "advance" ELSE "next")

\* observe_planned: what D, T and B must be for one outcome or the other.
ProspectiveObserved ==
    /\ dest = "prospective" /\ jr.temp \in {"VERIFIED", "EXCHANGED"}
    /\ IF Exchanging THEN jr.backup = "EXCHANGED" /\ temp = "baseline"
                     ELSE temp = "none"
    /\ world.baseline /\ world.windows =>
            jr.backup = "VERIFIED" /\ "backup" \in files
BaselineObserved ==
    /\ dest = "baseline"
    /\ IF temp = "none" THEN jr.temp = "PLANNED"
                        ELSE jr.temp # "PLANNED" /\ temp = "prospective"
    /\ "backup" \in files <=> jr.backup \notin {"NONE", "PLANNED"}

RecoverCommitted ==
    /\ AtHead({"COMMITTING_COLLECTION"}) /\ ProspectiveObserved
    /\ Reopenable /\ TreeWhole
    /\ Append(R, Committed)
    /\ Goto(R, "next")
    /\ UNCHANGED <<disk, store, history, lock, lease, others>>

\* _start_rollback: the collection is looked at only while it is published; an
\* image root must carry its marker; the decision, then the deletion intent.
RollbackProvable ==
    /\ Reopenable /\ jr.verified \subseteq files
    /\ "imageRoot" \in files => "marker" \in files
    /\ jr.phase = "COMMITTING_COLLECTION" => BaselineObserved

StartRollbackMisreported ==          \* mutant: the audit of the other outcome
    /\ AtHead({"PREPARED", "COPYING_IMAGES", "FILES_READY",
               "COMMITTING_COLLECTION"})
    /\ RollbackProvable
    /\ Append(R, [jr EXCEPT !.phase = "ROLLING_BACK", !.audit = "SUCCEEDED"])
    /\ Goto(R, "rollback")
    /\ UNCHANGED <<disk, store, history, lock, lease, others>>

StartRollback ==
    /\ AtHead({"PREPARED", "COPYING_IMAGES", "FILES_READY",
               "COMMITTING_COLLECTION"})
    /\ RollbackProvable
    /\ Append(R, [jr EXCEPT !.phase = "ROLLING_BACK", !.audit = "ROLLED_BACK"])
    /\ Goto(R, "rollback")
    /\ UNCHANGED <<disk, store, history, lock, lease, others>>

RollbackTargetsWithoutTemporary ==          \* mutant
    (IF jr.backup \in {"NONE", "PLANNED"} THEN {} ELSE {"backup"})
        \cup (Tree \cap files) \cup Processed \cup Raw

RollbackTargets ==
    (IF jr.temp \in {"NONE", "PLANNED"} THEN {} ELSE {"temp"})
        \cup (IF jr.backup \in {"NONE", "PLANNED"} THEN {} ELSE {"backup"})
        \cup (Tree \cap files) \cup Processed \cup Raw

\* The second half of _start_rollback, or a pass that finds the decision alone.
RollbackIntent ==
    /\ At(R, "rollback") \/ (AtHead({"ROLLING_BACK"}) /\ RollbackProvable)
    /\ jr.op = "NONE"
    /\ Intend(R, "ROLLBACK_ALL", RollbackTargets)
    /\ LeaveLocked(R)
    /\ UNCHANGED <<disk, store, history, others>>

\* Every check that raises: the pass ends with nothing changed.
DispatchBlocked ==
    \/ jr.phase \in {"PREPARED", "COPYING_IMAGES", "FILES_READY"} /\ ~RollbackProvable
    \/ jr.phase = "ROLLING_BACK" /\ jr.op = "NONE" /\ ~RollbackProvable
    \/ /\ jr.phase = "COMMITTING_COLLECTION"
       /\ ~RollbackProvable /\ ~(ProspectiveObserved /\ Reopenable /\ TreeWhole)

NextBlocked ==
    \/ jr.op = "ROLLBACK_ALL" /\ ~Narrow
    \/ jr.procRef /\ jr.op # "SUCCESS_PROCESSED_SNAPSHOT" /\ ~Reopenable

Blocked ==
    \/ At(R, "pending") /\ ListBlocked
    \/ At(R, "scan") /\ RawScanBlocked
    \/ At(R, "procScan") /\ ProcessedScanBlocked
    \/ At(R, "dispatch") /\ Listed /\ DispatchBlocked
    \/ At(R, "advance") /\ \E o \in Owing : NextTarget(o) /\ ~Verified(o)
    \/ At(R, "next") /\ NextBlocked

FailClosed ==
    /\ lock = R /\ Blocked /\ LeaveLocked(R)
    /\ UNCHANGED <<disk, durable, others>>

Recovering ==
    \/ ListHeads \/ RawScan \/ ProcessedScan \/ RemoveUnjournaled(R)
    \/ NothingToRecover \/ ResumeCompaction \/ DeletePartialManifest
    \/ ResumeCleanup \/ RecoverCommitted \/ StartRollback \/ RollbackIntent
    \/ Cleanup \/ BeginNext(R) \/ Compaction \/ FailClosed

-----------------------------------------------------------------------------
(* The environment: failures, the operator, and the application's saves.   *)

\* What a write cut short leaves of the manifest or of the pending record.
Torn(p) ==
    \/ UNCHANGED <<store, history>>
    \/ /\ p = R /\ WritingManifest
       /\ \E m \in {"partial", "complete"} : store' = [store EXCEPT !.manifest = m]
       /\ UNCHANGED history
    \/ /\ p = R /\ WritingPending
       /\ \E s \in {"partial", "complete"} :
            history' = [state |-> s, result |-> jr.audit]
       /\ UNCHANGED store

Fails(p) ==
    /\ failures < MaxFailures /\ failures' = failures + 1
    /\ ~At(p, Rest(p)) /\ ~At(p, "start")
    /\ Torn(p)
    /\ UNCHANGED <<world, dest, temp, jr, saves>>

\* An operation raises.  Snapshots being made are removed, those of a commit
\* that has no journal yet are cancelled, and later ones left to recovery; a
\* cleanup that raised keeps the leases it still holds.
Abort(p) ==
    /\ Fails(p) /\ UNCHANGED alive
    /\ CASE At(p, "preparing") -> files' = files \ Raw /\ LeaveLocked(p)
         [] At(p, "sealing") ->
              files' = files \ Processed /\ Goto(p, "cancel")
                /\ lock' = "free" /\ UNCHANGED lease
         [] At(p, "genesis") /\ store.dir = "none" ->
              Goto(p, "cancel") /\ UNCHANGED <<files, lock, lease>>
         [] At(p, "cancel") ->
              Goto(p, "ended") /\ lock' = Freed(lock, p) /\ UNCHANGED <<files, lease>>
         [] pc[p] \in {"unsealed", "preview"} -> FALSE
         [] OTHER -> LeaveLocked(p) /\ UNCHANGED files

\* A process dies.  The operating system frees its leases; its lock file stays.
Crash(p) ==
    /\ Fails(p) /\ UNCHANGED files
    /\ Goto(p, Rest(p))
    /\ lock' = IF lock = p THEN "stale" ELSE lock
    /\ lease' = Freed(lease, p)
    /\ alive' = IF p = "importer" THEN FALSE ELSE alive

Exit ==
    /\ At("importer", "ended") /\ alive
    /\ alive' = FALSE /\ lease' = Freed(lease, "importer")
    /\ UNCHANGED <<world, disk, durable, pc, lock, failures, saves>>

ClearStaleLock ==
    /\ lock = "stale" /\ lock' = "free"
    /\ UNCHANGED <<disk, durable, pc, lease, others>>

\* CoinCollection.save_collection, of a collection loaded as it is now.
Save ==
    /\ saves < MaxSaves /\ saves' = saves + 1 /\ lock = "free"
    /\ pc["importer"] \notin {"start", "preparing"}
    /\ dest' = IF dest \in Holding THEN "prospective+" ELSE "baseline+"
    /\ UNCHANGED <<world, temp, files, durable, control, alive, failures>>

-----------------------------------------------------------------------------
Prepare == CreateRaw \/ BeginSeal \/ Cancel \/ Commit

Importer ==
    \/ Seal \/ RemoveUnjournaled("importer") \/ Refuse
    \/ CreateJournalDirectory \/ Genesis \/ Execute \/ BeginNext("importer")

Environment ==
    \/ \E p \in Procs : Abort(p) \/ Crash(p)
    \/ Exit \/ Save

Next ==
    Prepare \/ Importer \/ StartRecovery \/ Recovering \/ ClearStaleLock
        \/ Environment

Spec == Init /\ [][Next]_vars

\* The importer runs while it has the lock or cleans up; the dialog is opened
\* again while work may be left, and the pass then runs; the operator clears a
\* dead lock.  No fairness for the user's choices, failures, saves, or exit.
Fairness ==
    /\ WF_vars(Importer) /\ WF_vars(Recovering)
    /\ WF_vars(StartRecovery) /\ WF_vars(ClearStaleLock)

LiveSpec == Spec /\ Fairness

-----------------------------------------------------------------------------
(* Correctness.                                                            *)

TypeOK ==
    /\ world \in Worlds
    /\ dest \in Collections /\ temp \in TempBytes /\ files \subseteq Owned
    /\ jr \in Generations /\ store \in Stores /\ history \in Histories
    /\ pc \in [Procs -> Stages]
    /\ lock \in Procs \cup {"free", "stale"}
    /\ lease \in {"importer", "free"}
    /\ alive \in BOOLEAN /\ failures \in Nat /\ saves \in Nat

Recorded == history.state \in {"pending", "final"}

\* The evidence outlives its use, whatever order crashes, passes and saves come
\* in (schema3_runtime._start_rollback deletes the images without a look at the
\* collection; cleanup_persistence.advance deletes one object per pass):
\* photos outlive the coins that name them, the raw snapshot the reference to
\* the processed one (invariants 10 and 11 of
\* DESKTOP_PROCESSED_ARTIFACT_RECOVERY_INVARIANTS.md), the user's collection
\* the journal's decision; and what a record calls cleaned is gone.
EvidenceOutlivesUse ==
    /\ dest \in Holding => TreeWhole
    /\ Listed /\ jr.procRef => RawWhole
    /\ jr.phase = "COMMITTING_COLLECTION" /\ dest \in Holding /\ world.baseline =>
            IF world.windows THEN "backup" \in files ELSE temp = "baseline"
    /\ Recorded =>
            /\ (Raw \cup Processed \cup {"backup"}) \cap files = {} /\ temp = "none"
            /\ dest \notin Holding => Tree \cap files = {}

\* The promise of AtomicImport, which the plain import keeps as well: all or
\* nothing, decided once, and told truly by the record.
Outcome ==
    IF jr.phase = "NONE" THEN "none"
    ELSE IF dest \in Holding THEN "imported"
    ELSE IF jr.audit = "ROLLED_BACK" THEN "abandoned" ELSE "undecided"

Promise == INSTANCE AtomicImport WITH
    outcome <- Outcome, record <- IF Recorded THEN history.result ELSE "none"

ImplementsPromise == Promise!Spec

\* The durable states no later pass gets out of.  The first two are meant to
\* stop it; the others are interrupted steps, and one size, the README lists.
ForeignCollection ==
    jr.phase = "COMMITTING_COLLECTION" /\ dest \in {"baseline+", "prospective+"}
TornRawOrphan == RawOrphan /\ ~RawWhole
TornProcessedOrphan == ProcessedOrphan /\ ~ProcessedWhole /\ ~Incomplete
NoGenesis == store.dir = "bare"
UnmarkedTree ==
    jr.phase = "COPYING_IMAGES" /\ "imageRoot" \in files /\ "marker" \notin files
UnrecordedTemporary ==
    /\ jr.phase = "COMMITTING_COLLECTION" /\ temp # "none"
    /\ jr.temp = "PLANNED" \/ temp = "partial"
UnrecordedBackup ==
    jr.phase = "COMMITTING_COLLECTION" /\ jr.backup = "PLANNED"
        /\ "backup" \in files
UnrecordedExchange ==
    jr.phase = "COMMITTING_COLLECTION" /\ jr.backup = "PLANNED"
        /\ temp = "baseline"
RollbackTooWide == jr.op = "ROLLBACK_ALL" /\ ~Narrow
RetirementTorn == history.state = "pending" /\ ~Listed

Wedged ==
    \/ ForeignCollection \/ TornRawOrphan \/ TornProcessedOrphan \/ NoGenesis
    \/ UnmarkedTree \/ UnrecordedTemporary \/ UnrecordedBackup
    \/ UnrecordedExchange \/ RollbackTooWide \/ RetirementTorn

\* Passes fail while the process that made a stray snapshot lives on.
AwaitsExit == alive /\ (RawOrphan \/ (ProcessedOrphan /\ lease # "free"))

AtRest == At("importer", "ended") /\ At(R, "idle")

\* Nothing operational is left, and a journaled import has its final record.
Settled ==
    /\ (Raw \cup Processed) \cap files = {} /\ store.dir = "none"
    /\ history.state = IF jr.phase = "NONE" THEN "none" ELSE "final"

\* Wedged is complete: once the importer has ended, the passes leave nothing
\* behind, journaled or not, unless they find one of these states.
SettlesOrWedges ==
    At("importer", "ended") ~> (Settled \/ (AtRest /\ (Wedged \/ AwaitsExit)))

\* Wedged is exact: once the processes are at rest in such a state, no number
\* of passes changes it.
WedgedForGood == [](AtRest /\ Wedged => []Wedged)

\* DESKTOP_PROCESSED_ARTIFACT_RECOVERY_MATRIX.md, PA-RM-31, of a crash during
\* retirement: "Resume ordered retirement"; _finalize_late_pending is written
\* for it.  The unified pass refuses both the retirement name and the absence.
RetirementResumes == history.state = "pending" ~> history.state = "final"
=============================================================================
