---------------------------- MODULE ImportBudget ----------------------------
(***************************************************************************)
(* One import and its recovery in numbers, with the limits the code has    *)
(* (limits.py, durable_models.py): how many generations it writes, and how *)
(* many objects its rollback must name in one ROLLBACK_ALL operation.      *)
(*                                                                         *)
(* PackageImport explores every order of events with two images; here the  *)
(* images are only counted, and there are as many as a package may hold.   *)
(* Simplifications: a removal and its receipt are one step; any pass may   *)
(* continue an unfinished cleanup, which PackageImport shows is too kind   *)
(* to recovery and adds generations rather than hiding any; the snapshot   *)
(* can always be reopened.                                                 *)
(***************************************************************************)
EXTENDS Naturals

CONSTANT
    Imports         \* coins chosen, their photos, and where they are imported

MaxCoins == 100
MaxEntries == 256               \* of the archive, one of them the manifest
MaxTargets == 301
MaxNormalGeneration == 3583
MaxGeneration == 4095

\* Every coin has a front and a reverse photo, and perhaps one of its edge;
\* baseline says that the collection has a file before the import.
ASSUME ImportsAssumption ==
    \A m \in Imports :
        /\ m.coins \in 1..MaxCoins /\ m.images \in Nat
        /\ 2 * m.coins <= m.images /\ m.images <= 3 * m.coins
        /\ m.images + 1 <= MaxEntries
        /\ m.windows \in BOOLEAN /\ m.baseline \in BOOLEAN

VARIABLES
    work,           \* the import
    runner,         \* importer, recovery, rollback (a pass that began one), none
    phase,
    generation,     \* of the head
    tree,           \* objects of the managed image tree on disk
    verified,       \* images with evidence in the journal
    recorded,       \* generations about T and B
    published,      \* the collection holds the coins
    op              \* the last cleanup operation

vars == <<work, runner, phase, generation, tree, verified, recorded, published, op>>

Undecided == {"PREPARED", "COPYING_IMAGES", "FILES_READY", "COMMITTING_COLLECTION"}
NoOperation == [kind |-> "NONE", targets |-> 0, receipts |-> 0, status |-> "NONE"]

\* Import root, owner marker, a directory per coin, the images.
TreeSize == 2 + work.coins + work.images
SnapshotSize == 4
KeepsBackup == work.windows /\ work.baseline

\* CREATED and VERIFIED for T, and on Windows for the backup link.
ArtifactsToPublish == IF KeepsBackup THEN 4 ELSE 2

Init ==
    /\ work \in Imports
    /\ runner = "importer" /\ phase = "PREPARED" /\ generation = 0
    /\ tree = 0 /\ verified = 0 /\ recorded = 0 /\ published = FALSE
    /\ op = NoOperation

Append == generation + 1 <= MaxGeneration /\ generation' = generation + 1

-----------------------------------------------------------------------------
(* execute(): up to the generation that commits.                           *)

Enter(from, to) ==
    /\ runner = "importer" /\ phase = from /\ phase' = to /\ Append
    /\ UNCHANGED <<work, runner, tree, verified, recorded, published, op>>

StartCopying == Enter("PREPARED", "COPYING_IMAGES")

CopyObject ==
    /\ runner = "importer" /\ phase = "COPYING_IMAGES" /\ tree < TreeSize
    /\ tree' = tree + 1
    /\ UNCHANGED <<work, runner, phase, generation, verified, recorded, published, op>>

VerifyImage ==
    /\ runner = "importer" /\ phase = "COPYING_IMAGES"
    /\ tree = TreeSize /\ verified < work.images
    /\ verified' = verified + 1 /\ Append
    /\ UNCHANGED <<work, runner, phase, tree, recorded, published, op>>

FilesReady == verified = work.images /\ Enter("COPYING_IMAGES", "FILES_READY")
DeclareCommit == Enter("FILES_READY", "COMMITTING_COLLECTION")

\* T, then the backup; after a POSIX exchange both once more.
RecordArtifact ==
    /\ runner = "importer" /\ phase = "COMMITTING_COLLECTION"
    /\ \/ ~published /\ recorded < ArtifactsToPublish
       \/ published /\ work.baseline /\ ~work.windows /\ recorded = ArtifactsToPublish
    /\ recorded' = recorded + 1 /\ Append
    /\ UNCHANGED <<work, runner, phase, tree, verified, published, op>>

Publish ==
    /\ runner = "importer" /\ phase = "COMMITTING_COLLECTION"
    /\ ~published /\ recorded = ArtifactsToPublish
    /\ published' = TRUE
    /\ UNCHANGED <<work, runner, phase, generation, tree, verified, recorded, op>>

\* By the transaction, or by recovery from the bytes it finds.
Commit ==
    /\ phase = "COMMITTING_COLLECTION" /\ published
    /\ \/ runner = "importer"
          /\ work.baseline /\ ~work.windows => recorded = ArtifactsToPublish + 1
       \/ runner = "recovery"
    /\ phase' = "COLLECTION_COMMITTED" /\ Append
    /\ UNCHANGED <<work, runner, tree, verified, recorded, published, op>>

-----------------------------------------------------------------------------
(* Rollback, by recovery only, and the cleanup operations.                 *)

StartRollbackEachPass ==       \* mutant: also over a rollback already begun
    /\ runner = "recovery" /\ ~published /\ op = NoOperation
    /\ phase \in Undecided \cup {"ROLLING_BACK"}
    /\ phase' = "ROLLING_BACK" /\ runner' = "rollback" /\ Append
    /\ UNCHANGED <<work, tree, verified, recorded, published, op>>

StartRollback ==
    /\ runner = "recovery" /\ phase \in Undecided /\ ~published
    /\ phase' = "ROLLING_BACK" /\ runner' = "rollback" /\ Append
    /\ UNCHANGED <<work, tree, verified, recorded, published, op>>

\* T and B as far as the journal knows their identity, what there is of the
\* image tree, the snapshot.
RollbackTargets ==
    (IF recorded >= 1 THEN 1 ELSE 0) + (IF recorded >= 3 THEN 1 ELSE 0)
        + tree + SnapshotSize

\* An image tree cut short before its marker cannot be proved to be owned, and
\* an operation of too many targets is refused by CleanupOperation.validate.
Plannable == tree # 1 /\ RollbackTargets <= MaxTargets

Intend(kind, targets) ==
    /\ op' = [kind |-> kind, targets |-> targets, receipts |-> 0, status |-> "INTENT"]
    /\ Append
    /\ UNCHANGED <<work, runner, phase, tree, verified, recorded, published>>

RollbackIntent ==
    /\ runner = "rollback" /\ op = NoOperation /\ Plannable
    /\ Intend("ROLLBACK_ALL", RollbackTargets)

BackupIntent ==
    /\ runner # "none" /\ phase = "COLLECTION_COMMITTED"
    /\ work.baseline /\ op = NoOperation
    /\ Intend("BASELINE_BACKUP", 1)

SnapshotIntent ==
    /\ runner # "none" /\ phase = "COLLECTION_COMMITTED"
    /\ \/ ~work.baseline /\ op = NoOperation
       \/ op.kind = "BASELINE_BACKUP" /\ op.status = "COMPLETE"
    /\ Intend("SUCCESS_SNAPSHOT", SnapshotSize)

ReceiptTarget ==
    /\ runner # "none" /\ op.status = "INTENT" /\ op.receipts < op.targets
    /\ op' = [op EXCEPT !.receipts = @ + 1] /\ Append
    /\ UNCHANGED <<work, runner, phase, tree, verified, recorded, published>>

CompleteCleanup ==
    /\ runner # "none" /\ op.status = "INTENT" /\ op.receipts = op.targets
    /\ op' = [op EXCEPT !.status = "COMPLETE"] /\ Append
    /\ UNCHANGED <<work, runner, phase, tree, verified, recorded, published>>

\* G, which checks that H will fit, and H.
PlanCompaction ==
    /\ runner # "none" /\ op.status = "COMPLETE"
    /\ \/ phase = "ROLLING_BACK"
       \/ phase = "COLLECTION_COMMITTED" /\ op.kind = "SUCCESS_SNAPSHOT"
    /\ generation + 2 <= MaxGeneration
    /\ phase' = "COMPACTING" /\ Append
    /\ UNCHANGED <<work, runner, tree, verified, recorded, published, op>>

SealCompaction ==
    /\ runner # "none" /\ phase = "COMPACTING" /\ phase' = "READY" /\ Append
    /\ UNCHANGED <<work, runner, tree, verified, recorded, published, op>>

-----------------------------------------------------------------------------
\* A process dies or its call raises, RollbackIntent's refusal included.
Stop ==
    /\ runner # "none" /\ runner' = "none"
    /\ UNCHANGED <<work, phase, generation, tree, verified, recorded, published, op>>

Recover ==
    /\ runner = "none" /\ runner' = "recovery"
    /\ UNCHANGED <<work, phase, generation, tree, verified, recorded, published, op>>

Forward ==
    \/ StartCopying \/ CopyObject \/ VerifyImage \/ FilesReady \/ DeclareCommit
    \/ RecordArtifact \/ Publish \/ Commit
Closing ==
    \/ StartRollback \/ RollbackIntent \/ BackupIntent \/ SnapshotIntent
    \/ ReceiptTarget \/ CompleteCleanup \/ PlanCompaction \/ SealCompaction

Next == Forward \/ Closing \/ Stop \/ Recover

Spec == Init /\ [][Next]_vars

-----------------------------------------------------------------------------
(* Correctness.                                                            *)

\* What an import may cost at most: the way to the brink of publication, then
\* a rollback of everything.  (durable-persistence.md, line 180: an import
\* "whose conservative upper bound would enter the reserve is rejected".  The
\* code computes no such bound and never looks at MAX_NORMAL_JOURNAL_GENERATION.)
ConservativeBound(m) == 2 * m.images + m.coins + 20

\* However often an import is interrupted, it stays below that bound, which is
\* far from the reserve: the check the code leaves out is never needed.
WithinBudget ==
    /\ generation <= ConservativeBound(work)
    /\ ConservativeBound(work) <= MaxNormalGeneration

\* "targets (ordered unique array of 1-301 OwnershipDescriptor objects)"
\* (durable-persistence.md, line 238; CleanupOperation.validate): whatever is
\* to be rolled back fits into the one operation a rollback has.
RollbackFits ==
    runner = "rollback" /\ op = NoOperation => RollbackTargets <= MaxTargets
=============================================================================
