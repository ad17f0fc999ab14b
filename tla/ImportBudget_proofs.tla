------------------------- MODULE ImportBudget_proofs -------------------------
(***************************************************************************)
(* Theorems about ImportBudget, for every import the limits of a package   *)
(* admit, on both platforms, however often it is interrupted.              *)
(*                                                                         *)
(* The bound is not inductive: nothing in it says how much is still to be  *)
(* spent.  The invariant accounts for every generation by what the journal *)
(* shows for it: the phase, the verified images, the states of T and B,    *)
(* and the progress of the cleanup.                                        *)
(***************************************************************************)
EXTENDS ImportBudget, TLAPS

Entered ==
    [PREPARED |-> 0, COPYING_IMAGES |-> 1, FILES_READY |-> 2,
     COMMITTING_COLLECTION |-> 3, COLLECTION_COMMITTED |-> 4, ROLLING_BACK |-> 4,
     COMPACTING |-> 5, READY |-> 6]

\* The cleanup of the snapshot comes after that of a backup.
Cleanups ==
    IF op.kind = "NONE" THEN 0
    ELSE (IF op.kind = "SUCCESS_SNAPSHOT" THEN 3 ELSE 0)
            + 1 + op.receipts + (IF op.status = "COMPLETE" THEN 1 ELSE 0)

Counted ==
    /\ work \in Imports /\ phase \in DOMAIN Entered
    /\ generation \in Nat /\ recorded \in 0..4
    /\ tree \in 0..TreeSize /\ verified \in 0..work.images

Operation ==
    /\ op \in [kind : {"NONE", "ROLLBACK_ALL", "BASELINE_BACKUP", "SUCCESS_SNAPSHOT"},
               targets : Nat, receipts : Nat, status : {"NONE", "INTENT", "COMPLETE"}]
    /\ op.receipts <= op.targets
    /\ op.kind = "NONE" => op.status = "NONE"
    /\ op.kind = "BASELINE_BACKUP" => op.targets = 1
    /\ op.kind = "SUCCESS_SNAPSHOT" => op.targets = SnapshotSize
    /\ op.kind = "ROLLBACK_ALL" => op.targets <= TreeSize + SnapshotSize + 2
    /\ phase \in Undecided => op = NoOperation /\ runner # "rollback"

Accounted == generation <= Entered[phase] + verified + recorded + Cleanups

IInv == Counted /\ Operation /\ Accounted

\* What the limits of a package leave for its photos.
LEMMA WorkBounds ==
  ASSUME work \in Imports
  PROVE  /\ work.coins \in 1..100 /\ work.images \in 0..255
         /\ TreeSize \in Nat /\ TreeSize = 2 + work.coins + work.images
BY ImportsAssumption DEF MaxCoins, MaxEntries, TreeSize

\* The first generation is accounted for.
LEMMA IInvInit == Init => IInv
BY WorkBounds DEF Init, IInv, Counted, Operation, Accounted, Entered, Cleanups,
                  NoOperation, Undecided

\* Every step accounts for the generation it writes, if it writes one.
LEMMA IInvStep == IInv /\ [Next]_vars => IInv'
<1> SUFFICES ASSUME IInv, [Next]_vars PROVE IInv'
  OBVIOUS
<1> USE WorkBounds DEF IInv, Counted, Operation, Accounted, Entered, Cleanups,
                       Undecided, NoOperation, TreeSize, SnapshotSize
<1>1. CASE UNCHANGED vars
  BY <1>1 DEF vars
<1>2. CASE StartCopying \/ DeclareCommit
  BY <1>2 DEF StartCopying, DeclareCommit, Enter, Append
<1>3. CASE CopyObject
  BY <1>3 DEF CopyObject
<1>4. CASE VerifyImage
  BY <1>4 DEF VerifyImage, Append
<1>5. CASE FilesReady
  BY <1>5 DEF FilesReady, Enter, Append
<1>6. CASE RecordArtifact
  BY <1>6 DEF RecordArtifact, ArtifactsToPublish, KeepsBackup, Append
<1>7. CASE Publish
  BY <1>7 DEF Publish
<1>8. CASE Commit
  BY <1>8 DEF Commit, Append
<1>9. CASE StartRollback
  BY <1>9 DEF StartRollback, Append
<1>10. CASE RollbackIntent
  BY <1>10 DEF RollbackIntent, Intend, RollbackTargets, Append
<1>11. CASE BackupIntent
  BY <1>11 DEF BackupIntent, Intend, Append
<1>12. CASE SnapshotIntent
  BY <1>12 DEF SnapshotIntent, Intend, Append
<1>13. CASE ReceiptTarget
  BY <1>13 DEF ReceiptTarget, Append
<1>14. CASE CompleteCleanup
  BY <1>14 DEF CompleteCleanup, Append
<1>15. CASE PlanCompaction \/ SealCompaction
  BY <1>15 DEF PlanCompaction, SealCompaction, Append
<1>16. CASE Stop \/ Recover
  BY <1>16 DEF Stop, Recover
<1> QED BY <1>1, <1>2, <1>3, <1>4, <1>5, <1>6, <1>7, <1>8, <1>9, <1>10, <1>11,
           <1>12, <1>13, <1>14, <1>15, <1>16 DEF Next, Forward, Closing

\* No import, however often interrupted, comes near the 512 generations kept in
\* reserve for its closure, which the code takes for granted (limits.py:25).
THEOREM ImportStaysWithinBudget == Spec => []WithinBudget
<1>1. IInv => WithinBudget
  <2> SUFFICES ASSUME IInv PROVE WithinBudget
    OBVIOUS
  <2>1. /\ work.coins \in Nat /\ work.coins <= 100
        /\ work.images \in Nat /\ work.images <= 255
    BY WorkBounds DEF IInv, Counted
  <2>2. /\ Entered[phase] \in 0..6 /\ verified \in 0..work.images
        /\ recorded \in 0..4 /\ generation \in Nat
    BY DEF IInv, Counted, Entered
  <2>3. /\ op.receipts \in Nat /\ op.targets \in Nat /\ op.receipts <= op.targets
        /\ op.kind \in {"NONE", "ROLLBACK_ALL", "BASELINE_BACKUP", "SUCCESS_SNAPSHOT"}
        /\ op.kind = "BASELINE_BACKUP" => op.targets = 1
        /\ op.kind = "SUCCESS_SNAPSHOT" => op.targets = 4
        /\ op.kind = "ROLLBACK_ALL" => op.targets <= TreeSize + 6
    BY <2>1 DEF IInv, Operation, TreeSize, SnapshotSize
  <2>4. Cleanups \in Nat /\ Cleanups <= 10 + work.coins + work.images
    BY <2>1, <2>3 DEF Cleanups, TreeSize
  <2>5. generation <= Entered[phase] + verified + recorded + Cleanups
    BY DEF IInv, Accounted
  <2>6. generation <= 2 * work.images + work.coins + 20
    <3> HIDE DEF Entered, Cleanups
    <3> QED BY <2>1, <2>2, <2>4, <2>5
  <2>7. 2 * work.images + work.coins + 20 <= 3583
    BY <2>1
  <2> QED BY <2>6, <2>7 DEF WithinBudget, ConservativeBound, MaxNormalGeneration
<1> QED BY <1>1, IInvInit, IInvStep, PTL DEF Spec
=============================================================================
