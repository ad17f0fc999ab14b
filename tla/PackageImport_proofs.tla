------------------------ MODULE PackageImport_proofs ------------------------
(***************************************************************************)
(* Theorems about PackageImport, for every set of images, on both          *)
(* platforms, with and without a collection file to keep, and for any      *)
(* number of failures and saves.                                           *)
(*                                                                         *)
(* None of the properties is inductive by itself: whether history may say  *)
(* SUCCEEDED depends on who may still change the collection, and that on   *)
(* the lock and the stage each process has reached.  IInv collects what    *)
(* the steps rely on, one layer on top of the other:                       *)
(*   Turns    the lock decides who works                                   *)
(*   Phased   whoever works has the phase that its stage supposes          *)
(*   Decided  the phase, the audit, the collection and history agree       *)
(*   Placed   where the journal is, given the record                       *)
(*   Imaged   which cleanup may touch images, and when they are complete   *)
(*   Held     the importer's hold on its own snapshot                      *)
(* Each layer is preserved by every step that starts with the layers       *)
(* above it, and the first theorems follow from them.                      *)
(*                                                                         *)
(* The second part is about the journal: what its records let it delete,   *)
(* and that each record is one the rules of the journal allow.  IInv says  *)
(* who works and what was decided; CInv adds what the journal says of the  *)
(* objects on disk:                                                        *)
(*   Orphaning   recovery collects only a snapshot no journal names        *)
(*   Ordered     what each cleanup operation names                         *)
(*   Emptied     what is receipted, rolled back or compacted is gone       *)
(*   Retained    where the bytes of the old collection are                 *)
(* together with EvidenceKept, which is inductive beside them.  Kept, the  *)
(* validity of the newest generation, is carried along: the rules for a    *)
(* successor are about what its predecessor held, and which successors a   *)
(* process may build depends on the stage it is in, which IInv ties to the *)
(* phase.                                                                  *)
(***************************************************************************)
EXTENDS JournalRules, TLAPS

\* The stages of each process, and those of an importer with no journal yet.
ImporterStages == {"start", "preparing", "preview", "cancel", "genesis",
                   "execute", "ended", "success", "compact"}
RecoveryStages == {"idle", "pending", "scan", "orphan", "dispatch", "rollback",
                   "resume", "recompact", "retire", "success", "compact"}
Before == {"start", "preparing", "preview", "cancel", "genesis"}

\* Who may act: the lock, the stages and the life of the maker agree.
Turns ==
    /\ pc["importer"] \in ImporterStages /\ pc["recovery"] \in RecoveryStages
    /\ pc["importer"] \in {"genesis", "execute", "success", "compact"} => lock = "importer"
    /\ lock = "importer" => pc["importer"] \in {"cancel", "genesis", "execute", "success", "compact"}
    /\ pc["recovery"] # "idle" <=> lock = "recovery"
    /\ ~alive => pc["importer"] = "ended"
    /\ pc["recovery"] = "orphan" => ~alive

\* The phase of the newest generation agrees with who is doing what.
Phased ==
    /\ pc["importer"] \in Before => jr.phase = "NONE"
    /\ pc["importer"] = "execute" => jr.phase \in Undecided
    /\ \A p \in Procs : pc[p] = "success" => jr.phase = "COLLECTION_COMMITTED"
    /\ \A p \in Procs : pc[p] = "compact" => jr.phase = "COMPACTING"
    /\ pc["recovery"] = "rollback" => jr.phase = "ROLLING_BACK"
    /\ pc["recovery"] = "resume" => jr.phase \in {"COLLECTION_COMMITTED", "ROLLING_BACK"}
    /\ pc["recovery"] = "recompact" => jr.phase = "COMPACTING"

\* The decision in the journal, the collection and the record agree.
Decided ==
    /\ jr.phase \in Undecided \cup {"NONE"} <=> jr.audit = "none"
    /\ jr.phase = "COLLECTION_COMMITTED" => jr.audit = "SUCCEEDED"
    /\ jr.phase = "ROLLING_BACK" => jr.audit = "ROLLED_BACK"
    /\ jr.audit = "SUCCEEDED" => dest \in Holding
    /\ jr.audit = "ROLLED_BACK" => dest \notin Holding
    /\ jr.audit = "none" /\ dest \in Holding => jr.phase = "COMMITTING_COLLECTION"
    /\ history.state # "none" => jr.phase = "COMPACTING"
    /\ Recorded => history.result = jr.audit

\* Where the authority over the import lies.
Placed ==
    /\ jr.phase = "NONE" => /\ store.chain = 0 /\ store.dir # "retire"
                            /\ store.owner => store.dir = "active"
    /\ jr.phase # "NONE" /\ ~Recorded => store.dir = "active" /\ store.chain > 0 /\ store.owner
    /\ store.dir = "retire" => history.state = "pending"
    /\ history.state = "final" => store.dir = "none"
    /\ history.state # "none" => jr.compaction = "READY"
    /\ jr.compaction # "NONE" => jr.phase = "COMPACTING"
    /\ jr.compaction = "READY" /\ ~Recorded => store.manifest = "final"
    /\ store.dir = "active" /\ Recorded =>
            store.owner /\ store.manifest = "final" /\ store.chain > 0

\* What a cleanup may touch, and the images behind the coins.
Imaged ==
    /\ jr.phase \in Undecided \cup {"NONE"} => jr.op = "NONE" /\ jr.status = "NONE" /\ jr.targets = {}
    /\ jr.op = "ROLLBACK_ALL" => jr.audit = "ROLLED_BACK"
    /\ jr.op # "ROLLBACK_ALL" => jr.targets \cap Tree = {}
    /\ jr.phase \in {"NONE", "PREPARED"} => jr.verified = {}
    /\ jr.phase = "COPYING_IMAGES" /\ jr.verified # {} => TreeWhole
    /\ jr.phase \in {"FILES_READY", "COMMITTING_COLLECTION"} => TreeWhole
    /\ dest \in Holding => TreeWhole

\* The importer's hold on its snapshot up to the cleanup intent.
Held ==
    /\ pc["importer"] = "start" => Snapshot \cap files = {}
    /\ pc["importer"] = "preparing" /\ "lease" \in files => lease = "importer"
    /\ pc["importer"] \in {"preview", "genesis", "execute"} =>
            SnapshotWhole /\ lease = "importer"
    /\ pc["importer"] = "ended" /\ lease = "importer" => alive

\* The inductive invariant.
IInv == TypeOK /\ Turns /\ Phased /\ Decided /\ Placed /\ Imaged /\ Held

-----------------------------------------------------------------------------
(* Turns: the lock decides who works.                                      *)

\* Every step keeps Turns: only the holder of the lock leaves the stages it guards.
LEMMA TurnsStep == TypeOK /\ Turns /\ [Next]_vars => Turns'
<1> SUFFICES ASSUME TypeOK, Turns, [Next]_vars PROVE Turns'
  OBVIOUS
<1> USE DEF Turns, ImporterStages, RecoveryStages
<1>0. pc \in [Procs -> Stages] /\ "importer" \in Procs /\ "recovery" \in Procs
  BY DEF TypeOK, Procs
<1>1. CASE UNCHANGED vars
  BY <1>1 DEF vars
<1>2. CASE Prepare
  <2>1. CASE CreateSnapshot
    <3>1. PICK s \in {"preview", "preparing"} : pc' = [pc EXCEPT !["importer"] = s]
      BY <2>1 DEF CreateSnapshot, Goto
    <3> QED BY <1>0, <2>1, <3>1 DEF CreateSnapshot, bounds
  <2> QED BY <1>0, <1>2, <2>1 DEF Prepare, Cancel, Commit, At, Goto, bounds
<1>3. ASSUME NEW p \in Procs, RemoveUnjournaled(p) PROVE Turns'
  BY <1>0, <1>3 DEF Procs, RemoveUnjournaled, Goto, Freed, bounds
<1>4. CASE CollectionChanged \/ CreateJournalDirectory \/ WriteJournalOwner \/ Genesis
  BY <1>0, <1>4 DEF CollectionChanged, CreateJournalDirectory, WriteJournalOwner, Genesis,
     At, Goto, bounds
<1>5. CASE Execute
  <2>1. CASE RecordCommitted
    BY <1>0, <2>1 DEF RecordCommitted, Committing, Append, At, Goto, bounds
  <2>2. CASE ~RecordCommitted
    <3>1. UNCHANGED <<pc, lock, alive>>
      BY <1>5, <2>2 DEF Execute, StartCopying, MakeImageRoot, WriteMarker, WriteImage,
         RecordImage,
        FilesReady, DeclareCommit, CreateTemporary, RecordTemporary, WriteTemporary, LinkBackup,
        RecordBackup, Publish, RecordExchange, Durable, Writes, bounds
    <3> QED BY <3>1
  <2> QED BY <2>1, <2>2
<1>6. ASSUME NEW p \in Procs, Cleanup(p) PROVE Turns'
  BY <1>0, <1>6 DEF Procs, Cleanup, BackupIntent, SnapshotIntent, RollbackIntent, RemoveTarget,
     ReceiptTarget, CompleteCleanup, Cleaning, Intend, Append, At, Goto, bounds
<1>7. ASSUME NEW p \in Procs, Compaction(p) PROVE Turns'
  BY <1>0, <1>7 DEF Procs, Compaction, StartCompaction, PublishManifest, WritingManifest,
     SealOutcome,
     PublishPending, WritingPending, DeletePartialRecord, RenameForRetirement, DeleteRetired,
     RemoveRetirement, Finalize, Retire, Retiring, Append, At, Goto, LeaveLocked, Freed, Rest,
     bounds
<1>8. CASE StartRecovery \/ ClearStaleLock \/ Exit \/ Save
  BY <1>0, <1>8 DEF StartRecovery, ClearStaleLock, Exit, Save, R, At, Goto, bounds
<1>9. CASE Recover
  <2>1. CASE ResumePending \/ Scan \/ ResumeCompaction \/ ResumeRollback
    BY <1>0, <2>1 DEF ResumePending, Scan, ResumeCompaction, ResumeRollback, Moves, R, At, Goto,
       bounds
  <2>2. CASE CollectOrphan \/ StartRollback \/ RecoverCommitted \/ FinishSuccess
    BY <1>0, <2>2 DEF CollectOrphan, StartRollback, RecoverCommitted, FinishSuccess, Append, R,
       At,
       Goto, bounds
  <2>3. CASE NothingToRecover \/ DeletePartialManifest \/ OutcomeRefused \/ FailClosed
    BY <1>0, <2>3 DEF NothingToRecover, DeletePartialManifest, OutcomeRefused, FailClosed,
       LeaveLocked,
       Freed, Rest, R, At, Goto, bounds
  <2> QED BY <1>9, <2>1, <2>2, <2>3 DEF Recover
<1>10. ASSUME NEW p \in Procs, Abort(p) PROVE Turns'
  BY <1>0, <1>10 DEF Procs, Abort, LeaveLocked, Freed, Rest, At, Goto
<1>11. ASSUME NEW p \in Procs, Crash(p) PROVE Turns'
  BY <1>0, <1>11 DEF Procs, Crash, Freed, Rest, At, Goto
<1> QED
  BY <1>0, <1>1, <1>2, <1>3, <1>4, <1>5, <1>6, <1>7, <1>8, <1>9, <1>10, <1>11
     DEF Next, Importer, Recovering, Environment, R

-----------------------------------------------------------------------------
(* Types.                                                                  *)

\* The members of the snapshot and of the image tree are owned objects.
LEMMA SnapshotOwned == Snapshot \subseteq Owned /\ Tree \subseteq Owned
BY DEF Owned

\* The generation that decides for success is one the journal can hold.
LEMMA CommittedType == ASSUME jr \in Generations PROVE Committed \in Generations
<1>1. PICK b \in BackupStates : b = IF HasBaseline THEN "RETAINED" ELSE "NONE"
  BY DEF BackupStates
<1>2. Committed = [jr EXCEPT !.phase = "COLLECTION_COMMITTED", !.temp = "PUBLISHED",
                            !.backup = b, !.audit = "SUCCEEDED"]
  BY <1>1 DEF Committed
<1> QED BY <1>2 DEF Generations, Phases, TempStates, Results

\* Whatever a step appends, the newest generation has its type.
LEMMA JournalStep == TypeOK /\ [Next]_vars => jr' \in Generations
<1> SUFFICES ASSUME TypeOK, [Next]_vars PROVE jr' \in Generations
  OBVIOUS
<1>0. jr \in Generations /\ files \subseteq Owned
  BY DEF TypeOK
<1>1. CASE UNCHANGED jr
  BY <1>0, <1>1
<1>2. ASSUME Genesis PROVE jr' \in Generations
  BY <1>2 DEF Genesis, Blank, Generations, Phases, TempStates, BackupStates, Results
<1>3. ASSUME Execute PROVE jr' \in Generations
  <2>1. CASE StartCopying
    BY <1>0, <2>1 DEF StartCopying, Durable, Append, Generations, Phases
  <2>2. CASE RecordImage
    <3>1. PICK i \in Images : jr' = [jr EXCEPT !.verified = @ \cup {i}]
      BY <2>2 DEF RecordImage, Durable, Append
    <3> QED BY <1>0, <3>1 DEF Generations
  <2>3. CASE FilesReady
    BY <1>0, <2>3 DEF FilesReady, Durable, Append, Generations, Phases
  <2>4. CASE DeclareCommit
    BY <1>0, <2>4 DEF DeclareCommit, Durable, Append, Generations, Phases, TempStates,
       BackupStates
  <2>5. CASE RecordTemporary
    BY <1>0, <2>5 DEF RecordTemporary, Durable, Append, Generations, TempStates
  <2>6. CASE RecordBackup
    BY <1>0, <2>6 DEF RecordBackup, Durable, Append, Generations, BackupStates
  <2>7. CASE RecordExchange
    BY <1>0, <2>7 DEF RecordExchange, Durable, Append, Generations, TempStates, BackupStates
  <2>8. CASE RecordCommitted
    BY <1>0, <2>8, CommittedType DEF RecordCommitted, Append
  <2> QED BY <1>0, <1>3, <2>1, <2>2, <2>3, <2>4, <2>5, <2>6, <2>7, <2>8
       DEF Execute, MakeImageRoot, WriteMarker, WriteImage, Writes, CreateTemporary,
          WriteTemporary,
           LinkBackup, Publish
<1>4. ASSUME NEW p \in Procs, Cleanup(p) PROVE jr' \in Generations
  <2>1. \A S \in SUBSET Owned, k \in {"BASELINE_BACKUP", "SUCCESS_SNAPSHOT", "ROLLBACK_ALL"} :
          Intend(p, k, S) => jr' \in Generations
    BY <1>0 DEF Intend, Append, Generations
  <2>2. BackupName \in Owned /\ RollbackTargets \in SUBSET Owned /\ Snapshot \in SUBSET Owned
    BY <1>0, SnapshotOwned DEF BackupName, RollbackTargets, Owned
  <2>3. CASE BackupIntent(p)
    BY <2>1, <2>2, <2>3 DEF BackupIntent
  <2>4. CASE SnapshotIntent(p)
    BY <2>1, <2>2, <2>4 DEF SnapshotIntent
  <2>5. CASE RollbackIntent(p)
    BY <2>1, <2>2, <2>5 DEF RollbackIntent
  <2>6. CASE ReceiptTarget(p)
    <3>1. PICK o \in Owing : jr' = [jr EXCEPT
             !.receipts = @ \cup {o},
             !.backup = IF jr.op = "BASELINE_BACKUP" THEN "CLEANED" ELSE @,
             !.snapRef = @ /\ o \notin Snapshot
                           /\ ~(At(p, "resume") /\ jr.op # "BASELINE_BACKUP")]
      BY <2>6 DEF ReceiptTarget, Append
    <3>2. PICK b \in BOOLEAN, k \in BackupStates :
              jr' = [jr EXCEPT !.receipts = @ \cup {o}, !.backup = k, !.snapRef = b]
      <4>1. (IF jr.op = "BASELINE_BACKUP" THEN "CLEANED" ELSE jr.backup) \in BackupStates
        BY <1>0 DEF Generations, BackupStates
      <4>2. (jr.snapRef /\ o \notin Snapshot
                           /\ ~(At(p, "resume") /\ jr.op # "BASELINE_BACKUP")) \in BOOLEAN
        OBVIOUS
      <4> QED BY <3>1, <4>1, <4>2
    <3>3. o \in Owned
      BY <1>0 DEF Owing, Generations
    <3> QED BY <1>0, <3>2, <3>3 DEF Generations
  <2>7. CASE CompleteCleanup(p)
    BY <1>0, <2>7 DEF CompleteCleanup, Append, Generations
  <2> QED BY <1>0, <1>4, <2>3, <2>4, <2>5, <2>6, <2>7 DEF Cleanup, RemoveTarget
<1>5. ASSUME NEW p \in Procs, Compaction(p) PROVE jr' \in Generations
  <2>1. CASE StartCompaction(p)
    BY <1>0, <2>1 DEF StartCompaction, Append, Generations, Phases, TempStates, BackupStates
  <2>2. CASE SealOutcome(p)
    BY <1>0, <2>2 DEF SealOutcome, Append, Generations
  <2> QED BY <1>0, <1>5, <2>1, <2>2 DEF Compaction, PublishManifest, PublishPending,
     DeletePartialRecord,
        RenameForRetirement, DeleteRetired, RemoveRetirement, Finalize, Retire
<1>6. ASSUME Recover PROVE jr' \in Generations
  <2>1. CASE StartRollback
    BY <1>0, <2>1 DEF StartRollback, Append, Generations, Phases, Results
  <2>2. CASE RecoverCommitted
    BY <1>0, <2>2, CommittedType DEF RecoverCommitted, Append
  <2> QED BY <1>0, <1>6, <2>1, <2>2 DEF Recover, ResumePending, Scan, ResumeCompaction,
     ResumeRollback, Moves,
        CollectOrphan, FinishSuccess, NothingToRecover, FailClosed, DeletePartialManifest,
        OutcomeRefused
<1> QED
  BY <1>1, <1>2, <1>3, <1>4, <1>5, <1>6
     DEF Next, Prepare, Importer, Recovering, Environment, R, vars, Procs, CreateSnapshot,
        Cancel, Commit,
         RemoveUnjournaled, CollectionChanged, CreateJournalDirectory, WriteJournalOwner,
         StartRecovery, ClearStaleLock, Exit, Save, Abort, Crash

\* Every step keeps the type invariant.
LEMMA TypeOKStep == TypeOK /\ [Next]_vars => TypeOK'
<1> SUFFICES ASSUME TypeOK, [Next]_vars PROVE TypeOK'
  OBVIOUS
<1>0. /\ dest \in Collections /\ temp \in TempBytes /\ files \subseteq Owned
      /\ store \in Stores /\ history \in Histories
      /\ pc \in [Procs -> Stages] /\ lock \in Procs \cup {"free", "stale"}
      /\ lease \in Procs \cup {"free"}
      /\ alive \in BOOLEAN /\ failures \in Nat /\ saves \in Nat
      /\ "importer" \in Procs /\ "recovery" \in Procs
      /\ jr' \in Generations
  BY JournalStep DEF TypeOK, Procs
<1>1. \A p, q \in Procs : Freed(lease, p) \in Procs \cup {"free"}
                          /\ Freed(lock, p) \in Procs \cup {"free", "stale"}
  BY <1>0 DEF Freed
<1>2. \A p \in Procs, s \in Stages : [pc EXCEPT ![p] = s] \in [Procs -> Stages]
  BY <1>0
<1>3. \A p, g : Append(p, g) => store' \in Stores
  BY <1>0 DEF Append, Stores
<1>4. jr.audit \in Results
  BY DEF TypeOK, Generations
<1>5. CASE UNCHANGED vars
  BY <1>5 DEF vars, TypeOK
<1>6. CASE Prepare
  <2>1. CASE CreateSnapshot
    <3>1. PICK o \in Snapshot \ files :
              /\ \A q \in Snapshot \ files : Rank(q) <= Rank(o)
              /\ files' = files \cup {o}
              /\ lease' = IF o = "lease" THEN "importer" ELSE lease
              /\ Goto("importer", IF o = "package" THEN "preview" ELSE "preparing")
      BY <2>1, Zenon DEF CreateSnapshot
    <3>2. files' \subseteq Owned
      BY <1>0, <3>1, SnapshotOwned
    <3> QED BY <1>0, <1>2, <2>1, <3>1, <3>2 DEF CreateSnapshot, Goto, bounds, TypeOK, Stages
  <2> QED BY <1>0, <1>2, <1>6, <2>1 DEF Prepare, Cancel, Commit, Goto, bounds, TypeOK, Stages
<1>7. ASSUME NEW p \in Procs, RemoveUnjournaled(p) PROVE TypeOK'
  <2>1. files' \subseteq Owned /\ lease' \in Procs \cup {"free"}
    BY <1>0, <1>1, <1>7 DEF RemoveUnjournaled
  <2>2. pc' \in [Procs -> Stages] /\ lock' \in Procs \cup {"free", "stale"}
    BY <1>0, <1>1, <1>2, <1>7 DEF RemoveUnjournaled, Goto, Stages
  <2> QED BY <1>0, <1>7, <2>1, <2>2 DEF RemoveUnjournaled, bounds, TypeOK
<1>8. CASE CollectionChanged \/ CreateJournalDirectory \/ WriteJournalOwner \/ Genesis
  <2>1. pc' \in [Procs -> Stages]
    BY <1>0, <1>2, <1>8 DEF CollectionChanged, CreateJournalDirectory, WriteJournalOwner,
       Genesis, Goto, Stages
  <2>2. store' \in Stores
    <3>1. CASE CollectionChanged
      BY <1>0, <3>1 DEF CollectionChanged
    <3>2. CASE CreateJournalDirectory
      BY <1>0, <3>2 DEF CreateJournalDirectory, Stores
    <3>3. CASE WriteJournalOwner
      BY <1>0, <3>3 DEF WriteJournalOwner, Stores
    <3>4. CASE Genesis
      BY <1>0, <3>4 DEF Genesis, Stores
    <3> QED BY <1>8, <3>1, <3>2, <3>3, <3>4
  <2> QED BY <1>0, <1>8, <2>1, <2>2 DEF CollectionChanged, CreateJournalDirectory,
     WriteJournalOwner, Genesis,
       bounds, TypeOK
<1>9. CASE Execute
  <2>1. ASSUME NEW g, Durable(g) PROVE TypeOK'
    BY <1>0, <1>3, <2>1 DEF Durable, TypeOK, bounds
  <2>2. ASSUME NEW o \in Tree, Writes(o) PROVE TypeOK'
    BY <1>0, <2>2, SnapshotOwned DEF Writes, TypeOK, bounds
  <2>3. CASE CreateTemporary \/ WriteTemporary \/ LinkBackup \/ Publish
    BY <1>0, <2>3 DEF CreateTemporary, WriteTemporary, LinkBackup, Publish, TypeOK, bounds,
       TempBytes,
       Collections, Owned
  <2>4. CASE RecordCommitted
    BY <1>0, <1>2, <1>3, <2>4 DEF RecordCommitted, Goto, TypeOK, bounds, Stages
  <2>5. CASE MakeImageRoot \/ WriteMarker \/ WriteImage
    BY <2>2, <2>5 DEF MakeImageRoot, WriteMarker, WriteImage, Tree
  <2> QED BY <1>9, <2>1, <2>3, <2>4, <2>5 DEF Execute, StartCopying, RecordImage, FilesReady,
     DeclareCommit,
       RecordTemporary, RecordBackup, RecordExchange
<1>10. ASSUME NEW p \in Procs, Cleanup(p) PROVE TypeOK'
  <2>1. CASE RemoveTarget(p)
    BY <1>0, <2>1 DEF RemoveTarget, TypeOK, bounds, TempBytes
  <2>2. CASE BackupIntent(p)
    BY <1>0, <1>3, <2>2 DEF BackupIntent, Intend, bounds, TypeOK
  <2>3. CASE SnapshotIntent(p)
    BY <1>0, <1>1, <1>2, <1>3, <2>3 DEF SnapshotIntent, Intend, Goto, bounds, TypeOK, Stages
  <2>4. CASE RollbackIntent(p)
    BY <1>0, <1>1, <1>3, <2>4 DEF RollbackIntent, Intend, bounds, TypeOK
  <2>5. CASE ReceiptTarget(p) \/ CompleteCleanup(p)
    BY <1>0, <1>3, <2>5 DEF ReceiptTarget, CompleteCleanup, bounds, TypeOK
  <2> QED BY <1>10, <2>1, <2>2, <2>3, <2>4, <2>5 DEF Cleanup
<1>11. ASSUME NEW p \in Procs, Compaction(p) PROVE TypeOK'
  <2>1. CASE StartCompaction(p) \/ SealOutcome(p)
    BY <1>0, <1>2, <1>3, <2>1 DEF StartCompaction, SealOutcome, Goto, Stages, bounds, TypeOK
  <2>2. CASE PublishManifest(p)
    BY <1>0, <2>2 DEF PublishManifest, Stores, bounds, TypeOK
  <2>3. CASE PublishPending(p) \/ DeletePartialRecord(p)
    BY <1>0, <1>4, <2>3 DEF PublishPending, DeletePartialRecord, Histories, bounds, TypeOK
  <2>4. CASE RenameForRetirement(p) \/ DeleteRetired(p) \/ RemoveRetirement(p)
    <3>1. store' \in Stores
      <4>1. CASE RenameForRetirement(p)
        BY <1>0, <4>1 DEF RenameForRetirement, Retire, Stores
      <4>2. CASE RemoveRetirement(p)
        BY <1>0, <4>2 DEF RemoveRetirement, Retire, Stores
      <4>3. CASE DeleteRetired(p)
        <5>1. CASE store.chain > 0 /\ store' = [store EXCEPT !.chain = @ - 1]
          BY <1>0, <5>1 DEF Stores
        <5>2. CASE store' = [store EXCEPT !.owner = FALSE]
          BY <1>0, <5>2 DEF Stores
        <5>3. CASE store' = [store EXCEPT !.manifest = "none"]
          BY <1>0, <5>3 DEF Stores
        <5> QED BY <4>3, <5>1, <5>2, <5>3 DEF DeleteRetired, Retire
      <4> QED BY <2>4, <4>1, <4>2, <4>3
    <3> QED BY <1>0, <2>4, <3>1 DEF RenameForRetirement, DeleteRetired, RemoveRetirement, Retire,
       bounds, TypeOK
  <2>5. CASE Finalize(p)
    <3>1. history' \in Histories
      BY <1>0, <2>5 DEF Finalize, Histories
    <3>2. /\ pc' \in [Procs -> Stages]
          /\ lock' \in Procs \cup {"free", "stale"}
          /\ lease' \in Procs \cup {"free"}
      BY <1>0, <1>1, <1>2, <2>5 DEF Finalize, LeaveLocked, Goto, Rest, Stages
    <3> QED BY <1>0, <2>5, <3>1, <3>2 DEF Finalize, bounds, TypeOK
  <2> QED BY <1>11, <2>1, <2>2, <2>3, <2>4, <2>5 DEF Compaction
<1>12. CASE StartRecovery \/ ClearStaleLock \/ Exit \/ Save
  <2>1. CASE StartRecovery
    BY <1>0, <1>2, <2>1 DEF StartRecovery, R, Goto, bounds, TypeOK, Stages
  <2>2. CASE ClearStaleLock
    BY <1>0, <2>2 DEF ClearStaleLock, bounds, TypeOK
  <2>3. CASE Exit
    BY <1>0, <1>1, <2>3 DEF Exit, TypeOK
  <2>4. CASE Save
    <3>1. dest' \in Collections
      BY <2>4 DEF Save, Collections
    <3> QED BY <1>0, <2>4, <3>1 DEF Save, TypeOK
  <2> QED BY <1>12, <2>1, <2>2, <2>3, <2>4
<1>13. CASE Recover
  <2>1. ASSUME NEW a, NEW b \in Stages, Moves(a, b) PROVE TypeOK'
    BY <1>0, <1>2, <2>1 DEF Moves, R, Goto, bounds, TypeOK
  <2>2. CASE ResumePending \/ Scan \/ ResumeCompaction \/ ResumeRollback
    BY <2>1, <2>2 DEF ResumePending, Scan, ResumeCompaction, ResumeRollback, Stages
  <2>3. CASE StartRollback \/ RecoverCommitted
    BY <1>0, <1>2, <1>3, <2>3 DEF StartRollback, RecoverCommitted, R, Goto, bounds, TypeOK, Stages
  <2>4. CASE CollectOrphan \/ FinishSuccess
    BY <1>0, <1>2, <2>4 DEF CollectOrphan, FinishSuccess, R, Goto, bounds, TypeOK, Stages
  <2>5. CASE NothingToRecover \/ FailClosed \/ DeletePartialManifest \/ OutcomeRefused
    <3>1. LeaveLocked(R) /\ UNCHANGED <<dest, temp, files>> /\ UNCHANGED bounds
      BY <2>5 DEF NothingToRecover, FailClosed, DeletePartialManifest, OutcomeRefused
    <3>2. store' \in Stores /\ history' \in Histories
      BY <1>0, <2>5 DEF NothingToRecover, FailClosed, DeletePartialManifest, OutcomeRefused,
         Stores, Histories
    <3>3. /\ pc' \in [Procs -> Stages]
          /\ lock' \in Procs \cup {"free", "stale"}
          /\ lease' \in Procs \cup {"free"}
      BY <1>0, <1>1, <1>2, <3>1 DEF LeaveLocked, Goto, Rest, R, Stages
    <3> QED BY <1>0, <3>1, <3>2, <3>3 DEF bounds, TypeOK
  <2> QED BY <1>13, <2>2, <2>3, <2>4, <2>5 DEF Recover
<1>14. ASSUME NEW p \in Procs, Abort(p) \/ Crash(p) PROVE TypeOK'
  <2>1. store' \in Stores /\ history' \in Histories
    <3>1. Torn(p)
      BY <1>14 DEF Abort, Crash
    <3> QED BY <1>0, <1>4, <3>1 DEF Torn, Stores, Histories
  <2>2. /\ pc' \in [Procs -> Stages]
        /\ lock' \in Procs \cup {"free", "stale"}
        /\ lease' \in Procs \cup {"free"}
    <3>1. CASE Abort(p)
      <4>1. CASE pc[p] \in {"genesis", "cancel"}
        <5>1. PICK s \in {"preview", "ended"} : pc' = [pc EXCEPT ![p] = s]
          BY <3>1, <4>1 DEF Abort, Goto
        <5> QED BY <1>0, <1>1, <1>2, <3>1, <4>1, <5>1 DEF Abort, Stages
      <4>2. CASE pc[p] \notin {"genesis", "cancel"}
        BY <1>0, <1>1, <1>2, <3>1, <4>2 DEF Abort, LeaveLocked, Goto, Rest, Stages
      <4> QED BY <4>1, <4>2
    <3>2. CASE Crash(p)
      BY <1>0, <1>1, <1>2, <3>2 DEF Crash, Goto, Rest, Stages
    <3> QED BY <1>14, <3>1, <3>2
  <2>3. files' \subseteq Owned /\ UNCHANGED <<dest, temp>>
    BY <1>0, <1>14 DEF Abort, Crash
  <2>4. failures' \in Nat /\ saves' \in Nat /\ alive' \in BOOLEAN
    <3>1. CASE Abort(p)
      BY <1>0, <3>1 DEF Abort, Fails
    <3>2. CASE Crash(p)
      <4>1. alive' = FALSE \/ alive' = alive
        BY <3>2 DEF Crash
      <4>2. failures' = failures + 1 /\ saves' = saves
        BY <3>2 DEF Crash, Fails
      <4>3. alive' \in BOOLEAN
        BY <1>0, <4>1, Zenon
      <4>4. failures' \in Nat /\ saves' \in Nat
        BY <1>0, <4>2, SMT
      <4> QED BY <4>3, <4>4
    <3> QED BY <1>14, <3>1, <3>2
  <2> QED BY <1>0, <2>1, <2>2, <2>3, <2>4 DEF TypeOK
<1> QED
  BY <1>5, <1>6, <1>7, <1>8, <1>9, <1>10, <1>11, <1>12, <1>13, <1>14
     DEF Next, Importer, Recovering, Environment, R, Procs

\* The initial state has its type.
LEMMA InitTypeOK == Init => TypeOK
<1> SUFFICES ASSUME Init PROVE TypeOK
  OBVIOUS
<1>1. jr \in Generations
  BY DEF Init, Blank, Generations, Phases, TempStates, BackupStates, Results
<1>2. store \in Stores /\ history \in Histories
  BY DEF Init, Stores, Histories, Results
<1>3. pc \in [Procs -> Stages]
  BY DEF Init, Procs, Stages
<1> QED BY <1>1, <1>2, <1>3 DEF Init, TypeOK, Collections, TempBytes

\* Every reachable state has its type.
THEOREM TypeCorrect == Spec => []TypeOK
<1>1. TypeOK /\ [Next]_vars => TypeOK'
  BY TypeOKStep
<1> QED BY InitTypeOK, <1>1, PTL DEF Spec

-----------------------------------------------------------------------------
(* What the groups of actions leave alone.                                 *)

\* A step of a cleanup keeps the phase and the decision.
LEMMA CleanupKeeps ==
  ASSUME TypeOK, NEW p \in Procs, Cleanup(p)
  PROVE  /\ jr'.phase = jr.phase /\ jr'.audit = jr.audit
         /\ jr'.verified = jr.verified /\ jr'.compaction = jr.compaction
         /\ UNCHANGED <<dest, history, lock, alive>>
         /\ store'.dir = store.dir /\ store'.owner = store.owner
         /\ store'.manifest = store.manifest /\ store'.chain >= store.chain
         /\ lock = p /\ pc[p] \in {"success", "rollback", "resume"}
         /\ \/ pc' = pc
            \/ pc' = [pc EXCEPT ![p] = "success"] /\ jr.phase = "COLLECTION_COMMITTED"
<1>0. jr \in Generations /\ store \in Stores /\ pc \in [Procs -> Stages]
  BY DEF TypeOK
<1>1. /\ UNCHANGED <<dest, history, lock, alive>>
      /\ pc[p] \in {"success", "rollback", "resume"} /\ lock = p
      /\ \/ pc' = pc
         \/ pc' = [pc EXCEPT ![p] = "success"] /\ jr.phase = "COLLECTION_COMMITTED"
  <2>1. CASE BackupIntent(p) \/ SnapshotIntent(p) \/ RollbackIntent(p)
    BY <1>0, <2>1 DEF BackupIntent, SnapshotIntent, RollbackIntent, Intend, Append, At, Goto,
       bounds
  <2>2. CASE RemoveTarget(p) \/ ReceiptTarget(p) \/ CompleteCleanup(p)
    BY <1>0, <2>2 DEF RemoveTarget, ReceiptTarget, CompleteCleanup, Cleaning, bounds
  <2> QED BY <2>1, <2>2 DEF Cleanup
<1>2. /\ store'.dir = store.dir /\ store'.owner = store.owner
      /\ store'.manifest = store.manifest /\ store'.chain >= store.chain
  <2>1. ASSUME NEW g, Append(p, g)
        PROVE  /\ store'.dir = store.dir /\ store'.owner = store.owner
               /\ store'.manifest = store.manifest /\ store'.chain >= store.chain
    BY <1>0, <2>1 DEF Append, Stores
  <2>2. store.chain >= store.chain
    BY <1>0 DEF Stores
  <2> QED BY <2>1, <2>2 DEF Cleanup, BackupIntent, SnapshotIntent, RollbackIntent, Intend,
     RemoveTarget, ReceiptTarget, CompleteCleanup
<1>3. /\ jr'.phase = jr.phase /\ jr'.audit = jr.audit
      /\ jr'.verified = jr.verified /\ jr'.compaction = jr.compaction
  <2>1. ASSUME NEW k, NEW S, Intend(p, k, S)
        PROVE  /\ jr'.phase = jr.phase /\ jr'.audit = jr.audit
               /\ jr'.verified = jr.verified /\ jr'.compaction = jr.compaction
    BY <1>0, <2>1 DEF Intend, Append, Generations
  <2>2. CASE BackupIntent(p) \/ SnapshotIntent(p) \/ RollbackIntent(p)
    BY <2>1, <2>2 DEF BackupIntent, SnapshotIntent, RollbackIntent
  <2>3. CASE RemoveTarget(p)
    BY <2>3 DEF RemoveTarget
  <2>4. CASE ReceiptTarget(p)
    BY <1>0, <2>4 DEF ReceiptTarget, Append, Generations
  <2>5. CASE CompleteCleanup(p)
    BY <1>0, <2>5 DEF CompleteCleanup, Append, Generations
  <2> QED BY <2>2, <2>3, <2>4, <2>5 DEF Cleanup
<1> QED BY <1>1, <1>2, <1>3

\* A step of compaction and retirement keeps the decision and the cleanup.
LEMMA CompactionKeeps ==
  ASSUME TypeOK, NEW p \in Procs, Compaction(p)
  PROVE  /\ jr'.audit = jr.audit /\ jr'.verified = jr.verified
         /\ jr'.op = jr.op /\ jr'.status = jr.status /\ jr'.targets = jr.targets
         /\ jr'.phase = jr.phase \/ jr'.phase = "COMPACTING"
         /\ UNCHANGED <<dest, temp, files, alive>>
<1>0. jr \in Generations
  BY DEF TypeOK
<1>1. CASE StartCompaction(p)
  BY <1>0, <1>1 DEF StartCompaction, Append, Generations, bounds
<1>2. CASE SealOutcome(p)
  BY <1>0, <1>2 DEF SealOutcome, Append, Generations, bounds
<1>3. CASE ~StartCompaction(p) /\ ~SealOutcome(p)
  <2>1. jr' = jr /\ UNCHANGED <<dest, temp, files, alive>>
    BY <1>3 DEF Compaction, PublishManifest, PublishPending, DeletePartialRecord,
       RenameForRetirement, DeleteRetired, RemoveRetirement, Finalize, Retire, bounds
  <2> QED BY <2>1
<1> QED BY <1>1, <1>2, <1>3

-----------------------------------------------------------------------------
(* Phased: a stage supposes a phase.                                       *)

\* Every step keeps Phased: a stage is entered with its phase, and no other
\* process may change the phase meanwhile.
LEMMA PhasedStep == TypeOK /\ Turns /\ Phased /\ [Next]_vars => Phased'
<1> SUFFICES ASSUME TypeOK, Turns, Phased, [Next]_vars PROVE Phased'
  OBVIOUS
<1> USE DEF Phased, ImporterStages, RecoveryStages, Before, Undecided
<1>0. /\ pc \in [Procs -> Stages] /\ Procs = {"importer", "recovery"}
      /\ jr \in Generations
  BY DEF TypeOK, Procs
<1>a. /\ pc["importer"] \in ImporterStages /\ pc["recovery"] \in RecoveryStages
      /\ lock = "recovery" => pc["importer"] \notin {"genesis", "execute", "success", "compact"}
      /\ lock = "importer" => pc["recovery"] = "idle" /\ pc["importer"] # "ended"
      /\ pc["recovery"] # "idle" => lock = "recovery"
  BY DEF Turns
<1>1. CASE UNCHANGED vars
  BY <1>1 DEF vars
<1>2. CASE Prepare
  <2>1. CASE CreateSnapshot
    <3>1. PICK s \in {"preview", "preparing"} : pc' = [pc EXCEPT !["importer"] = s]
      BY <2>1 DEF CreateSnapshot, Goto
    <3>2. jr' = jr /\ pc["importer"] \in Before
      BY <2>1 DEF CreateSnapshot
    <3> QED BY <1>0, <1>a, <3>1, <3>2
  <2> QED BY <1>0, <1>a, <1>2, <2>1 DEF Prepare, Cancel, Commit, At, Goto, bounds
<1>3. ASSUME NEW p \in Procs, RemoveUnjournaled(p) PROVE Phased'
  BY <1>0, <1>a, <1>3 DEF RemoveUnjournaled, Goto
<1>4. CASE CollectionChanged \/ CreateJournalDirectory \/ WriteJournalOwner
  BY <1>0, <1>a, <1>4 DEF CollectionChanged, CreateJournalDirectory, WriteJournalOwner, At, Goto
<1>5. CASE Genesis
  <2>1. /\ jr'.phase = "PREPARED"
        /\ pc' = [pc EXCEPT !["importer"] = "execute"]
        /\ pc["recovery"] = "idle"
    BY <1>a, <1>5 DEF Genesis, Blank, At, Goto, Turns
  <2> QED BY <1>0, <2>1
<1>6. CASE Execute
  <2>0. pc["importer"] = "execute" /\ pc["recovery"] = "idle"
    BY <1>6, <1>a DEF Execute, StartCopying, MakeImageRoot, WriteMarker, WriteImage, RecordImage,
        FilesReady, DeclareCommit, CreateTemporary, RecordTemporary, WriteTemporary, LinkBackup,
        RecordBackup, Publish, RecordExchange, RecordCommitted, Durable, Writes, Committing, At,
        Turns
  <2>1. CASE RecordCommitted
    <3>1. jr'.phase = "COLLECTION_COMMITTED"
      BY <1>0, <2>1 DEF RecordCommitted, Append, Committed, Generations
    <3> QED BY <1>0, <1>a, <2>0, <2>1, <3>1 DEF RecordCommitted, Goto
  <2>2. CASE ~RecordCommitted
    <3>1. pc' = pc
      BY <1>6, <2>2 DEF Execute, StartCopying, MakeImageRoot, WriteMarker, WriteImage,
         RecordImage,
        FilesReady, DeclareCommit, CreateTemporary, RecordTemporary, WriteTemporary, LinkBackup,
        RecordBackup, Publish, RecordExchange, Durable, Writes
    <3>2. jr'.phase \in Undecided
      <4>1. CASE StartCopying \/ FilesReady \/ DeclareCommit \/ RecordExchange
        BY <1>0, <4>1 DEF StartCopying, FilesReady, DeclareCommit, RecordExchange, Durable,
           Append, Committing, Generations
      <4>2. CASE RecordImage \/ RecordTemporary \/ RecordBackup
        BY <1>0, <4>2 DEF RecordImage, RecordTemporary, RecordBackup, Durable, Append,
           Committing, Generations
      <4> QED BY <1>6, <2>0, <2>2, <4>1, <4>2 DEF Execute, MakeImageRoot, WriteMarker,
         WriteImage, Writes,
            CreateTemporary, WriteTemporary, LinkBackup, Publish
    <3> QED BY <2>0, <3>1, <3>2, <1>0
  <2> QED BY <2>1, <2>2
<1>7. ASSUME NEW p \in Procs, Cleanup(p) PROVE Phased'
  <2>1. jr'.phase = jr.phase
    BY <1>7, CleanupKeeps
  <2>2. pc' = pc \/ (pc' = [pc EXCEPT ![p] = "success"] /\ jr.phase = "COLLECTION_COMMITTED"
                     /\ pc[p] \in {"success", "rollback", "resume"})
    BY <1>7, CleanupKeeps
  <2> QED BY <1>0, <1>a, <2>1, <2>2
<1>8. ASSUME NEW p \in Procs, Compaction(p) PROVE Phased'
  <2>1. CASE StartCompaction(p)
    <3>1. jr'.phase = "COMPACTING" /\ lock = p /\ pc' = [pc EXCEPT ![p] = "compact"]
          /\ jr.phase \in {"COLLECTION_COMMITTED", "ROLLING_BACK"}
      BY <1>0, <2>1 DEF StartCompaction, Append, Generations, Goto
    <3> QED BY <1>0, <1>a, <3>1
  <2>2. CASE Finalize(p)
    BY <1>0, <1>a, <2>2 DEF Finalize, Retiring, At, Goto, LeaveLocked, Rest
  <2>3. CASE SealOutcome(p)
    <3>1. jr'.phase = jr.phase /\ pc' = pc
      BY <1>0, <2>3 DEF SealOutcome, Append, Generations
    <3> QED BY <3>1
  <2> QED BY <1>8, <2>1, <2>2, <2>3 DEF Compaction, PublishManifest, PublishPending,
     DeletePartialRecord,
        RenameForRetirement, DeleteRetired, RemoveRetirement, Retire
<1>9. CASE StartRecovery \/ ClearStaleLock \/ Exit \/ Save
  BY <1>0, <1>a, <1>9 DEF StartRecovery, ClearStaleLock, Exit, Save, R, At, Goto
<1>10. CASE Recover
  <2>1. CASE ResumePending \/ Scan \/ ResumeCompaction \/ ResumeRollback \/ CollectOrphan \/ FinishSuccess
    BY <1>0, <1>a, <2>1 DEF ResumePending, Scan, ResumeCompaction, ResumeRollback, CollectOrphan,
       FinishSuccess, Moves, R, At, AtHead, Goto
  <2>2. CASE StartRollback
    <3>1. /\ jr'.phase = "ROLLING_BACK"
          /\ lock = "recovery"
          /\ pc' = [pc EXCEPT !["recovery"] = "rollback"]
          /\ jr.phase \in Undecided
      BY <1>0, <2>2 DEF StartRollback, Append, Generations, Goto, R, AtHead
    <3> QED BY <1>0, <1>a, <3>1
  <2>3. CASE RecoverCommitted
    <3>1. /\ jr'.phase = "COLLECTION_COMMITTED"
          /\ lock = "recovery"
          /\ pc' = pc
          /\ pc["recovery"] = "dispatch"
          /\ jr.phase \in Undecided
      BY <1>0, <2>3 DEF RecoverCommitted, Committed, Append, Generations, R, AtHead, At
    <3> QED BY <1>0, <1>a, <3>1
  <2>4. CASE NothingToRecover \/ DeletePartialManifest \/ OutcomeRefused \/ FailClosed
    BY <1>0, <1>a, <2>4 DEF NothingToRecover, DeletePartialManifest, OutcomeRefused, FailClosed,
       LeaveLocked, Rest, R, At, Goto
  <2> QED BY <1>10, <2>1, <2>2, <2>3, <2>4 DEF Recover
<1>11. ASSUME NEW p \in Procs, Abort(p) \/ Crash(p) PROVE Phased'
  <2>1. jr' = jr
    BY <1>11 DEF Abort, Crash
  <2>2. \/ pc' = [pc EXCEPT ![p] = Rest(p)]
        \/ pc[p] = "genesis" /\ pc' = [pc EXCEPT ![p] = "preview"]
        \/ pc[p] = "cancel" /\ pc' = [pc EXCEPT ![p] = "ended"]
    BY <1>11 DEF Abort, Crash, LeaveLocked, Goto, At
  <2> QED BY <1>0, <1>a, <2>1, <2>2 DEF Rest
<1> QED
  BY <1>0, <1>1, <1>2, <1>3, <1>4, <1>5, <1>6, <1>7, <1>8, <1>9, <1>10, <1>11
     DEF Next, Importer, Recovering, Environment, R

-----------------------------------------------------------------------------
(* Decided: the journal, the collection and history agree.                 *)

\* What a step of the transaction may do to the decision.
LEMMA ExecuteKeeps ==
  ASSUME TypeOK, Execute
  PROVE  /\ pc["importer"] = "execute"
         /\ UNCHANGED <<history, lock, lease, alive>>
         /\ store'.dir = store.dir /\ store'.owner = store.owner
         /\ store'.manifest = store.manifest /\ store'.chain >= store.chain
         /\ jr'.op = jr.op /\ jr'.status = jr.status /\ jr'.targets = jr.targets
         /\ jr'.compaction = jr.compaction
         /\ jr'.phase = jr.phase \/ jr'.phase \in Phases \ {"NONE", "PREPARED", "COMPACTING"}
         /\ files \subseteq files'
<1>0. jr \in Generations /\ store \in Stores
  BY DEF TypeOK
<1>1. ASSUME NEW p, NEW g, Append(p, g)
      PROVE  /\ store'.dir = store.dir /\ store'.owner = store.owner
             /\ store'.manifest = store.manifest /\ store'.chain >= store.chain
  BY <1>0, <1>1 DEF Append, Stores
<1>2. store.chain >= store.chain
  BY <1>0 DEF Stores
<1>3. /\ pc["importer"] = "execute" /\ UNCHANGED <<history, lock, lease, alive>>
      /\ files \subseteq files'
  BY DEF Execute, StartCopying, MakeImageRoot, WriteMarker, WriteImage, RecordImage,
        FilesReady, DeclareCommit, CreateTemporary, RecordTemporary, WriteTemporary, LinkBackup,
        RecordBackup, Publish, RecordExchange, RecordCommitted, Durable, Writes, Committing, At,
        bounds
<1>4. /\ store'.dir = store.dir /\ store'.owner = store.owner
      /\ store'.manifest = store.manifest /\ store'.chain >= store.chain
  <2>1. store' = store \/ \E g : Append("importer", g)
    BY DEF Execute, StartCopying, MakeImageRoot, WriteMarker, WriteImage, RecordImage,
        FilesReady, DeclareCommit, CreateTemporary, RecordTemporary, WriteTemporary, LinkBackup,
        RecordBackup, Publish, RecordExchange, RecordCommitted, Durable, Writes
  <2> QED BY <1>1, <1>2, <2>1
<1>5. /\ jr'.op = jr.op /\ jr'.status = jr.status /\ jr'.targets = jr.targets
      /\ jr'.compaction = jr.compaction
      /\ jr'.phase = jr.phase \/ jr'.phase \in Phases \ {"NONE", "PREPARED", "COMPACTING"}
  <2>1. CASE StartCopying \/ FilesReady \/ DeclareCommit \/ RecordExchange
    BY <1>0, <2>1 DEF StartCopying, FilesReady, DeclareCommit, RecordExchange, Durable, Append,
       Generations, Phases
  <2>2. CASE RecordImage \/ RecordTemporary \/ RecordBackup
    BY <1>0, <2>2 DEF RecordImage, RecordTemporary, RecordBackup, Durable, Append, Generations
  <2>3. CASE RecordCommitted
    BY <1>0, <2>3 DEF RecordCommitted, Committed, Append, Generations, Phases
  <2>4. CASE MakeImageRoot \/ WriteMarker \/ WriteImage \/ CreateTemporary \/ WriteTemporary
             \/ LinkBackup \/ Publish
    BY <2>4 DEF MakeImageRoot, WriteMarker, WriteImage, Writes, CreateTemporary, WriteTemporary,
       LinkBackup, Publish
  <2> QED BY <2>1, <2>2, <2>3, <2>4 DEF Execute
<1> QED BY <1>3, <1>4, <1>5

\* Every step keeps Decided: only publication moves the collection, only before
\* the decision, and compaction carries the decision into the record.
LEMMA DecidedStep == TypeOK /\ Turns /\ Phased /\ Decided /\ [Next]_vars => Decided'
<1> SUFFICES ASSUME TypeOK, Turns, Phased, Decided, [Next]_vars PROVE Decided'
  OBVIOUS
<1> USE DEF Decided, Undecided, Recorded, Holding
<1>0. jr \in Generations /\ history \in Histories /\ jr.audit \in Results /\ jr.phase \in Phases
  BY DEF TypeOK, Generations
<1>a. /\ pc["importer"] = "genesis" => jr.phase = "NONE"
      /\ pc["importer"] = "execute" => jr.phase \in Undecided
      /\ \A p \in Procs : pc[p] = "compact" => jr.phase = "COMPACTING"
      /\ pc["recovery"] = "recompact" => jr.phase = "COMPACTING"
      /\ pc["recovery"] = "rollback" => jr.phase = "ROLLING_BACK"
      /\ pc["importer"] \notin {"recompact", "rollback", "retire"}
      /\ Procs = {"importer", "recovery"}
  BY DEF Phased, Before, Turns, ImporterStages, Procs
<1>1. CASE UNCHANGED <<dest, jr, history>>
  BY <1>1
<1>2. CASE Genesis
  <2>1. /\ jr'.phase = "PREPARED"
        /\ jr'.audit = "none"
        /\ UNCHANGED <<dest, history>>
        /\ jr.phase = "NONE"
    BY <1>a, <1>2 DEF Genesis, Blank, At
  <2> QED BY <2>1
<1>3. CASE Execute
  <2>0. pc["importer"] = "execute" /\ history' = history /\ jr.phase \in Undecided
        /\ jr.audit = "none" /\ history.state = "none"
    BY <1>3, <1>a, ExecuteKeeps
  <2>1. CASE Publish
    BY <2>0, <2>1, <1>0 DEF Publish, Committing
  <2>2. CASE RecordCommitted
    <3>1. jr'.phase = "COLLECTION_COMMITTED" /\ jr'.audit = "SUCCEEDED" /\ dest' = "prospective"
      BY <1>0, <2>2 DEF RecordCommitted, Committed, Append, Generations
    <3> QED BY <2>0, <3>1
  <2>3. CASE StartCopying \/ FilesReady \/ DeclareCommit
    <3>1. jr'.phase \in Undecided /\ jr'.audit = jr.audit /\ dest' = dest
          /\ jr.phase # "COMMITTING_COLLECTION"
      BY <1>0, <2>3 DEF StartCopying, FilesReady, DeclareCommit, Durable, Append, Generations
    <3> QED BY <2>0, <3>1
  <2>4. CASE RecordImage \/ RecordTemporary \/ RecordBackup \/ RecordExchange
    <3>1. jr'.phase = jr.phase /\ jr'.audit = jr.audit /\ dest' = dest
      <4>1. CASE RecordImage
        BY <1>0, <4>1 DEF RecordImage, Durable, Append, Generations
      <4>2. CASE RecordTemporary \/ RecordBackup \/ RecordExchange
        BY <1>0, <4>2 DEF RecordTemporary, RecordBackup, RecordExchange, Durable, Append,
           Generations
      <4> QED BY <2>4, <4>1, <4>2
    <3> QED BY <2>0, <3>1
  <2>5. CASE MakeImageRoot \/ WriteMarker \/ WriteImage \/ CreateTemporary \/ WriteTemporary
             \/ LinkBackup
    <3>1. UNCHANGED <<dest, jr, history>>
      BY <2>5 DEF MakeImageRoot, WriteMarker, WriteImage, Writes, CreateTemporary, WriteTemporary,
         LinkBackup
    <3> QED BY <1>1, <3>1
  <2> QED BY <1>3, <2>1, <2>2, <2>3, <2>4, <2>5 DEF Execute
<1>4. ASSUME NEW p \in Procs, Cleanup(p) PROVE Decided'
  <2>1. jr'.phase = jr.phase /\ jr'.audit = jr.audit /\ UNCHANGED <<dest, history>>
    BY <1>4, CleanupKeeps
  <2> QED BY <2>1
<1>5. ASSUME NEW p \in Procs, Compaction(p) PROVE Decided'
  <2>0. jr'.audit = jr.audit /\ dest' = dest
    BY <1>5, CompactionKeeps
  <2>1. CASE StartCompaction(p)
    <3>1. jr'.phase = "COMPACTING" /\ history' = history
          /\ jr.phase \in {"COLLECTION_COMMITTED", "ROLLING_BACK"}
      BY <1>0, <2>1 DEF StartCompaction, Append, Generations
    <3> QED BY <2>0, <3>1
  <2>2. CASE SealOutcome(p)
    <3>1. jr'.phase = jr.phase /\ history' = history
      BY <1>0, <2>2 DEF SealOutcome, Append, Generations
    <3> QED BY <2>0, <3>1
  <2>3. CASE PublishPending(p)
    <3>1. /\ jr' = jr
          /\ jr.phase = "COMPACTING"
          /\ history' = [state |-> "pending", result |-> jr.audit]
      BY <1>a, <2>3 DEF PublishPending, WritingPending, Compacting, At
    <3> QED BY <2>0, <3>1
  <2>4. CASE DeletePartialRecord(p)
    <3>1. jr' = jr /\ history'.state = "none"
      BY <1>0, <2>4 DEF DeletePartialRecord, Histories
    <3> QED BY <2>0, <3>1
  <2>5. CASE Finalize(p)
    <3>1. /\ jr' = jr
          /\ history'.state = "final"
          /\ history'.result = history.result
          /\ history.state = "pending"
      BY <1>0, <2>5 DEF Finalize, Retiring, Histories
    <3> QED BY <2>0, <3>1
  <2>6. CASE PublishManifest(p) \/ RenameForRetirement(p) \/ DeleteRetired(p) \/ RemoveRetirement(p)
    <3>1. UNCHANGED <<dest, jr, history>>
      BY <2>6 DEF PublishManifest, RenameForRetirement, DeleteRetired, RemoveRetirement, Retire
    <3> QED BY <1>1, <3>1
  <2> QED BY <1>5, <2>1, <2>2, <2>3, <2>4, <2>5, <2>6 DEF Compaction
<1>6. CASE Save
  BY <1>6 DEF Save
<1>7. CASE Recover
  <2>1. CASE StartRollback
    <3>1. /\ jr'.phase = "ROLLING_BACK"
          /\ jr'.audit = "ROLLED_BACK"
          /\ dest' = "baseline"
          /\ history' = history
          /\ jr.phase \in Undecided
      BY <1>0, <2>1 DEF StartRollback, Append, Generations, AtHead
    <3> QED BY <3>1
  <2>2. CASE RecoverCommitted
    <3>1. jr'.phase = "COLLECTION_COMMITTED" /\ jr'.audit = "SUCCEEDED" /\ dest' = "prospective"
          /\ history' = history /\ jr.phase \in Undecided
      BY <1>0, <2>2 DEF RecoverCommitted, Committed, Append, Generations, AtHead
    <3> QED BY <3>1
  <2>3. CASE OutcomeRefused
    <3>1. UNCHANGED <<dest, jr>> /\ history'.state = "partial" /\ jr.phase = "COMPACTING"
      BY <1>0, <1>a, <2>3 DEF OutcomeRefused, Histories, R, At
    <3> QED BY <3>1
  <2>4. CASE ResumePending \/ Scan \/ CollectOrphan \/ NothingToRecover \/ ResumeCompaction
             \/ DeletePartialManifest \/ FinishSuccess \/ ResumeRollback \/ FailClosed
    <3>1. UNCHANGED <<dest, jr, history>>
      BY <2>4 DEF ResumePending, Scan, CollectOrphan, NothingToRecover, ResumeCompaction, Moves,
         DeletePartialManifest, FinishSuccess, ResumeRollback, FailClosed
    <3> QED BY <1>1, <3>1
  <2> QED BY <1>7, <2>1, <2>2, <2>3, <2>4 DEF Recover
<1>8. ASSUME NEW p \in Procs, Abort(p) \/ Crash(p) PROVE Decided'
  <2>1. UNCHANGED <<dest, jr>> /\ Torn(p)
    BY <1>8 DEF Abort, Crash
  <2>2. CASE history' = history
    BY <1>1, <2>1, <2>2
  <2>3. CASE history' # history
    <3>1. WritingPending(p) /\ history'.state \in {"partial", "complete"}
      BY <2>1, <2>3 DEF Torn
    <3>2. jr.phase = "COMPACTING"
      BY <1>a, <3>1 DEF WritingPending, Compacting
    <3> QED BY <2>1, <3>1, <3>2
  <2> QED BY <2>2, <2>3
<1>9. CASE Prepare \/ (\E p \in Procs : RemoveUnjournaled(p)) \/ CollectionChanged
           \/ CreateJournalDirectory \/ WriteJournalOwner \/ StartRecovery \/ ClearStaleLock
           \/ Exit \/ UNCHANGED vars
  <2>1. UNCHANGED <<dest, jr, history>>
    BY <1>9 DEF Prepare, CreateSnapshot, Cancel, Commit, RemoveUnjournaled, CollectionChanged,
       CreateJournalDirectory, WriteJournalOwner, StartRecovery, ClearStaleLock, Exit, vars
  <2> QED BY <1>1, <2>1
<1> QED
  BY <1>a, <1>2, <1>3, <1>4, <1>5, <1>6, <1>7, <1>8, <1>9
     DEF Next, Importer, Recovering, Environment, R

-----------------------------------------------------------------------------
(* Placed: where the authority lies.                                       *)

\* Every step keeps Placed: the journal stays whole under its active name until
\* the pending record has taken over.
LEMMA PlacedStep ==
  TypeOK /\ Turns /\ Phased /\ Decided /\ Placed /\ [Next]_vars => Placed'
<1> SUFFICES ASSUME TypeOK, Turns, Phased, Decided, Placed, [Next]_vars PROVE Placed'
  OBVIOUS
<1> USE DEF Placed, Recorded
<1>0. /\ jr \in Generations /\ history \in Histories /\ store \in Stores
      /\ store.chain \in Nat
  BY DEF TypeOK, Stores
<1>a. /\ pc["importer"] = "genesis" => jr.phase = "NONE"
      /\ pc["importer"] = "execute" => jr.phase # "NONE"
      /\ \A p \in Procs : pc[p] \in {"success", "compact"} => jr.phase # "NONE"
      /\ pc["recovery"] \in {"rollback", "recompact", "resume"} => jr.phase # "NONE"
      /\ pc["importer"] \notin {"recompact", "rollback", "retire", "resume"}
      /\ Procs = {"importer", "recovery"}
  BY DEF Phased, Before, Turns, ImporterStages, Procs, Undecided
<1>b. history.state # "none" => jr.phase = "COMPACTING"
  BY DEF Decided
<1>1. CASE UNCHANGED <<jr, store, history>>
  BY <1>1
<1>2. CASE CreateJournalDirectory
  <2>1. store' = [store EXCEPT !.dir = "active"] /\ UNCHANGED <<jr, history>> /\ jr.phase = "NONE"
    BY <1>2, <1>a DEF CreateJournalDirectory, At
  <2>2. store'.dir = "active" /\ store'.chain = store.chain
    BY <1>0, <2>1 DEF Stores
  <2> QED BY <1>b, <2>1, <2>2
<1>3. CASE WriteJournalOwner
  <2>1. /\ store' = [store EXCEPT !.owner = TRUE]
        /\ UNCHANGED <<jr, history>>
        /\ jr.phase = "NONE"
        /\ store.dir = "active"
    BY <1>3, <1>a DEF WriteJournalOwner, At
  <2>2. store'.dir = "active" /\ store'.chain = store.chain
    BY <1>0, <2>1 DEF Stores
  <2> QED BY <1>b, <2>1, <2>2
<1>4. CASE Genesis
  <2>1. /\ store' = [store EXCEPT !.chain = 1] /\ history' = history /\ jr.phase = "NONE"
        /\ store.owner /\ jr'.compaction = "NONE" /\ jr'.phase = "PREPARED"
    BY <1>4, <1>a DEF Genesis, At, Blank
  <2>2. store'.dir = store.dir /\ store'.chain = 1 /\ store'.owner = store.owner
    BY <1>0, <2>1 DEF Stores
  <2> QED BY <1>b, <2>1, <2>2
<1>5. CASE Execute
  <2>1. /\ jr.phase # "NONE"
        /\ history' = history
        /\ history.state = "none"
        /\ jr.compaction = "NONE"
    <3>1. jr.phase \in Undecided
      BY <1>5, ExecuteKeeps DEF Phased
    <3> QED BY <1>5, <1>b, <3>1, ExecuteKeeps DEF Undecided
  <2>2. /\ store'.dir = store.dir
        /\ store'.owner = store.owner
        /\ store'.manifest = store.manifest
        /\ store'.chain >= store.chain
        /\ jr'.compaction = jr.compaction
        /\ jr'.phase # "NONE"
    BY <1>5, <2>1, ExecuteKeeps
  <2>3. store' \in Stores
    BY TypeOKStep DEF TypeOK
  <2>4. store'.chain > 0
    BY <1>0, <2>1, <2>2, <2>3 DEF Stores
  <2> QED BY <2>1, <2>2, <2>4
<1>6. ASSUME NEW p \in Procs, Cleanup(p) PROVE Placed'
  <2>1. /\ jr.phase # "NONE"
        /\ history' = history
        /\ jr'.phase = jr.phase
        /\ jr'.compaction = jr.compaction
    BY <1>6, <1>a, CleanupKeeps
  <2>2. /\ store'.dir = store.dir
        /\ store'.owner = store.owner
        /\ store'.manifest = store.manifest
        /\ store'.chain >= store.chain
    BY <1>6, CleanupKeeps
  <2>3. store' \in Stores
    BY TypeOKStep DEF TypeOK
  <2>4. store.chain > 0 => store'.chain > 0
    BY <1>0, <2>2, <2>3 DEF Stores
  <2> QED BY <2>1, <2>2, <2>4
<1>7. ASSUME NEW p \in Procs, Compaction(p) PROVE Placed'
  <2>1. CASE StartCompaction(p)
    <3>1. /\ jr.phase \in {"COLLECTION_COMMITTED", "ROLLING_BACK"} /\ history' = history
          /\ jr'.phase = "COMPACTING" /\ jr'.compaction = "PLANNING"
      BY <1>0, <2>1 DEF StartCompaction, Append, Generations
    <3>2. /\ store'.dir = store.dir
          /\ store'.owner = store.owner
          /\ store'.manifest = store.manifest
          /\ store'.chain = store.chain + 1
      BY <1>0, <2>1 DEF StartCompaction, Append, Stores
    <3> QED BY <1>0, <1>b, <3>1, <3>2
  <2>2. CASE SealOutcome(p)
    <3>1. /\ history' = history /\ jr'.phase = jr.phase /\ jr'.compaction = "READY"
          /\ jr.compaction = "PLANNING" /\ store.manifest = "final"
      BY <1>0, <2>2 DEF SealOutcome, Append, Generations
    <3>2. /\ store'.dir = store.dir
          /\ store'.owner = store.owner
          /\ store'.manifest = store.manifest
          /\ store'.chain = store.chain + 1
      BY <1>0, <2>2 DEF SealOutcome, Append, Stores
    <3> QED BY <1>0, <3>1, <3>2
  <2>3. CASE PublishManifest(p)
    <3>1. /\ UNCHANGED <<jr, history>>
          /\ store' = [store EXCEPT !.manifest = "final"]
          /\ jr.phase # "NONE"
      BY <1>a, <2>3 DEF PublishManifest, WritingManifest, Compacting, At
    <3>2. /\ store'.dir = store.dir /\ store'.owner = store.owner /\ store'.manifest = "final"
          /\ store'.chain = store.chain
      BY <1>0, <3>1 DEF Stores
    <3> QED BY <3>1, <3>2
  <2>4. CASE PublishPending(p)
    <3>1. /\ UNCHANGED <<jr, store>>
          /\ history'.state = "pending"
          /\ jr.compaction = "READY"
          /\ jr.phase # "NONE"
      BY <1>a, <1>b, <2>4 DEF PublishPending, WritingPending, Compacting, At
    <3>2. history.state \in {"none", "complete"}
      BY <2>4 DEF PublishPending, WritingPending
    <3> QED BY <3>1, <3>2
  <2>5. CASE DeletePartialRecord(p)
    <3>1. UNCHANGED <<jr, store>> /\ history'.state = "none" /\ history.state = "partial"
      BY <1>0, <2>5 DEF DeletePartialRecord, Histories
    <3> QED BY <3>1
  <2>6. CASE RenameForRetirement(p) \/ DeleteRetired(p) \/ RemoveRetirement(p)
    <3>1. UNCHANGED <<jr, history>> /\ history.state = "pending" /\ jr.phase = "COMPACTING"
      BY <1>b, <2>6 DEF RenameForRetirement, DeleteRetired, RemoveRetirement, Retire, Retiring
    <3>2. store'.dir # "active"
      <4>1. CASE RenameForRetirement(p)
        BY <1>0, <4>1 DEF RenameForRetirement, Retire, Stores
      <4>2. CASE DeleteRetired(p)
        BY <1>0, <4>2 DEF DeleteRetired, Retire, Stores
      <4>3. CASE RemoveRetirement(p)
        BY <1>0, <4>3 DEF RemoveRetirement, Retire, Stores
      <4> QED BY <2>6, <4>1, <4>2, <4>3
    <3> QED BY <3>1, <3>2
  <2>7. CASE Finalize(p)
    <3>1. /\ UNCHANGED <<jr, store>>
          /\ history'.state = "final"
          /\ history.state = "pending"
          /\ store.dir = "none"
      BY <1>0, <2>7 DEF Finalize, Retiring, Histories
    <3> QED BY <3>1
  <2> QED BY <1>7, <2>1, <2>2, <2>3, <2>4, <2>5, <2>6, <2>7 DEF Compaction
<1>8. CASE Recover
  <2>1. CASE StartRollback \/ RecoverCommitted
    <3>1. /\ jr.phase \in Undecided /\ history' = history /\ jr'.compaction = jr.compaction
          /\ jr'.phase \notin {"NONE", "COMPACTING"}
      <4>1. CASE StartRollback
        BY <1>0, <4>1 DEF StartRollback, Append, Generations, AtHead
      <4>2. CASE RecoverCommitted
        BY <1>0, <4>2 DEF RecoverCommitted, Committed, Append, Generations, AtHead, Undecided
      <4> QED BY <2>1, <4>1, <4>2
    <3>2. /\ store'.dir = store.dir
          /\ store'.owner = store.owner
          /\ store'.manifest = store.manifest
          /\ store'.chain = store.chain + 1
      BY <1>0, <2>1 DEF StartRollback, RecoverCommitted, Append, Stores
    <3> QED BY <1>0, <1>b, <3>1, <3>2 DEF Undecided
  <2>2. CASE OutcomeRefused
    <3>1. /\ UNCHANGED <<jr, store>>
          /\ history'.state = "partial"
          /\ jr.compaction = "READY"
          /\ history.state = "none"
      BY <1>0, <2>2 DEF OutcomeRefused, Histories
    <3> QED BY <3>1
  <2>3. CASE DeletePartialManifest
    <3>1. /\ UNCHANGED <<jr, history>> /\ store.manifest = "partial" /\ jr.phase # "NONE"
          /\ store' = [store EXCEPT !.manifest = "none"]
      BY <1>a, <2>3 DEF DeletePartialManifest, At, R
    <3>2. store'.dir = store.dir /\ store'.owner = store.owner /\ store'.chain = store.chain
      BY <1>0, <3>1 DEF Stores
    <3> QED BY <3>1, <3>2
  <2>4. CASE ResumePending \/ Scan \/ CollectOrphan \/ NothingToRecover \/ ResumeCompaction
             \/ FinishSuccess \/ ResumeRollback \/ FailClosed
    <3>1. UNCHANGED <<jr, store, history>>
      BY <2>4 DEF ResumePending, Scan, CollectOrphan, NothingToRecover, ResumeCompaction, Moves,
         FinishSuccess, ResumeRollback, FailClosed
    <3> QED BY <1>1, <3>1
  <2> QED BY <1>8, <2>1, <2>2, <2>3, <2>4 DEF Recover
<1>9. ASSUME NEW p \in Procs, Abort(p) \/ Crash(p) PROVE Placed'
  <2>1. jr' = jr /\ Torn(p)
    BY <1>9 DEF Abort, Crash
  <2>2. CASE UNCHANGED <<store, history>>
    BY <1>1, <2>1, <2>2
  <2>3. CASE WritingManifest(p) /\ (\E m \in {"partial", "complete"} : store' = [store EXCEPT !.manifest = m])
             /\ history' = history
    <3>1. jr.phase # "NONE" /\ jr.compaction = "PLANNING" /\ history.state = "none"
      BY <1>a, <2>3 DEF WritingManifest, Compacting
    <3>2. store'.dir = store.dir /\ store'.owner = store.owner /\ store'.chain = store.chain
      BY <1>0, <2>3 DEF Stores
    <3> QED BY <2>1, <2>3, <3>1, <3>2
  <2>4. CASE WritingPending(p) /\ history'.state \in {"partial", "complete"} /\ store' = store
    <3>1. jr.compaction = "READY" /\ history.state = "none"
      BY <2>4 DEF WritingPending
    <3> QED BY <2>1, <2>4, <3>1
  <2>5. CASE WritingPending(p) /\ (\E s \in {"partial", "complete"} : history' = [state |-> s, result |-> jr.audit])
             /\ store' = store
    <3>1. history'.state \in {"partial", "complete"}
      BY <2>5
    <3> QED BY <2>4, <2>5, <3>1
  <2> QED BY <2>1, <2>2, <2>3, <2>5 DEF Torn
<1>10. CASE Prepare \/ (\E p \in Procs : RemoveUnjournaled(p)) \/ CollectionChanged
           \/ StartRecovery \/ ClearStaleLock \/ Exit \/ Save \/ UNCHANGED vars
  <2>1. UNCHANGED <<store, jr, history>>
    BY <1>10 DEF Prepare, CreateSnapshot, Cancel, Commit, RemoveUnjournaled, CollectionChanged,
       StartRecovery, ClearStaleLock, Exit, Save, vars
  <2> QED BY <1>1, <2>1
<1> QED
  BY <1>a, <1>2, <1>3, <1>4, <1>5, <1>6, <1>7, <1>8, <1>9, <1>10
     DEF Next, Importer, Recovering, Environment, R

-----------------------------------------------------------------------------
(* Imaged: what a cleanup may touch.                                       *)

\* The image tree shares no member with the snapshot, T or B.
LEMMA TreeApart == Tree \cap Snapshot = {} /\ "temp" \notin Tree /\ "backup" \notin Tree
BY ImagesAssumption DEF Tree, Snapshot

\* No step takes an image from a tree that has to be whole.
LEMMA TreeKept ==
  ASSUME TypeOK, Turns, Phased, Decided, Imaged, [Next]_vars,
         jr.audit # "ROLLED_BACK"
  PROVE  Tree \cap files \subseteq files'
<1>1. ASSUME NEW p \in Procs, Cleanup(p) PROVE Tree \cap files \subseteq files'
  <2>1. CASE RemoveTarget(p)
    <3>1. PICK o \in Owing : files' = files \ {o}
      BY <2>1 DEF RemoveTarget
    <3>2. o \notin Tree
      BY DEF Imaged, Owing
    <3> QED BY <3>1, <3>2
  <2>2. CASE ~RemoveTarget(p)
    BY <1>1, <2>2 DEF Cleanup, BackupIntent, SnapshotIntent, RollbackIntent, ReceiptTarget,
       CompleteCleanup
  <2> QED BY <2>1, <2>2
<1>2. ASSUME NEW p \in Procs, RemoveUnjournaled(p) PROVE Tree \cap files \subseteq files'
  BY <1>2, TreeApart DEF RemoveUnjournaled
<1>3. ASSUME NEW p \in Procs, Abort(p) \/ Crash(p) PROVE Tree \cap files \subseteq files'
  BY <1>3, TreeApart DEF Abort, Crash
<1>4. CASE Execute
  BY <1>4, ExecuteKeeps
<1>5. ASSUME NEW p \in Procs, Compaction(p) PROVE Tree \cap files \subseteq files'
  BY <1>5, CompactionKeeps
<1>6. CASE CreateSnapshot
  BY <1>6 DEF CreateSnapshot
<1>7. CASE Recover
  BY <1>7 DEF Recover, ResumePending, Scan, CollectOrphan, NothingToRecover, ResumeCompaction,
     Moves,
     DeletePartialManifest, OutcomeRefused, RecoverCommitted, FinishSuccess, StartRollback,
     ResumeRollback,
     FailClosed
<1> QED
  BY <1>1, <1>2, <1>3, <1>4, <1>5, <1>6, <1>7
     DEF Next, Prepare, Importer, Recovering, Environment, R, Procs, Cancel, Commit,
        CollectionChanged,
         CreateJournalDirectory, WriteJournalOwner, Genesis, StartRecovery, ClearStaleLock, Exit,
         Save, vars

\* What a step may do to the cleanup in the journal.
LEMMA CleanupTargets ==
  ASSUME TypeOK, NEW p \in Procs, Cleanup(p)
  PROVE  \/ jr'.op = jr.op /\ jr'.targets = jr.targets
         \/ jr'.op # "ROLLBACK_ALL" /\ jr'.targets \cap Tree = {}
         \/ jr'.op = "ROLLBACK_ALL" /\ pc[p] = "rollback"
<1>0. jr \in Generations
  BY DEF TypeOK
<1>1. CASE BackupIntent(p)
  <2>1. jr'.op = "BASELINE_BACKUP" /\ jr'.targets = {BackupName}
    BY <1>0, <1>1 DEF BackupIntent, Intend, Append, Generations
  <2> QED BY <2>1, TreeApart DEF BackupName
<1>2. CASE SnapshotIntent(p)
  <2>1. jr'.op = "SUCCESS_SNAPSHOT" /\ jr'.targets = Snapshot
    BY <1>0, <1>2 DEF SnapshotIntent, Intend, Append, Generations
  <2> QED BY <2>1, TreeApart
<1>3. CASE RollbackIntent(p)
  BY <1>0, <1>3 DEF RollbackIntent, Intend, Append, Generations, At
<1>4. CASE RemoveTarget(p)
  BY <1>4 DEF RemoveTarget
<1>5. CASE ReceiptTarget(p)
  BY <1>0, <1>5 DEF ReceiptTarget, Append, Generations
<1>6. CASE CompleteCleanup(p)
  BY <1>0, <1>6 DEF CompleteCleanup, Append, Generations
<1> QED BY <1>1, <1>2, <1>3, <1>4, <1>5, <1>6 DEF Cleanup

\* Every step keeps Imaged.
LEMMA ImagedStep ==
  TypeOK /\ Turns /\ Phased /\ Decided /\ Imaged /\ [Next]_vars => Imaged'
<1> SUFFICES ASSUME TypeOK, Turns, Phased, Decided, Imaged, [Next]_vars PROVE Imaged'
  OBVIOUS
<1> USE DEF Undecided
<1>0. jr \in Generations /\ jr.audit \in Results
  BY DEF TypeOK, Generations
<1>a. jr.audit # "ROLLED_BACK" /\ TreeWhole => TreeWhole'
  BY TreeKept DEF TreeWhole
<1>b. dest' \in Holding /\ dest \notin Holding => jr.phase = "COMMITTING_COLLECTION" /\ jr'.phase = jr.phase
  <2>1. Publish => Committing /\ jr' = jr
    BY DEF Publish
  <2>2. ASSUME dest' \in Holding /\ dest \notin Holding PROVE Publish
    BY <2>2 DEF Next, Prepare, Importer, Recovering, Environment, R, Procs, CreateSnapshot,
       Cancel, Commit,
         RemoveUnjournaled, CollectionChanged, CreateJournalDirectory, WriteJournalOwner, Genesis,
         StartRecovery, ClearStaleLock, Exit, Save, vars, Abort, Crash, Holding,
         Execute, StartCopying, MakeImageRoot, WriteMarker, WriteImage, RecordImage,
         FilesReady, DeclareCommit, CreateTemporary, RecordTemporary, WriteTemporary, LinkBackup,
         RecordBackup, RecordExchange, RecordCommitted, Durable, Writes,
         Cleanup, BackupIntent, SnapshotIntent, RollbackIntent, RemoveTarget, ReceiptTarget,
         CompleteCleanup,
         Compaction, StartCompaction, PublishManifest, SealOutcome, PublishPending,
         DeletePartialRecord,
         RenameForRetirement, DeleteRetired, RemoveRetirement, Finalize, Retire,
         Recover, ResumePending, Scan, CollectOrphan, NothingToRecover, ResumeCompaction, Moves,
         DeletePartialManifest, OutcomeRefused, RecoverCommitted, FinishSuccess, StartRollback,
         ResumeRollback,
         FailClosed
  <2> QED BY <2>1, <2>2 DEF Committing
<1>c. dest' \in Holding => TreeWhole'
  <2>1. dest \in Holding => jr.audit # "ROLLED_BACK"
    BY DEF Decided
  <2>2. jr.phase = "COMMITTING_COLLECTION" => TreeWhole /\ jr.audit # "ROLLED_BACK"
    BY DEF Imaged, Decided
  <2> QED BY <1>a, <1>b, <2>1, <2>2 DEF Imaged
<1>1. CASE jr' = jr
  <2>1. jr.phase \in Undecided => jr.audit # "ROLLED_BACK"
    BY DEF Decided
  <2> QED BY <1>1, <1>a, <1>c, <2>1 DEF Imaged
<1>2. CASE Genesis
  <2>1. jr' = [Blank EXCEPT !.phase = "PREPARED", !.snapRef = TRUE]
    BY <1>2 DEF Genesis
  <2>2. /\ jr'.phase = "PREPARED"
        /\ jr'.op = "NONE"
        /\ jr'.status = "NONE"
        /\ jr'.targets = {}
        /\ jr'.verified = {}
    BY <2>1 DEF Blank
  <2> QED BY <1>c, <2>2 DEF Imaged
<1>3. CASE Execute
  <2>0. /\ jr.phase \in Undecided /\ jr.op = "NONE" /\ jr.status = "NONE" /\ jr.targets = {}
        /\ jr'.op = "NONE" /\ jr'.status = "NONE" /\ jr'.targets = {} /\ jr.audit # "ROLLED_BACK"
    BY <1>3, ExecuteKeeps DEF Phased, Imaged, Decided
  <2>1. CASE StartCopying
    <3>1. jr'.phase = "COPYING_IMAGES" /\ jr'.verified = {}
      BY <1>0, <2>1 DEF StartCopying, Durable, Append, Generations, Imaged
    <3> QED BY <1>c, <2>0, <3>1 DEF Imaged
  <2>2. CASE RecordImage
    <3>1. jr'.phase = "COPYING_IMAGES" /\ TreeWhole
      BY <1>0, <2>2 DEF RecordImage, Durable, Append, Generations
    <3> QED BY <1>a, <1>c, <2>0, <3>1 DEF Imaged
  <2>3. CASE FilesReady
    <3>1. jr'.phase = "FILES_READY" /\ TreeWhole
      BY <1>0, <2>3, ImagesAssumption DEF FilesReady, Durable, Append, Generations, Imaged
    <3> QED BY <1>a, <1>c, <2>0, <3>1 DEF Imaged
  <2>4. CASE DeclareCommit \/ RecordTemporary \/ RecordBackup \/ RecordExchange
    <3>1. jr'.phase = "COMMITTING_COLLECTION" /\ TreeWhole
      BY <1>0, <2>4 DEF DeclareCommit, RecordTemporary, RecordBackup, RecordExchange, Committing,
         Durable,
         Append, Generations, Imaged
    <3> QED BY <1>a, <1>c, <2>0, <3>1 DEF Imaged
  <2>5. CASE RecordCommitted
    <3>1. jr'.phase = "COLLECTION_COMMITTED"
      BY <1>0, <2>5 DEF RecordCommitted, Committed, Append, Generations
    <3> QED BY <1>c, <2>0, <3>1 DEF Imaged
  <2>6. CASE MakeImageRoot \/ WriteMarker \/ WriteImage \/ CreateTemporary \/ WriteTemporary
             \/ LinkBackup \/ Publish
    BY <1>1, <2>6 DEF MakeImageRoot, WriteMarker, WriteImage, Writes, CreateTemporary,
       WriteTemporary,
       LinkBackup, Publish
  <2> QED BY <1>3, <2>1, <2>2, <2>3, <2>4, <2>5, <2>6 DEF Execute
<1>4. ASSUME NEW p \in Procs, Cleanup(p) PROVE Imaged'
  <2>1. jr'.phase = jr.phase /\ jr'.audit = jr.audit
        /\ jr.phase \in {"COLLECTION_COMMITTED", "ROLLING_BACK"}
    BY <1>4, CleanupKeeps DEF Phased, Turns, ImporterStages, Procs
  <2>2. pc[p] = "rollback" => jr.audit = "ROLLED_BACK"
    BY <1>4 DEF Phased, Turns, ImporterStages, Procs, Decided
  <2>3. /\ jr'.op = "ROLLBACK_ALL" => jr'.audit = "ROLLED_BACK"
        /\ jr'.op # "ROLLBACK_ALL" => jr'.targets \cap Tree = {}
    BY <1>4, <2>1, <2>2, CleanupTargets DEF Imaged
  <2> QED BY <1>c, <2>1, <2>3 DEF Imaged
<1>5. ASSUME NEW p \in Procs, Compaction(p) PROVE Imaged'
  <2>0. /\ jr'.audit = jr.audit /\ jr'.op = jr.op /\ jr'.targets = jr.targets
    BY <1>5, CompactionKeeps
  <2>1. jr' = jr \/ jr'.phase = "COMPACTING"
    <3>1. CASE SealOutcome(p)
      BY <1>0, <3>1 DEF SealOutcome, Append, Generations, Compacting, Phased, Turns,
         ImporterStages, Procs
    <3>2. CASE StartCompaction(p)
      BY <1>0, <3>2 DEF StartCompaction, Append, Generations
    <3> QED BY <1>5, <3>1, <3>2 DEF Compaction, PublishManifest, PublishPending,
       DeletePartialRecord,
         RenameForRetirement, DeleteRetired, RemoveRetirement, Finalize, Retire
  <2> QED BY <1>1, <1>c, <2>0, <2>1 DEF Imaged
<1>6. CASE Recover
  <2>1. CASE StartRollback
    <3>1. jr'.phase = "ROLLING_BACK" /\ jr'.op = jr.op /\ jr'.targets = jr.targets
          /\ jr.phase \in Undecided
      BY <1>0, <2>1 DEF StartRollback, Append, Generations, AtHead
    <3> QED BY <1>c, <3>1 DEF Imaged
  <2>2. CASE RecoverCommitted
    <3>1. jr'.phase = "COLLECTION_COMMITTED" /\ jr'.op = jr.op /\ jr'.targets = jr.targets
          /\ jr.phase \in Undecided
      BY <1>0, <2>2 DEF RecoverCommitted, Committed, Append, Generations, AtHead
    <3> QED BY <1>c, <3>1 DEF Imaged
  <2> QED BY <1>1, <1>6, <2>1, <2>2 DEF Recover, ResumePending, Scan, CollectOrphan,
     NothingToRecover,
       ResumeCompaction, Moves, DeletePartialManifest, OutcomeRefused, FinishSuccess,
       ResumeRollback,
       FailClosed
<1> QED
  BY <1>1, <1>2, <1>3, <1>4, <1>5, <1>6
     DEF Next, Prepare, Importer, Recovering, Environment, R, Procs, CreateSnapshot, Cancel,
        Commit,
         RemoveUnjournaled, CollectionChanged, CreateJournalDirectory, WriteJournalOwner,
         StartRecovery,
         ClearStaleLock, Exit, Save, vars, Abort, Crash

-----------------------------------------------------------------------------
(* Held: the importer's snapshot.                                          *)

\* The package is the last member of the snapshot to be made.
LEMMA PackageLast ==
  ASSUME NEW o \in Snapshot \ files, \A q \in Snapshot \ files : Rank(q) <= Rank(o)
  PROVE  o = "package" => Snapshot \subseteq files \cup {o}
<1>1. \A q \in Snapshot : q \notin Images
  BY ImagesAssumption
<1>2. Rank("package") = 5 /\ Rank("lease") = 6 /\ Rank("owner") = 7 /\ Rank("snapDir") = 8
  BY <1>1 DEF Rank, Snapshot
<1> QED BY <1>2 DEF Snapshot

\* Every step keeps Held: recovery takes a lease or removes a snapshot only when
\* the importer is past the stages that need them.
LEMMA HeldStep ==
  TypeOK /\ Turns /\ Phased /\ Held /\ [Next]_vars => Held'
<1> SUFFICES ASSUME TypeOK, Turns, Phased, Held, [Next]_vars PROVE Held'
  OBVIOUS
<1> USE DEF Held
<1>0. /\ pc \in [Procs -> Stages] /\ Procs = {"importer", "recovery"}
  BY DEF TypeOK, Procs
<1>a. /\ pc["importer"] \in ImporterStages /\ pc["recovery"] \in RecoveryStages
      /\ lock = "recovery" => pc["importer"] \notin {"genesis", "execute", "success", "compact"}
      /\ ~alive => pc["importer"] = "ended"
      /\ pc["recovery"] = "orphan" => ~alive
      /\ pc["importer"] \in Before => jr.phase = "NONE"
  BY DEF Turns, Phased
<1>b. \A p \in Procs : lock = p /\ jr.phase \notin Undecided \cup {"NONE"} /\ pc[p] \in {"success", "rollback", "resume", "dispatch"} =>
          pc["importer"] \in {"success", "ended", "compact"}
  BY <1>0, <1>a DEF ImporterStages, Before
<1>1. CASE UNCHANGED <<files, pc, lease, alive>>
  BY <1>1 DEF SnapshotWhole
<1>2. CASE CreateSnapshot
  <2>1. PICK o \in Snapshot \ files :
              /\ \A q \in Snapshot \ files : Rank(q) <= Rank(o)
              /\ files' = files \cup {o}
              /\ lease' = IF o = "lease" THEN "importer" ELSE lease
              /\ Goto("importer", IF o = "package" THEN "preview" ELSE "preparing")
    BY <1>2, Zenon DEF CreateSnapshot
  <2>2. pc["importer"] \in {"start", "preparing"} /\ alive' = alive
    BY <1>2 DEF CreateSnapshot, bounds
  <2>3. "lease" \in files' => lease' = "importer"
    BY <2>1, <2>2 DEF Snapshot
  <2>4. CASE o = "package"
    <3>1. Snapshot \subseteq files' /\ pc' = [pc EXCEPT !["importer"] = "preview"]
      BY <2>1, <2>4, PackageLast DEF Goto
    <3>2. "lease" \in files'
      BY <3>1 DEF Snapshot
    <3> QED BY <1>0, <2>3, <3>1, <3>2 DEF SnapshotWhole
  <2>5. CASE o # "package"
    <3>1. pc' = [pc EXCEPT !["importer"] = "preparing"]
      BY <2>1, <2>5 DEF Goto
    <3> QED BY <1>0, <2>3, <3>1
  <2> QED BY <2>4, <2>5
<1>3. CASE Cancel \/ Commit \/ CollectionChanged \/ CreateJournalDirectory \/ WriteJournalOwner \/ Genesis
  BY <1>0, <1>3 DEF Cancel, Commit, CollectionChanged, CreateJournalDirectory, WriteJournalOwner,
     Genesis,
     At, Goto, bounds, SnapshotWhole
<1>4. ASSUME NEW p \in Procs, RemoveUnjournaled(p) PROVE Held'
  <2>1. CASE p = "importer"
    <3>1. pc["importer"] = "cancel" /\ alive' = alive /\ alive
      BY <1>4, <1>a, <2>1 DEF RemoveUnjournaled, bounds, RecoveryStages, ImporterStages
    <3>2. pc' = pc \/ pc' = [pc EXCEPT !["importer"] = "ended"]
      BY <1>4, <2>1 DEF RemoveUnjournaled, Goto
    <3> QED BY <1>0, <3>1, <3>2
  <2>2. CASE p = "recovery"
    <3>1. pc["importer"] = "ended" /\ alive' = alive /\ ~alive /\ lease # "importer"
      BY <1>4, <1>a, <2>2 DEF RemoveUnjournaled, bounds, RecoveryStages
    <3>2. pc'["importer"] = "ended" /\ lease' # "importer"
      BY <1>0, <1>4, <2>2, <3>1 DEF RemoveUnjournaled, Goto, Freed
    <3> QED BY <3>1, <3>2
  <2> QED BY <1>0, <2>1, <2>2
<1>5. CASE Execute
  <2>1. pc["importer"] = "execute" /\ UNCHANGED <<lease, alive>> /\ files \subseteq files'
    BY <1>5, ExecuteKeeps
  <2>2. pc' = pc \/ pc' = [pc EXCEPT !["importer"] = "success"]
    BY <1>5 DEF Execute, StartCopying, MakeImageRoot, WriteMarker, WriteImage, RecordImage,
        FilesReady, DeclareCommit, CreateTemporary, RecordTemporary, WriteTemporary, LinkBackup,
        RecordBackup, Publish, RecordExchange, RecordCommitted, Durable, Writes, Goto
  <2> QED BY <1>0, <2>1, <2>2 DEF SnapshotWhole
<1>6. ASSUME NEW p \in Procs, Cleanup(p) PROVE Held'
  <2>1. /\ alive' = alive /\ pc[p] \in {"success", "rollback", "resume"}
        /\ pc' = pc \/ pc' = [pc EXCEPT ![p] = "success"]
        /\ lock = p
    BY <1>6, CleanupKeeps
  <2>2. pc["importer"] \in {"success", "ended", "compact"}
    BY <1>0, <1>a, <1>b, <2>1 DEF Phased, Undecided, ImporterStages
  <2>3. pc'["importer"] = pc["importer"]  \/ (p = "importer" /\ pc'["importer"] = "success")
    BY <1>0, <2>1
  <2>4. lease' = lease \/ lease' = "free"
    BY <1>6 DEF Cleanup, BackupIntent, SnapshotIntent, RollbackIntent, RemoveTarget,
       ReceiptTarget,
       CompleteCleanup, Freed
  <2> QED BY <2>1, <2>2, <2>3, <2>4
<1>7. ASSUME NEW p \in Procs, Compaction(p) PROVE Held'
  <2>1. files' = files /\ alive' = alive
    BY <1>7, CompactionKeeps
  <2>2. CASE Finalize(p)
    <3>1. CASE p = "importer"
      <4>1. /\ pc["importer"] = "compact"
            /\ pc' = [pc EXCEPT !["importer"] = "ended"]
            /\ lease' # "importer"
        BY <1>a, <2>2, <3>1 DEF Finalize, Retiring, LeaveLocked, Goto, Rest, Freed, At,
           ImporterStages
      <4> QED BY <1>0, <4>1
    <3>2. CASE p = "recovery"
      <4>1. /\ pc'["importer"] = pc["importer"]
            /\ (lease' = lease \/ (lease = "recovery" /\ lease' = "free"))
        BY <1>0, <2>2, <3>2 DEF Finalize, LeaveLocked, Goto, Rest, Freed
      <4> QED BY <2>1, <4>1 DEF SnapshotWhole
    <3> QED BY <1>0, <3>1, <3>2
  <2>3. CASE StartCompaction(p)
    <3>1. lease' = lease /\ pc' = [pc EXCEPT ![p] = "compact"]
      BY <2>3 DEF StartCompaction, Goto
    <3> QED BY <1>0, <2>1, <3>1 DEF SnapshotWhole
  <2> QED BY <1>1, <1>7, <2>1, <2>2, <2>3 DEF Compaction, PublishManifest, SealOutcome,
     PublishPending,
       DeletePartialRecord, RenameForRetirement, DeleteRetired, RemoveRetirement, Retire
<1>8. CASE StartRecovery \/ ClearStaleLock \/ Save
  BY <1>0, <1>8 DEF StartRecovery, ClearStaleLock, Save, R, Goto, bounds, SnapshotWhole
<1>9. CASE Exit
  BY <1>9 DEF Exit, At, Freed
<1>10. CASE Recover
  <2>1. UNCHANGED <<files, alive>>
    BY <1>10 DEF Recover, ResumePending, Scan, CollectOrphan, NothingToRecover, ResumeCompaction,
       Moves,
         DeletePartialManifest, OutcomeRefused, RecoverCommitted, FinishSuccess, StartRollback,
         ResumeRollback,
         FailClosed, bounds
  <2>2. pc'["importer"] = pc["importer"]
    BY <1>0, <1>10 DEF Recover, ResumePending, Scan, CollectOrphan, NothingToRecover,
       ResumeCompaction, Moves,
         DeletePartialManifest, OutcomeRefused, RecoverCommitted, FinishSuccess, StartRollback,
         ResumeRollback,
         FailClosed, LeaveLocked, Goto, Rest, R
  <2>3. \/ lease' = lease
        \/ lease # "importer" /\ lease' # "importer"
        \/ pc["importer"] \in {"success", "ended", "compact", "cancel"} /\ lease' # "importer"
    <3>1. CASE CollectOrphan
      BY <3>1 DEF CollectOrphan, R
    <3>2. CASE FinishSuccess
      <4>1. pc["importer"] \in {"success", "ended", "compact"} /\ lease' \in {lease, "recovery"}
        BY <1>0, <1>b, <3>2 DEF FinishSuccess, AtHead, At, R, Undecided
      <4> QED BY <4>1
    <3>3. CASE StartRollback
      BY <3>3 DEF StartRollback, Reopenable, R
    <3>4. CASE NothingToRecover \/ DeletePartialManifest \/ OutcomeRefused \/ FailClosed
      BY <3>4 DEF NothingToRecover, DeletePartialManifest, OutcomeRefused, FailClosed,
         LeaveLocked, Freed, R
    <3> QED BY <1>10, <3>1, <3>2, <3>3, <3>4 DEF Recover, ResumePending, Scan, ResumeCompaction,
       Moves,
         RecoverCommitted, ResumeRollback
  <2> QED BY <2>1, <2>2, <2>3 DEF SnapshotWhole
<1>11. ASSUME NEW p \in Procs, Abort(p) PROVE Held'
  <2>1. alive' = alive
    BY <1>11 DEF Abort
  <2>2. CASE p = "importer"
    <3>1. CASE pc["importer"] = "genesis"
      BY <1>0, <1>11, <2>2, <3>1 DEF Abort, Goto, At, SnapshotWhole
    <3>2. CASE pc["importer"] = "cancel"
      <4>1. alive /\ pc' = [pc EXCEPT !["importer"] = "ended"]
        BY <1>a, <1>11, <2>2, <3>2 DEF Abort, Goto, At
      <4> QED BY <1>0, <2>1, <4>1
    <3>3. CASE pc["importer"] \notin {"genesis", "cancel"}
      BY <1>0, <1>11, <2>2, <3>3 DEF Abort, LeaveLocked, Goto, Rest, Freed
    <3> QED BY <3>1, <3>2, <3>3
  <2>3. CASE p = "recovery"
    <3>1. pc[p] \notin {"genesis", "cancel", "preparing"}
      BY <1>a, <2>3 DEF RecoveryStages
    <3>2. /\ files' = files /\ pc' = [pc EXCEPT !["recovery"] = "idle"]
          /\ lease' = lease \/ (lease = "recovery" /\ lease' = "free")
      BY <1>11, <2>3, <3>1 DEF Abort, LeaveLocked, Goto, Rest, Freed, At
    <3> QED BY <1>0, <2>1, <3>2 DEF SnapshotWhole
  <2> QED BY <1>0, <2>2, <2>3
<1>12. ASSUME NEW p \in Procs, Crash(p) PROVE Held'
  <2>2. CASE p = "importer"
    BY <1>0, <1>12, <2>2 DEF Crash, Goto, Rest, Freed
  <2>3. CASE p = "recovery"
    <3>2. /\ files' = files /\ pc' = [pc EXCEPT !["recovery"] = "idle"] /\ alive' = alive
          /\ lease' = lease \/ (lease = "recovery" /\ lease' = "free")
      BY <1>12, <2>3 DEF Crash, Goto, Rest, Freed
    <3> QED BY <1>0, <3>2 DEF SnapshotWhole
  <2> QED BY <1>0, <2>2, <2>3
<1>13. CASE UNCHANGED vars
  BY <1>1, <1>13 DEF vars
<1> QED
  BY <1>0, <1>2, <1>3, <1>4, <1>5, <1>6, <1>7, <1>8, <1>9, <1>10, <1>11, <1>12, <1>13
     DEF Next, Prepare, Importer, Recovering, Environment, R

-----------------------------------------------------------------------------
(* The theorems.                                                           *)

\* The initial state satisfies the inductive invariant.
LEMMA IInvInit == Init => IInv
<1> SUFFICES ASSUME Init PROVE IInv
  OBVIOUS
<1>1. TypeOK
  BY InitTypeOK
<1>2. /\ jr.phase = "NONE"
      /\ jr.audit = "none"
      /\ jr.op = "NONE"
      /\ jr.status = "NONE"
      /\ jr.targets = {}
      /\ jr.compaction = "NONE"
      /\ jr.verified = {}
  BY DEF Init, Blank
<1>3. Turns
  BY DEF Init, Turns, ImporterStages, RecoveryStages
<1>4. Phased
  BY <1>2 DEF Init, Phased, Before, Procs
<1>5. Decided
  BY <1>2 DEF Init, Decided, Undecided, Recorded, Holding
<1>6. Placed
  BY <1>2 DEF Init, Placed, Recorded
<1>7. Imaged
  BY <1>2 DEF Init, Imaged, Holding, Undecided
<1>8. Held
  BY DEF Init, Held
<1> QED BY <1>1, <1>3, <1>4, <1>5, <1>6, <1>7, <1>8 DEF IInv

\* The inductive invariant holds in every reachable state.
THEOREM Inductive == Spec => []IInv
<1>1. IInv /\ [Next]_vars => IInv'
  BY TypeOKStep, TurnsStep, PhasedStep, DecidedStep, PlacedStep, ImagedStep, HeldStep DEF IInv
<1> QED BY IInvInit, <1>1, PTL DEF Spec

\* History never lies about the collection: a record of SUCCEEDED is kept exactly
\* when the collection holds the new coins.
THEOREM HistoryTrue == Spec => []HistoryIsTrue
<1>1. IInv => HistoryIsTrue
  <2> SUFFICES ASSUME IInv, Recorded PROVE history.result # "none" /\ ((history.result = "SUCCEEDED") <=> (dest \in Holding))
    BY DEF HistoryIsTrue
  <2>1. history.result = jr.audit /\ jr.audit # "none" /\ jr.audit \in Results
    BY DEF IInv, TypeOK, Generations, Decided, Recorded, Undecided
  <2> QED BY <2>1 DEF IInv, Decided, Results
<1> QED BY Inductive, <1>1, PTL

\* From publication on the collection never names an image that is gone,
\* whatever crash, rollback or cleanup intervenes.
THEOREM ImagesOutlive == Spec => []ImagesOutliveTheCoins
<1>1. IInv => ImagesOutliveTheCoins
  BY DEF IInv, Imaged, ImagesOutliveTheCoins
<1> QED BY Inductive, <1>1, PTL

\* The import is always under one authority, journal or record, and retirement
\* never runs ahead of the record.
THEOREM Authority == Spec => []OneAuthority
<1>1. IInv => OneAuthority
  BY DEF IInv, Placed, OneAuthority, Listed, Recorded
<1> QED BY Inductive, <1>1, PTL

\* Importer and recovery never work at the same time, and a live preview keeps
\* its snapshot and its lease.
THEOREM Serial == Spec => []Serialized
<1>1. IInv => Serialized
  BY DEF IInv, Turns, Held, Serialized
<1> QED BY Inductive, <1>1, PTL

\* Only genesis, publication and the start of a rollback move the outcome.
LEMMA OutcomeSteps ==
  ASSUME IInv, [Next]_vars
  PROVE  \/ Genesis /\ UNCHANGED <<dest, history>>
         \/ Publish
         \/ StartRollback
         \/ /\ jr'.phase = "NONE" <=> jr.phase = "NONE"
            /\ dest' \in Holding <=> dest \in Holding
            /\ jr.audit # "none" => jr'.audit = jr.audit
            /\ jr'.audit = "ROLLED_BACK" <=> jr.audit = "ROLLED_BACK"
<1> DEFINE Quiet == /\ jr'.phase = "NONE" <=> jr.phase = "NONE"
                    /\ dest' \in Holding <=> dest \in Holding
                    /\ jr.audit # "none" => jr'.audit = jr.audit
                    /\ jr'.audit = "ROLLED_BACK" <=> jr.audit = "ROLLED_BACK"
<1>0. TypeOK /\ Turns /\ Phased /\ Decided /\ jr \in Generations
  BY DEF IInv, TypeOK
<1>1. CASE UNCHANGED <<dest, jr>>
  BY <1>1
<1>2. CASE Genesis
  BY <1>2 DEF Genesis
<1>3. CASE Execute
  <2>1. jr.phase \in Undecided /\ jr.audit = "none" /\ jr'.phase # "NONE"
    BY <1>0, <1>3, ExecuteKeeps DEF Phased, Decided, Undecided
  <2>2. CASE RecordCommitted
    <3>1. jr'.audit = "SUCCEEDED" /\ dest' = dest
      BY <1>0, <2>2 DEF RecordCommitted, Committed, Append, Generations
    <3> QED BY <2>1, <3>1 DEF Undecided
  <2>3. CASE ~RecordCommitted /\ ~Publish
    <3>1. dest' = dest
      BY <1>3, <2>3 DEF Execute, StartCopying, MakeImageRoot, WriteMarker, WriteImage,
         RecordImage,
        FilesReady, DeclareCommit, CreateTemporary, RecordTemporary, WriteTemporary, LinkBackup,
        RecordBackup, RecordExchange, Durable, Writes
    <3>2. jr'.audit = jr.audit
      <4>1. CASE StartCopying \/ FilesReady \/ DeclareCommit \/ RecordExchange
        BY <1>0, <4>1 DEF StartCopying, FilesReady, DeclareCommit, RecordExchange, Durable,
           Append, Generations
      <4>2. CASE RecordImage \/ RecordTemporary \/ RecordBackup
        BY <1>0, <4>2 DEF RecordImage, RecordTemporary, RecordBackup, Durable, Append, Generations
      <4> QED BY <1>3, <2>3, <4>1, <4>2 DEF Execute, MakeImageRoot, WriteMarker, WriteImage,
         Writes,
            CreateTemporary, WriteTemporary, LinkBackup
    <3> QED BY <2>1, <3>1, <3>2 DEF Undecided
  <2> QED BY <2>2, <2>3
<1>4. ASSUME NEW p \in Procs, Cleanup(p) PROVE Quiet
  BY <1>0, <1>4, CleanupKeeps
<1>5. ASSUME NEW p \in Procs, Compaction(p) PROVE Quiet
  <2>1. jr.phase # "NONE" \/ jr' = jr
    BY <1>5 DEF Compaction, StartCompaction, SealOutcome, Compacting, PublishManifest,
       PublishPending, DeletePartialRecord,
       RenameForRetirement, DeleteRetired, RemoveRetirement, Finalize, Retire, IInv, Placed
  <2> QED BY <1>0, <1>5, <2>1, CompactionKeeps
<1>6. CASE RecoverCommitted
  <2>1. /\ jr'.phase = "COLLECTION_COMMITTED"
        /\ jr'.audit = "SUCCEEDED"
        /\ dest' = dest
        /\ jr.phase \in Undecided
    BY <1>0, <1>6 DEF RecoverCommitted, Committed, Append, Generations, AtHead, Undecided
  <2> QED BY <1>0, <2>1 DEF Decided, Undecided
<1>7. CASE Save
  <2>1. jr' = jr /\ (dest' \in Holding <=> dest \in Holding)
    BY <1>7 DEF Save, Holding
  <2> QED BY <2>1
<1>8. CASE Recover /\ ~StartRollback /\ ~RecoverCommitted
  <2>1. UNCHANGED <<dest, jr>>
    BY <1>8 DEF Recover, ResumePending, Scan, CollectOrphan, NothingToRecover, ResumeCompaction,
       Moves,
       DeletePartialManifest, OutcomeRefused, FinishSuccess, ResumeRollback, FailClosed
  <2> QED BY <1>1, <2>1
<1>9. CASE Prepare \/ (\E p \in Procs : RemoveUnjournaled(p) \/ Abort(p) \/ Crash(p)) \/ CollectionChanged
           \/ CreateJournalDirectory \/ WriteJournalOwner \/ StartRecovery \/ ClearStaleLock
           \/ Exit \/ UNCHANGED vars
  <2>1. UNCHANGED <<dest, jr>>
    BY <1>9 DEF Prepare, CreateSnapshot, Cancel, Commit, RemoveUnjournaled, Abort, Crash,
       CollectionChanged,
       CreateJournalDirectory, WriteJournalOwner, StartRecovery, ClearStaleLock, Exit, vars
  <2> QED BY <1>1, <2>1
<1>10. "importer" \in Procs /\ "recovery" \in Procs
  BY DEF Procs
<1> QED
  BY <1>2, <1>3, <1>4, <1>5, <1>6, <1>7, <1>8, <1>9, <1>10
     DEF Next, Importer, Recovering, Environment, R

\* A decision in the journal is final: no step revises it, nor moves the coins
\* into or out of the collection after it.
THEOREM DecisionFinal == Spec => DecisionIsFinal
<1>1. ASSUME IInv, [Next]_vars, jr.audit # "none"
      PROVE  jr'.audit = jr.audit /\ (dest \in Holding <=> dest' \in Holding)
  <2>1. jr.phase \notin Undecided \cup {"NONE"}
    BY <1>1 DEF IInv, Decided
  <2>2. ~Genesis /\ ~Publish /\ ~StartRollback
    BY <2>1, <1>1 DEF IInv, Phased, Before, Genesis, Publish, Committing, StartRollback, AtHead,
       At, Undecided
  <2> QED BY <1>1, <2>2, OutcomeSteps
<1>2. IInv /\ [Next]_vars => [jr.audit # "none" =>
          /\ jr'.audit = jr.audit
          /\ dest \in Holding <=> dest' \in Holding]_vars
  BY <1>1
<1> QED BY Inductive, <1>2, PTL DEF Spec, DecisionIsFinal

\* Only the publication of the pending record makes a record.
LEMMA RecordSteps ==
  ASSUME IInv, [Next]_vars
  PROVE  \/ \E p \in Procs : PublishPending(p)
         \/ /\ Recorded' <=> Recorded
            /\ Recorded => history'.result = history.result
<1> DEFINE Kept == (Recorded' <=> Recorded) /\ (Recorded => history'.result = history.result)
<1>0. history \in Histories
  BY DEF IInv, TypeOK
<1>1. ASSUME UNCHANGED history PROVE Kept
  BY <1>1 DEF Recorded
<1>2. CASE OutcomeRefused
  BY <1>0, <1>2 DEF OutcomeRefused, Recorded, Histories
<1>3. ASSUME NEW p \in Procs, DeletePartialRecord(p) PROVE Kept
  BY <1>0, <1>3 DEF DeletePartialRecord, Recorded, Histories
<1>4. ASSUME NEW p \in Procs, Finalize(p) PROVE Kept
  BY <1>0, <1>4 DEF Finalize, Retiring, Recorded, Histories
<1>5. ASSUME NEW p \in Procs, Abort(p) \/ Crash(p) PROVE Kept
  <2>1. Torn(p)
    BY <1>5 DEF Abort, Crash
  <2>2. CASE history' # history
    <3>1. history.state = "none" /\ history'.state \in {"partial", "complete"}
      BY <2>1, <2>2 DEF Torn, WritingPending
    <3> QED BY <3>1 DEF Recorded
  <2> QED BY <1>1, <2>2
<1>6. CASE Execute
  BY <1>1, <1>6, ExecuteKeeps DEF IInv
<1>7. ASSUME NEW p \in Procs, Cleanup(p) PROVE Kept
  <2>1. history' = history
    BY <1>7, CleanupKeeps DEF IInv
  <2> QED BY <2>1, <1>1
<1>8. CASE Recover /\ ~OutcomeRefused
  <2>1. history' = history
    BY <1>8 DEF Recover, ResumePending, Scan, CollectOrphan, NothingToRecover, ResumeCompaction,
       Moves,
       DeletePartialManifest, FinishSuccess, ResumeRollback, FailClosed, StartRollback,
       RecoverCommitted
  <2> QED BY <1>1, <2>1
<1>9. ASSUME NEW p \in Procs, Compaction(p), ~DeletePartialRecord(p), ~Finalize(p), ~PublishPending(p) PROVE Kept
  <2>1. history' = history
    BY <1>9 DEF Compaction, StartCompaction, SealOutcome, PublishManifest, RenameForRetirement,
       DeleteRetired,
       RemoveRetirement, Retire
  <2> QED BY <1>1, <2>1
<1>10. CASE Prepare \/ (\E p \in Procs : RemoveUnjournaled(p)) \/ CollectionChanged \/ Genesis
           \/ CreateJournalDirectory \/ WriteJournalOwner \/ StartRecovery \/ ClearStaleLock
           \/ Exit \/ Save \/ UNCHANGED vars
  <2>1. history' = history
    BY <1>10 DEF Prepare, CreateSnapshot, Cancel, Commit, RemoveUnjournaled, CollectionChanged,
       Genesis,
       CreateJournalDirectory, WriteJournalOwner, StartRecovery, ClearStaleLock, Exit, Save, vars
  <2> QED BY <1>1, <2>1
<1>11. "importer" \in Procs /\ "recovery" \in Procs
  BY DEF Procs
<1> QED
  BY <1>2, <1>3, <1>4, <1>5, <1>6, <1>7, <1>8, <1>9, <1>10, <1>11
     DEF Next, Importer, Recovering, Environment, R

\* The importer implements AtomicImport: whatever is interrupted, an import is
\* all or nothing, decided once, and truthfully recorded once.
THEOREM KeepsThePromise == Spec => ImplementsPromise
<1> USE DEF Promise!Begin, Promise!Import, Promise!Abandon, Promise!Record
<1> DEFINE Record == IF Recorded THEN history.result ELSE "none"
<1>1. Init => Promise!Init
  BY DEF Init, Promise!Init, Blank, Outcome, Recorded
<1>2. ASSUME IInv, [Next]_vars
      PROVE  Promise!Next \/ UNCHANGED <<Outcome, Record>>
  <2>0. /\ jr \in Generations /\ jr.audit \in Results
        /\ Decided /\ Phased
    BY <1>2 DEF IInv, TypeOK, Generations
  <2>1. CASE Genesis
    <3>1. /\ jr.phase = "NONE"
          /\ jr'.phase = "PREPARED"
          /\ jr'.audit = "none"
          /\ UNCHANGED <<dest, history>>
      BY <2>0, <2>1 DEF Genesis, Blank, Phased, Before, At
    <3>2. dest \notin Holding
      BY <2>0, <3>1 DEF Decided
    <3>3. Outcome = "none" /\ Outcome' = "undecided"
      BY <3>1, <3>2 DEF Outcome
    <3>4. Record' = Record
      BY <3>1 DEF Recorded
    <3> QED BY <3>3, <3>4 DEF Promise!Next
  <2>2. CASE Publish
    <3>1. /\ jr' = jr
          /\ jr.phase = "COMMITTING_COLLECTION"
          /\ dest = "baseline"
          /\ dest' = "prospective"
          /\ history' = history
      BY <2>2 DEF Publish, Committing
    <3>2. jr.audit = "none"
      BY <2>0, <3>1 DEF Decided, Undecided
    <3>3. Outcome = "undecided" /\ Outcome' = "imported"
      BY <3>1, <3>2 DEF Outcome, Holding
    <3>4. Record' = Record
      BY <3>1 DEF Recorded
    <3> QED BY <3>3, <3>4 DEF Promise!Next
  <2>3. CASE StartRollback
    <3>1. /\ jr'.phase = "ROLLING_BACK" /\ jr'.audit = "ROLLED_BACK" /\ jr.phase \in Undecided
          /\ dest = "baseline" /\ dest' = dest /\ history' = history
      BY <2>0, <2>3 DEF StartRollback, Append, Generations, AtHead
    <3>2. jr.audit = "none" /\ jr.phase # "NONE"
      BY <2>0, <3>1 DEF Decided, Undecided
    <3>3. Outcome = "undecided" /\ Outcome' = "abandoned"
      BY <3>1, <3>2 DEF Outcome, Holding
    <3>4. Record' = Record
      BY <3>1 DEF Recorded
    <3> QED BY <3>3, <3>4 DEF Promise!Next
  <2>4. CASE \E p \in Procs : PublishPending(p)
    <3>1. PICK p \in Procs : PublishPending(p)
      BY <2>4
    <3>2. /\ jr' = jr
          /\ dest' = dest
          /\ history' = [state |-> "pending", result |-> jr.audit]
          /\ ~Recorded
      BY <3>1 DEF PublishPending, WritingPending, Recorded
    <3>3. jr.phase = "COMPACTING"
      BY <1>2, <3>1 DEF PublishPending, WritingPending, Compacting, At, IInv, Phased, Decided,
         Placed, Turns,
         ImporterStages, Procs
    <3>4. jr.audit \in {"SUCCEEDED", "ROLLED_BACK"}
      BY <2>0, <3>3 DEF Decided, Undecided, Results
    <3>5. Outcome' = Outcome
      BY <3>2 DEF Outcome
    <3>6. Outcome = IF jr.audit = "SUCCEEDED" THEN "imported" ELSE "abandoned"
      BY <2>0, <3>3, <3>4 DEF Outcome, Decided
    <3>7. Record = "none" /\ Record' = jr.audit
      BY <3>2 DEF Recorded
    <3> QED BY <3>4, <3>5, <3>6, <3>7 DEF Promise!Next
  <2>5. CASE ~Genesis /\ ~Publish /\ ~StartRollback /\ ~\E p \in Procs : PublishPending(p)
    <3>1. Outcome' = Outcome
      BY <1>2, <2>5, OutcomeSteps DEF Outcome
    <3>2. Record' = Record
      BY <1>2, <2>5, RecordSteps
    <3> QED BY <3>1, <3>2
  <2> QED BY <2>1, <2>2, <2>3, <2>4, <2>5
<1>3. IInv /\ [Next]_vars => [Promise!Next]_(Promise!vars)
  BY <1>2 DEF Promise!vars
<1> QED BY Inductive, <1>1, <1>3, PTL DEF Spec, ImplementsPromise, Promise!Spec

-----------------------------------------------------------------------------
(* The journal, and the objects on disk.                                   *)

\* Recovery collects only a snapshot that no journal head names.
Orphaning == pc["recovery"] = "orphan" => ~(Listed /\ jr.snapRef)

\* What the newest generation says of its cleanup, its backup and its T.
Ordered ==
    /\ jr.phase \in Undecided \cup {"NONE"} => jr.receipts = {}
    /\ jr.op = "NONE" => jr.status = "NONE" /\ jr.targets = {} /\ jr.receipts = {}
    /\ jr.op = "BASELINE_BACKUP" =>
        jr.targets = {BackupName} /\ jr.phase = "COLLECTION_COMMITTED" /\ HasBaseline
    /\ jr.op = "SUCCESS_SNAPSHOT" => jr.targets = Snapshot
    /\ jr.op = "ROLLBACK_ALL" => Snapshot \subseteq jr.targets
    /\ jr.status = "COMPLETE" => jr.targets \subseteq jr.receipts
    /\ jr.backup # "NONE" => HasBaseline
    /\ jr.phase = "COLLECTION_COMMITTED" /\ jr.op = "NONE" /\ HasBaseline =>
        jr.backup = "RETAINED"
    /\ jr.phase \in {"NONE", "PREPARED", "COPYING_IMAGES", "FILES_READY"} =>
        jr.temp = "NONE"

\* What is gone: the receipted targets, and of a compacting import everything
\* its outcome does not keep.  A rollback names all of it from the start.
Emptied ==
    /\ \A o \in jr.receipts : ~Present(o)
    /\ jr.op = "ROLLBACK_ALL" =>
        /\ Tree \cap files \subseteq jr.targets
        /\ temp \in {"none", "partial"} \/ "temp" \in jr.targets
    /\ jr.op = "NONE" /\ jr.phase # "COLLECTION_COMMITTED" /\ jr.temp \in {"NONE", "PLANNED"} =>
        temp \in {"none", "partial"}
    /\ jr.phase = "COMPACTING" =>
        /\ Snapshot \cap files = {}
        /\ jr.audit = "SUCCEEDED" => temp = "none" /\ "backup" \notin files
        /\ jr.audit = "ROLLED_BACK" => Tree \cap files = {} /\ temp \in {"none", "partial"}

\* Where the bytes of the old collection are once D no longer holds them, and
\* that nothing else is left under T's name.
Retained ==
    /\ "backup" \in files => Windows /\ HasBaseline
    /\ jr.phase = "COMMITTING_COLLECTION" /\ jr.backup \in {"CREATED", "VERIFIED"} =>
        "backup" \in files
    /\ jr.phase = "COMMITTING_COLLECTION" /\ dest \in Holding =>
        /\ jr.temp \in {"VERIFIED", "EXCHANGED"} /\ BackupFound
        /\ Windows \/ ~HasBaseline => temp = "none"
    /\ jr.phase = "COLLECTION_COMMITTED" /\ jr.op = "NONE" => BackupFound
    /\ jr.phase = "COLLECTION_COMMITTED" /\ jr.op \in {"NONE", "BASELINE_BACKUP"} =>
        (Windows \/ ~HasBaseline => temp = "none")
    /\ jr.op = "SUCCESS_SNAPSHOT" => temp = "none" /\ "backup" \notin files

\* The inductive invariant on top of IInv.
CInv == Orphaning /\ EvidenceKept /\ Ordered /\ Emptied /\ Retained

-----------------------------------------------------------------------------
(* The steps that matter here.                                             *)

\* The names of the objects: T, B, the images and the snapshot are apart.
LEMMA Apart ==
  /\ Tree \cap Snapshot = {} /\ "temp" \notin Tree \cup Snapshot
  /\ "backup" \notin Tree \cup Snapshot
BY ImagesAssumption DEF Tree, Snapshot

\* A step that changes neither the journal nor T, and takes away nothing but
\* members of a snapshot that no journal head names.
Quiet ==
    /\ UNCHANGED <<temp, jr>>
    /\ files' = files \/ ~(Listed /\ jr.snapRef)
    /\ files' \subseteq files /\ files \ files' \subseteq Snapshot
    /\ dest' \in Holding <=> dest \in Holding

\* Every other step creates the snapshot, works for the transaction or the
\* cleanup, or appends one of five generations.
LEMMA Kinds ==
  ASSUME IInv, Orphaning, [Next]_vars
  PROVE  \/ CreateSnapshot \/ Genesis \/ Execute \/ StartRollback \/ RecoverCommitted
         \/ \E p \in Procs : Cleanup(p) \/ StartCompaction(p) \/ SealOutcome(p)
         \/ Quiet
<1> USE DEF Quiet
<1>0. Turns /\ Phased /\ Placed /\ Procs = {"importer", "recovery"}
  BY DEF IInv, Procs
<1>a. pc["importer"] \in Before => ~Listed
  BY <1>0 DEF Phased, Placed, Listed
<1>1. ASSUME NEW p \in Procs, RemoveUnjournaled(p) PROVE Quiet
  <2>1. pc[p] \in {"cancel", "orphan"}
    BY <1>1 DEF RemoveUnjournaled
  <2>2. \/ p = "importer" /\ pc["importer"] = "cancel"
        \/ p = "recovery" /\ pc["recovery"] = "orphan"
    BY <1>0, <2>1 DEF Turns, ImporterStages, RecoveryStages
  <2>3. ~(Listed /\ jr.snapRef)
    BY <1>a, <2>2 DEF Before, Orphaning
  <2> QED BY <1>1, <2>3 DEF RemoveUnjournaled
<1>2. ASSUME NEW p \in Procs, Abort(p) PROVE Quiet
  <2>1. files' = files \/ (At(p, "preparing") /\ files' = files \ Snapshot)
    BY <1>2 DEF Abort
  <2>2. At(p, "preparing") => ~Listed
    BY <1>0, <1>a DEF Turns, RecoveryStages, At, Before
  <2> QED BY <1>2, <2>1, <2>2 DEF Abort
<1>3. ASSUME NEW p \in Procs, Crash(p) PROVE Quiet
  BY <1>3 DEF Crash
<1>4. ASSUME NEW p \in Procs, Compaction(p), ~StartCompaction(p), ~SealOutcome(p) PROVE Quiet
  BY <1>4 DEF Compaction, PublishManifest, PublishPending, DeletePartialRecord,
     RenameForRetirement, DeleteRetired, RemoveRetirement, Finalize, Retire
<1>5. CASE Recover /\ ~StartRollback /\ ~RecoverCommitted
  BY <1>5 DEF Recover, ResumePending, Scan, CollectOrphan, NothingToRecover, ResumeCompaction,
     Moves, DeletePartialManifest, OutcomeRefused, FinishSuccess, ResumeRollback, FailClosed
<1>6. CASE Save
  BY <1>6 DEF Save, Holding
<1>7. CASE Cancel \/ Commit \/ CollectionChanged \/ CreateJournalDirectory \/ WriteJournalOwner
           \/ StartRecovery \/ ClearStaleLock \/ Exit \/ UNCHANGED vars
  BY <1>7 DEF Cancel, Commit, CollectionChanged, CreateJournalDirectory, WriteJournalOwner,
     StartRecovery, ClearStaleLock, Exit, vars
<1>8. "importer" \in Procs /\ "recovery" \in Procs
  BY DEF Procs
<1> QED
  BY <1>1, <1>2, <1>3, <1>4, <1>5, <1>6, <1>7, <1>8
     DEF Next, Prepare, Importer, Recovering, Environment, R

\* Whoever appends during a cleanup or a compaction has a live journal.
LEMMA CleanupLive ==
  ASSUME IInv, NEW p \in Procs, Cleanup(p)
  PROVE  Listed /\ jr.phase \in {"COLLECTION_COMMITTED", "ROLLING_BACK"}
<1>1. TypeOK /\ Turns /\ Phased /\ Decided /\ Placed
  BY DEF IInv
<1>2. jr.phase \in {"COLLECTION_COMMITTED", "ROLLING_BACK"}
  BY <1>1, CleanupKeeps DEF Phased, Turns, ImporterStages, Procs
<1>3. ~Recorded
  BY <1>1, <1>2 DEF Decided, Recorded
<1> QED BY <1>1, <1>2, <1>3 DEF Placed, Listed

-----------------------------------------------------------------------------
(* Orphaning and EvidenceKept: the snapshot.                               *)

\* While recovery collects an orphan nobody adds a generation: the importer that
\* could is gone.
LEMMA OrphaningStep == IInv /\ Orphaning /\ [Next]_vars => Orphaning'
<1> SUFFICES ASSUME IInv, Orphaning, [Next]_vars, pc'["recovery"] = "orphan"
             PROVE  ~(Listed /\ jr.snapRef)'
  BY DEF Orphaning
<1>0. /\ pc \in [Procs -> Stages] /\ Procs = {"importer", "recovery"}
      /\ Turns /\ pc["recovery"] \in RecoveryStages /\ pc["importer"] \in ImporterStages
  BY DEF IInv, TypeOK, Procs, Turns
<1>a. pc["recovery"] = "orphan" => pc["importer"] = "ended" /\ lock = "recovery"
  BY <1>0 DEF Turns
<1> USE DEF RecoveryStages, ImporterStages
<1>1. CASE CollectOrphan
  BY <1>1 DEF CollectOrphan, Orphaned, Listed
<1>2. ASSUME pc["recovery"] = "orphan", UNCHANGED <<store, jr>> PROVE ~(Listed /\ jr.snapRef)'
  BY <1>2 DEF Orphaning, Listed
<1>3. CASE Prepare
  BY <1>0, <1>a, <1>3 DEF Prepare, CreateSnapshot, Cancel, Commit, At, Goto
<1>4. CASE CollectionChanged \/ CreateJournalDirectory \/ WriteJournalOwner \/ Genesis
  BY <1>0, <1>a, <1>4 DEF CollectionChanged, CreateJournalDirectory, WriteJournalOwner, Genesis,
     At, Goto
<1>5. CASE Execute
  <2>1. pc["importer"] = "execute" /\ UNCHANGED lock
    BY <1>5, ExecuteKeeps DEF IInv
  <2>2. pc'["recovery"] = pc["recovery"]
    <3>1. pc' = pc \/ pc' = [pc EXCEPT !["importer"] = "success"]
      BY <1>5 DEF Execute, StartCopying, MakeImageRoot, WriteMarker, WriteImage, RecordImage,
         FilesReady, DeclareCommit, CreateTemporary, RecordTemporary, WriteTemporary, LinkBackup,
         RecordBackup, Publish, RecordExchange, RecordCommitted, Durable, Writes, Goto
    <3> QED BY <1>0, <3>1
  <2> QED BY <1>a, <2>1, <2>2
<1>6. ASSUME NEW p \in Procs, Cleanup(p) PROVE ~(Listed /\ jr.snapRef)'
  BY <1>0, <1>a, <1>6, CleanupKeeps DEF IInv
<1>7. ASSUME NEW p \in Procs, Compaction(p) PROVE ~(Listed /\ jr.snapRef)'
  <2>1. pc[p] \in {"success", "rollback", "resume", "compact", "recompact", "retire"}
    BY <1>7 DEF Compaction, StartCompaction, PublishManifest, WritingManifest, SealOutcome,
       PublishPending, WritingPending, DeletePartialRecord, RenameForRetirement, DeleteRetired,
       RemoveRetirement, Finalize, Retire, Retiring, Compacting, At
  <2>2. pc'["recovery"] = pc["recovery"] \/ pc'["recovery"] \in {"compact", "scan", "idle"}
    BY <1>0, <1>7 DEF Compaction, StartCompaction, PublishManifest, SealOutcome,
       PublishPending, DeletePartialRecord, RenameForRetirement, DeleteRetired,
       RemoveRetirement, Finalize, Retire, LeaveLocked, Rest, Goto
  <2> QED BY <1>0, <1>a, <2>1, <2>2
<1>8. CASE Recover /\ ~CollectOrphan
  <2>1. pc["recovery"] # "orphan"
    BY <1>0, <1>8 DEF Recover, ResumePending, Scan, NothingToRecover, ResumeCompaction, Moves,
       DeletePartialManifest, OutcomeRefused, RecoverCommitted, FinishSuccess, StartRollback,
       ResumeRollback, FailClosed, LeaveLocked, Rest, Goto, R, At, AtHead
  <2> QED
    BY <1>0, <1>8, <2>1 DEF Recover, ResumePending, Scan, NothingToRecover, ResumeCompaction, Moves,
       DeletePartialManifest, OutcomeRefused, RecoverCommitted, FinishSuccess, StartRollback,
       ResumeRollback, FailClosed, LeaveLocked, Rest, Goto, R
<1>9. ASSUME NEW p \in Procs, RemoveUnjournaled(p) PROVE ~(Listed /\ jr.snapRef)'
  BY <1>0, <1>2, <1>9 DEF RemoveUnjournaled, Goto
<1>10. ASSUME NEW p \in Procs, Abort(p) \/ Crash(p) PROVE ~(Listed /\ jr.snapRef)'
  <2>1. ~At(p, Rest(p))
    BY <1>10 DEF Abort, Crash
  <2>2. p = "recovery" => pc'["recovery"] # "orphan"
    BY <1>0, <1>10 DEF Abort, Crash, LeaveLocked, Goto, Rest
  <2>3. p = "importer" => pc'["recovery"] = pc["recovery"]
    BY <1>0, <1>10 DEF Abort, Crash, LeaveLocked, Goto, Rest
  <2> QED BY <1>0, <1>a, <2>1, <2>2, <2>3 DEF At, Rest
<1>11. CASE StartRecovery \/ ClearStaleLock \/ Exit \/ Save \/ UNCHANGED vars
  BY <1>0, <1>2, <1>11 DEF StartRecovery, ClearStaleLock, Exit, Save, vars, Goto, R
<1> QED
  BY <1>0, <1>1, <1>3, <1>4, <1>5, <1>6, <1>7, <1>8, <1>9, <1>10, <1>11
     DEF Next, Importer, Recovering, Environment, R

\* Only generation zero makes a head out of a journal directory.
LEMMA ListedSteps ==
  ASSUME IInv, [Next]_vars, Listed', ~Genesis
  PROVE  Listed
<1>0. store \in Stores /\ store' \in Stores /\ Placed /\ Phased /\ TypeOK /\ Turns
  <2>1. TypeOK'
    BY TypeOKStep DEF IInv
  <2> QED BY <2>1 DEF IInv, TypeOK
<1> USE DEF Listed
<1>1. ASSUME UNCHANGED <<store>> PROVE Listed
  BY <1>1
<1>2. CASE CreateJournalDirectory
  <2>1. jr.phase = "NONE"
    BY <1>0, <1>2 DEF CreateJournalDirectory, At, Phased, Before
  <2>2. store.chain = 0 /\ store' = [store EXCEPT !.dir = "active"]
    BY <1>0, <1>2, <2>1 DEF CreateJournalDirectory, Placed
  <2>3. store'.chain = 0
    BY <1>0, <2>2 DEF Stores
  <2> QED BY <2>3
<1>3. CASE WriteJournalOwner
  BY <1>0, <1>3 DEF WriteJournalOwner, Stores
<1>4. CASE Execute
  <2>1. jr.phase \in Undecided
    BY <1>0, <1>4, ExecuteKeeps DEF Phased
  <2>2. ~Recorded
    BY <2>1 DEF IInv, Decided, Recorded, Undecided
  <2> QED BY <1>0, <2>1, <2>2 DEF Placed, Undecided
<1>5. ASSUME NEW p \in Procs, Cleanup(p) PROVE Listed
  BY <1>5, CleanupLive
<1>6. ASSUME NEW p \in Procs, Compaction(p) PROVE Listed
  <2>1. CASE StartCompaction(p)
    <3>1. jr.phase \in {"COLLECTION_COMMITTED", "ROLLING_BACK"}
      BY <2>1 DEF StartCompaction
    <3>2. ~Recorded
      BY <3>1 DEF IInv, Decided, Recorded
    <3> QED BY <1>0, <3>1, <3>2 DEF Placed
  <2>2. CASE SealOutcome(p)
    <3>1. jr.compaction = "PLANNING"
      BY <2>2 DEF SealOutcome
    <3>2. ~Recorded /\ jr.phase # "NONE"
      BY <1>0, <3>1 DEF Placed, Recorded
    <3> QED BY <1>0, <3>2 DEF Placed
  <2>3. CASE PublishManifest(p)
    BY <1>0, <2>3 DEF PublishManifest, Stores
  <2>4. CASE RenameForRetirement(p)
    BY <1>0, <2>4 DEF RenameForRetirement, Retire, Stores
  <2>5. CASE DeleteRetired(p)
    BY <1>0, <2>5 DEF DeleteRetired, Retire, Stores
  <2>6. CASE RemoveRetirement(p)
    BY <1>0, <2>6 DEF RemoveRetirement, Retire, Stores
  <2>7. CASE PublishPending(p) \/ DeletePartialRecord(p) \/ Finalize(p)
    BY <1>1, <2>7 DEF PublishPending, DeletePartialRecord, Finalize
  <2> QED BY <1>6, <2>1, <2>2, <2>3, <2>4, <2>5, <2>6, <2>7 DEF Compaction
<1>7. CASE Recover
  <2>1. CASE StartRollback \/ RecoverCommitted
    BY <2>1 DEF StartRollback, RecoverCommitted, AtHead
  <2>2. CASE DeletePartialManifest
    BY <1>0, <2>2 DEF DeletePartialManifest, Stores
  <2> QED BY <1>1, <1>7, <2>1, <2>2 DEF Recover, ResumePending, Scan, CollectOrphan,
     NothingToRecover, ResumeCompaction, Moves, OutcomeRefused, FinishSuccess, ResumeRollback,
     FailClosed
<1>8. ASSUME NEW p \in Procs, Abort(p) \/ Crash(p) PROVE Listed
  <2>1. Torn(p)
    BY <1>8 DEF Abort, Crash
  <2>2. store' = store \/ \E m \in {"partial", "complete"} : store' = [store EXCEPT !.manifest = m]
    BY <2>1 DEF Torn
  <2> QED BY <1>0, <2>2 DEF Stores
<1>9. CASE Prepare \/ (\E p \in Procs : RemoveUnjournaled(p)) \/ CollectionChanged
           \/ StartRecovery \/ ClearStaleLock \/ Exit \/ Save \/ UNCHANGED vars
  BY <1>1, <1>9 DEF Prepare, CreateSnapshot, Cancel, Commit, RemoveUnjournaled,
     CollectionChanged, StartRecovery, ClearStaleLock, Exit, Save, vars
<1>10. "importer" \in Procs /\ "recovery" \in Procs
  BY DEF Procs
<1> QED
  BY <1>2, <1>3, <1>4, <1>5, <1>6, <1>7, <1>8, <1>9, <1>10
     DEF Next, Importer, Recovering, Environment, R

\* Of the steps of the transaction none drops the journal's reference to the
\* package, and its cleanup fields stay empty.
LEMMA ExecuteJournal ==
  ASSUME IInv, Execute
  PROVE  /\ jr'.snapRef = jr.snapRef /\ jr'.receipts = jr.receipts
         /\ jr.phase \in Undecided /\ Listed
         /\ jr.op = "NONE" /\ jr.status = "NONE" /\ jr.targets = {}
         /\ jr'.op = "NONE" /\ jr'.status = "NONE" /\ jr'.targets = {}
<1>0. jr \in Generations /\ TypeOK
  BY DEF IInv, TypeOK
<1>1. jr.phase \in Undecided
  BY <1>0, ExecuteKeeps DEF IInv, Phased
<1>2. ~Recorded
  BY <1>1 DEF IInv, Decided, Recorded, Undecided
<1>3. Listed
  BY <1>1, <1>2 DEF IInv, Placed, Undecided, Listed
<1>4. jr'.snapRef = jr.snapRef /\ jr'.receipts = jr.receipts
  <2>1. CASE StartCopying \/ FilesReady \/ DeclareCommit \/ RecordExchange
    BY <1>0, <2>1 DEF StartCopying, FilesReady, DeclareCommit, RecordExchange, Durable, Append,
       Generations
  <2>2. CASE RecordImage \/ RecordTemporary \/ RecordBackup
    BY <1>0, <2>2 DEF RecordImage, RecordTemporary, RecordBackup, Durable, Append, Generations
  <2>3. CASE RecordCommitted
    BY <1>0, <2>3 DEF RecordCommitted, Committed, Append, Generations
  <2>4. CASE MakeImageRoot \/ WriteMarker \/ WriteImage \/ CreateTemporary \/ WriteTemporary
             \/ LinkBackup \/ Publish
    BY <2>4 DEF MakeImageRoot, WriteMarker, WriteImage, Writes, CreateTemporary, WriteTemporary,
       LinkBackup, Publish
  <2> QED BY <2>1, <2>2, <2>3, <2>4 DEF Execute
<1> QED BY <1>0, <1>1, <1>3, <1>4, ExecuteKeeps DEF IInv, Imaged

\* The evidence of a referenced package survives until its own cleanup.
LEMMA EvidenceStep ==
  IInv /\ Orphaning /\ Ordered /\ EvidenceKept /\ [Next]_vars => EvidenceKept'
<1> SUFFICES ASSUME IInv, Orphaning, Ordered, EvidenceKept, [Next]_vars,
                    Listed', jr'.snapRef, jr'.op \in {"NONE", "BASELINE_BACKUP"}
             PROVE  SnapshotWhole'
  BY DEF EvidenceKept
<1>0. jr \in Generations /\ TypeOK
  BY DEF IInv, TypeOK
<1>1. CASE Genesis
  BY <1>1 DEF Genesis, IInv, Held, At, SnapshotWhole
<1>2. ASSUME ~Genesis, jr.snapRef, jr.op \in {"NONE", "BASELINE_BACKUP"} PROVE SnapshotWhole
  BY <1>2, ListedSteps DEF EvidenceKept
<1>3. CASE Quiet /\ ~Genesis
  BY <1>2, <1>3, ListedSteps DEF Quiet, SnapshotWhole
<1>4. CASE CreateSnapshot /\ ~Genesis
  BY <1>2, <1>4 DEF CreateSnapshot, SnapshotWhole
<1>5. CASE Execute /\ ~Genesis
  BY <1>0, <1>2, <1>5, ExecuteJournal, ExecuteKeeps DEF SnapshotWhole
<1>6. CASE StartRollback /\ ~Genesis
  <2>1. jr'.snapRef = jr.snapRef /\ jr'.op = jr.op /\ files' = files
    BY <1>0, <1>6 DEF StartRollback, Append, Generations
  <2> QED BY <1>2, <1>6, <2>1 DEF SnapshotWhole
<1>7. CASE RecoverCommitted /\ ~Genesis
  <2>1. jr'.snapRef = jr.snapRef /\ jr'.op = jr.op /\ files' = files
    BY <1>0, <1>7 DEF RecoverCommitted, Committed, Append, Generations
  <2> QED BY <1>2, <1>7, <2>1 DEF SnapshotWhole
<1>8. ASSUME NEW p \in Procs, StartCompaction(p) \/ SealOutcome(p), ~Genesis
      PROVE  SnapshotWhole'
  <2>1. jr'.snapRef = jr.snapRef /\ jr'.op = jr.op /\ files' = files
    BY <1>0, <1>8 DEF StartCompaction, SealOutcome, Append, Generations
  <2> QED BY <1>2, <1>8, <2>1 DEF SnapshotWhole
<1>9. ASSUME NEW p \in Procs, Cleanup(p), ~Genesis PROVE SnapshotWhole'
  <2>1. CASE BackupIntent(p)
    <3>1. jr'.snapRef = jr.snapRef /\ jr.op = "NONE" /\ files' = files
      BY <1>0, <2>1 DEF BackupIntent, Intend, Append, Generations
    <3> QED BY <1>2, <1>9, <3>1 DEF SnapshotWhole
  <2>2. CASE SnapshotIntent(p) \/ RollbackIntent(p)
    <3>1. jr'.op \in {"SUCCESS_SNAPSHOT", "ROLLBACK_ALL"}
      BY <1>0, <2>2 DEF SnapshotIntent, RollbackIntent, Intend, Append, Generations
    <3> QED BY <3>1
  <2>3. CASE RemoveTarget(p)
    <3>1. jr' = jr /\ jr.status = "INTENT"
      BY <2>3 DEF RemoveTarget, Cleaning
    <3>2. jr.targets = {BackupName}
      BY <3>1 DEF Ordered
    <3>3. files \ files' \subseteq {BackupName}
      BY <2>3, <3>2 DEF RemoveTarget, Owing
    <3>4. BackupName \notin Snapshot
      BY Apart DEF BackupName
    <3> QED BY <1>2, <1>9, <3>1, <3>3, <3>4 DEF SnapshotWhole
  <2>4. CASE ReceiptTarget(p)
    <3>1. (jr'.snapRef => jr.snapRef) /\ jr'.op = jr.op /\ files' = files
      <4>1. PICK o \in Owing : jr' = [jr EXCEPT
               !.receipts = @ \cup {o},
               !.backup = IF jr.op = "BASELINE_BACKUP" THEN "CLEANED" ELSE @,
               !.snapRef = @ /\ o \notin Snapshot
                             /\ ~(At(p, "resume") /\ jr.op # "BASELINE_BACKUP")]
        BY <2>4 DEF ReceiptTarget, Append
      <4>2. jr'.snapRef = (jr.snapRef /\ o \notin Snapshot
                             /\ ~(At(p, "resume") /\ jr.op # "BASELINE_BACKUP"))
        BY <1>0, <4>1, Zenon DEF Generations
      <4>3. jr'.op = jr.op
        BY <1>0, <4>1 DEF Generations
      <4> QED BY <2>4, <4>2, <4>3 DEF ReceiptTarget
    <3> QED BY <1>2, <1>9, <3>1 DEF SnapshotWhole
  <2>5. CASE CompleteCleanup(p)
    <3>1. jr'.snapRef = jr.snapRef /\ jr'.op = jr.op /\ files' = files
      BY <1>0, <2>5 DEF CompleteCleanup, Append, Generations
    <3> QED BY <1>2, <1>9, <3>1 DEF SnapshotWhole
  <2> QED BY <1>9, <2>1, <2>2, <2>3, <2>4, <2>5 DEF Cleanup
<1> QED BY <1>1, <1>3, <1>4, <1>5, <1>6, <1>7, <1>8, <1>9, Kinds

-----------------------------------------------------------------------------
(* Ordered: what the generations say of the cleanup, the backup and T.     *)

\* The fields that an append by compaction leaves alone.
LEMMA CompactionJournal ==
  ASSUME TypeOK, NEW p \in Procs, StartCompaction(p) \/ SealOutcome(p)
  PROVE  /\ jr'.op = jr.op /\ jr'.status = jr.status /\ jr'.targets = jr.targets
         /\ jr'.receipts = jr.receipts /\ jr'.audit = jr.audit
         /\ \/ StartCompaction(p) /\ jr'.phase = "COMPACTING" /\ jr'.backup = "NONE" /\ jr'.temp = "NONE"
            \/ SealOutcome(p) /\ jr'.phase = jr.phase /\ jr'.backup = jr.backup /\ jr'.temp = jr.temp
         /\ UNCHANGED <<dest, temp, files>>
<1>0. jr \in Generations
  BY DEF TypeOK
<1>1. CASE StartCompaction(p)
  BY <1>0, <1>1 DEF StartCompaction, Append, Generations
<1>2. CASE SealOutcome(p)
  BY <1>0, <1>2 DEF SealOutcome, Append, Generations
<1> QED BY <1>1, <1>2

\* What a new intent says.
LEMMA Intended ==
  ASSUME TypeOK, NEW p \in Procs, NEW k, NEW S, Intend(p, k, S)
  PROVE  /\ jr'.op = k /\ jr'.targets = S /\ jr'.receipts = {} /\ jr'.status = "INTENT"
         /\ jr'.phase = jr.phase /\ jr'.backup = jr.backup /\ jr'.temp = jr.temp
         /\ jr'.audit = jr.audit
BY DEF TypeOK, Intend, Append, Generations

\* What a receipt says.
LEMMA Receipted ==
  ASSUME TypeOK, NEW p \in Procs, ReceiptTarget(p)
  PROVE  /\ \E o \in Owing : ~Present(o) /\ jr'.receipts = jr.receipts \cup {o}
         /\ jr'.op = jr.op /\ jr'.targets = jr.targets /\ jr'.status = jr.status
         /\ jr'.phase = jr.phase /\ jr'.temp = jr.temp /\ jr'.audit = jr.audit
         /\ jr'.backup = (IF jr.op = "BASELINE_BACKUP" THEN "CLEANED" ELSE jr.backup)
         /\ jr.status = "INTENT"
         /\ UNCHANGED <<dest, temp, files>>
<1>0. jr \in Generations
  BY DEF TypeOK
<1>1. PICK o \in Owing :
         /\ ~Present(o)
         /\ jr' = [jr EXCEPT
               !.receipts = @ \cup {o},
               !.backup = IF jr.op = "BASELINE_BACKUP" THEN "CLEANED" ELSE @,
               !.snapRef = @ /\ o \notin Snapshot
                             /\ ~(At(p, "resume") /\ jr.op # "BASELINE_BACKUP")]
  BY DEF ReceiptTarget, Append
<1>2. jr'.receipts = jr.receipts \cup {o}
  BY <1>0, <1>1 DEF Generations
<1>3. /\ jr'.op = jr.op /\ jr'.targets = jr.targets /\ jr'.status = jr.status
      /\ jr'.phase = jr.phase /\ jr'.temp = jr.temp /\ jr'.audit = jr.audit
  BY <1>0, <1>1 DEF Generations
<1>4. jr'.backup = (IF jr.op = "BASELINE_BACKUP" THEN "CLEANED" ELSE jr.backup)
  BY <1>0, <1>1 DEF Generations
<1>5. jr.status = "INTENT" /\ UNCHANGED <<dest, temp, files>>
  BY DEF ReceiptTarget, Cleaning
<1> QED BY <1>1, <1>2, <1>3, <1>4, <1>5

\* What completing a cleanup says.
LEMMA Completed ==
  ASSUME TypeOK, NEW p \in Procs, CompleteCleanup(p)
  PROVE  /\ jr'.status = "COMPLETE" /\ jr.status = "INTENT" /\ jr.targets \subseteq jr.receipts
         /\ jr'.op = jr.op /\ jr'.targets = jr.targets /\ jr'.receipts = jr.receipts
         /\ jr'.phase = jr.phase /\ jr'.backup = jr.backup /\ jr'.temp = jr.temp
         /\ jr'.audit = jr.audit
         /\ UNCHANGED <<dest, temp, files>>
BY DEF TypeOK, CompleteCleanup, Cleaning, Owing, Append, Generations

\* What the two decisions of recovery say.
LEMMA RecoveryDecides ==
  ASSUME TypeOK, StartRollback \/ RecoverCommitted
  PROVE  /\ jr'.op = jr.op /\ jr'.status = jr.status /\ jr'.targets = jr.targets
         /\ jr'.receipts = jr.receipts /\ jr.phase \in Undecided
         /\ UNCHANGED <<dest, temp, files>>
         /\ \/ StartRollback /\ jr'.phase = "ROLLING_BACK" /\ jr'.temp = jr.temp
                  /\ jr'.backup = jr.backup
            \/ RecoverCommitted /\ jr'.phase = "COLLECTION_COMMITTED" /\ jr'.temp = "PUBLISHED"
                  /\ jr'.backup = (IF HasBaseline THEN "RETAINED" ELSE "NONE")
<1>0. jr \in Generations
  BY DEF TypeOK
<1>1. CASE StartRollback
  BY <1>0, <1>1 DEF StartRollback, AtHead, Append, Generations
<1>2. CASE RecoverCommitted
  BY <1>0, <1>2 DEF RecoverCommitted, Committed, AtHead, Append, Generations, Undecided
<1> QED BY <1>1, <1>2

\* Every step keeps Ordered.
LEMMA OrderedStep == IInv /\ Orphaning /\ Ordered /\ [Next]_vars => Ordered'
<1> SUFFICES ASSUME IInv, Orphaning, Ordered, [Next]_vars PROVE Ordered'
  OBVIOUS
<1> USE DEF Ordered, Undecided
<1>0. /\ jr \in Generations /\ TypeOK /\ Phased /\ Turns
      /\ BackupName' = BackupName
  BY DEF IInv, TypeOK, BackupName
<1>1. CASE UNCHANGED jr
  BY <1>0, <1>1
<1>2. CASE Genesis
  <2>1. /\ jr'.phase = "PREPARED" /\ jr'.op = "NONE" /\ jr'.status = "NONE" /\ jr'.targets = {}
        /\ jr'.receipts = {} /\ jr'.backup = "NONE" /\ jr'.temp = "NONE"
    BY <1>2 DEF Genesis, Blank
  <2> QED BY <2>1
<1>3. CASE Execute
  <2>1. /\ jr'.op = "NONE" /\ jr'.status = "NONE" /\ jr'.targets = {} /\ jr'.receipts = {}
    BY <1>3, ExecuteJournal
  <2>2. /\ jr'.backup # "NONE" => HasBaseline
        /\ jr'.phase = "COLLECTION_COMMITTED" /\ HasBaseline => jr'.backup = "RETAINED"
        /\ jr'.phase \in {"NONE", "PREPARED", "COPYING_IMAGES", "FILES_READY"} => jr'.temp = "NONE"
    <3>1. CASE StartCopying \/ FilesReady \/ DeclareCommit \/ RecordExchange
      BY <1>0, <3>1 DEF StartCopying, FilesReady, DeclareCommit, RecordExchange, Committing,
         Durable, Append, Generations
    <3>2. CASE RecordImage \/ RecordTemporary \/ RecordBackup
      BY <1>0, <3>2 DEF RecordImage, RecordTemporary, RecordBackup, Committing, Durable, Append,
         Generations
    <3>3. CASE RecordCommitted
      BY <1>0, <3>3 DEF RecordCommitted, Committed, Append, Generations
    <3>4. CASE MakeImageRoot \/ WriteMarker \/ WriteImage \/ CreateTemporary \/ WriteTemporary
               \/ LinkBackup \/ Publish
      <4>1. jr' = jr /\ jr.phase \in Undecided
        BY <1>3, <3>4, ExecuteJournal DEF MakeImageRoot, WriteMarker, WriteImage, Writes,
           CreateTemporary, WriteTemporary, LinkBackup, Publish
      <4> QED BY <4>1
    <3> QED BY <1>3, <3>1, <3>2, <3>3, <3>4 DEF Execute
  <2> QED BY <2>1, <2>2
<1>4. CASE StartRollback \/ RecoverCommitted
  BY <1>0, <1>4, RecoveryDecides DEF IInv, Imaged
<1>5. ASSUME NEW p \in Procs, StartCompaction(p) \/ SealOutcome(p) PROVE Ordered'
  <2>1. StartCompaction(p) => jr.op \in {"SUCCESS_SNAPSHOT", "ROLLBACK_ALL"}
    BY DEF StartCompaction
  <2>2. SealOutcome(p) => jr.phase = "COMPACTING"
    BY <1>0 DEF SealOutcome, IInv, Placed
  <2> QED BY <1>0, <1>5, <2>1, <2>2, CompactionJournal
<1>6. ASSUME NEW p \in Procs, Cleanup(p) PROVE Ordered'
  <2>0. jr.phase \in {"COLLECTION_COMMITTED", "ROLLING_BACK"}
    BY <1>6, CleanupLive
  <2>1. CASE BackupIntent(p)
    <3>1. Intend(p, "BASELINE_BACKUP", {BackupName}) /\ jr.backup = "RETAINED"
          /\ jr.phase = "COLLECTION_COMMITTED"
      BY <1>0, <2>1 DEF BackupIntent, At, Phased
    <3> QED BY <1>0, <3>1, Intended
  <2>2. CASE SnapshotIntent(p)
    <3>1. Intend(p, "SUCCESS_SNAPSHOT", Snapshot)
      BY <2>2 DEF SnapshotIntent
    <3> QED BY <1>0, <2>0, <3>1, Intended
  <2>3. CASE RollbackIntent(p)
    <3>1. Intend(p, "ROLLBACK_ALL", RollbackTargets)
      BY <2>3 DEF RollbackIntent
    <3>2. Snapshot \subseteq RollbackTargets
      BY DEF RollbackTargets
    <3> QED BY <1>0, <2>0, <3>1, <3>2, Intended
  <2>4. CASE RemoveTarget(p)
    BY <1>1, <2>4 DEF RemoveTarget
  <2>5. CASE ReceiptTarget(p)
    BY <1>0, <2>0, <2>5, Receipted
  <2>6. CASE CompleteCleanup(p)
    BY <1>0, <2>0, <2>6, Completed
  <2> QED BY <1>6, <2>1, <2>2, <2>3, <2>4, <2>5, <2>6 DEF Cleanup
<1> QED BY <1>1, <1>2, <1>3, <1>4, <1>5, <1>6, Kinds DEF Quiet, CreateSnapshot

-----------------------------------------------------------------------------
(* Emptied: what is receipted, rolled back or compacted is gone.           *)

\* Every step keeps Emptied.
LEMMA EmptiedStep ==
  IInv /\ Orphaning /\ Ordered /\ Retained /\ Emptied /\ [Next]_vars => Emptied'
<1> SUFFICES ASSUME IInv, Orphaning, Ordered, Retained, Emptied, [Next]_vars PROVE Emptied'
  OBVIOUS
<1> USE DEF Emptied, Undecided
<1>0. /\ jr \in Generations /\ TypeOK /\ Phased /\ Turns /\ Decided
      /\ pc["importer"] \in ImporterStages
  BY DEF IInv, TypeOK, Turns
<1>a. Snapshot \cap {"temp", "backup"} = {} /\ Tree \cap {"temp", "backup"} = {}
  BY Apart
<1>1. CASE Quiet
  BY <1>1 DEF Quiet, Present
<1>2. CASE CreateSnapshot
  <2>1. jr.phase = "NONE" /\ jr' = jr /\ temp' = temp
    BY <1>0, <1>2 DEF CreateSnapshot, Phased, Before
  <2>2. jr.receipts = {} /\ jr.op = "NONE"
    BY <2>1 DEF Ordered, IInv, Imaged
  <2> QED BY <2>1, <2>2
<1>3. CASE Genesis
  <2>1. /\ jr'.phase = "PREPARED" /\ jr'.op = "NONE" /\ jr'.receipts = {} /\ jr'.temp = "NONE"
        /\ temp' = temp
    BY <1>3 DEF Genesis, Blank
  <2>2. jr.phase = "NONE" /\ jr.op = "NONE" /\ jr.temp = "NONE"
    BY <1>0, <1>3 DEF Genesis, At, Phased, Before, Ordered, IInv, Imaged
  <2> QED BY <2>1, <2>2
<1>4. CASE Execute
  <2>1. jr'.op = "NONE" /\ jr.op = "NONE" /\ jr'.receipts = {} /\ jr.phase \in Undecided
    BY <1>4, ExecuteJournal DEF Ordered
  <2>2. jr'.phase # "COMPACTING"
    BY <1>0, <1>4, <2>1, ExecuteKeeps
  <2>3. jr'.phase # "COLLECTION_COMMITTED" /\ jr'.temp \in {"NONE", "PLANNED"} =>
          temp' \in {"none", "partial"}
    <3>1. CASE StartCopying \/ FilesReady \/ DeclareCommit \/ RecordExchange
      BY <1>0, <2>1, <3>1 DEF Ordered, StartCopying, FilesReady, DeclareCommit, RecordExchange,
         Committing, Durable, Append, Generations
    <3>2. CASE RecordImage \/ RecordTemporary \/ RecordBackup
      BY <1>0, <2>1, <3>2 DEF RecordImage, RecordTemporary, RecordBackup, Committing, Durable,
         Append, Generations
    <3>3. CASE RecordCommitted
      BY <1>0, <3>3 DEF RecordCommitted, Committed, Append, Generations
    <3>4. CASE MakeImageRoot \/ WriteMarker \/ WriteImage \/ LinkBackup
      BY <2>1, <3>4 DEF MakeImageRoot, WriteMarker, WriteImage, Writes, LinkBackup
    <3>5. CASE CreateTemporary \/ WriteTemporary \/ Publish
      BY <2>1, <3>5 DEF CreateTemporary, WriteTemporary, Publish
    <3> QED BY <1>4, <3>1, <3>2, <3>3, <3>4, <3>5 DEF Execute
  <2> QED BY <2>1, <2>2, <2>3
<1>5. CASE StartRollback \/ RecoverCommitted
  <2>1. jr.op = "NONE" /\ jr.receipts = {}
    BY <1>0, <1>5, RecoveryDecides DEF Ordered, IInv, Imaged
  <2> QED BY <1>0, <1>5, <2>1, RecoveryDecides
<1>6. ASSUME NEW p \in Procs, StartCompaction(p) PROVE Emptied'
  <2>0. /\ jr'.op = jr.op /\ jr'.targets = jr.targets /\ jr'.receipts = jr.receipts
        /\ jr'.audit = jr.audit /\ UNCHANGED <<temp, files>>
    BY <1>0, <1>6, CompactionJournal
  <2>1. /\ jr.status = "COMPLETE"
        /\ \/ jr.phase = "COLLECTION_COMMITTED" /\ jr.op = "SUCCESS_SNAPSHOT"
           \/ jr.phase = "ROLLING_BACK" /\ jr.op = "ROLLBACK_ALL"
    BY <1>6 DEF StartCompaction
  <2>2. \A o \in jr.targets : ~Present(o)
    BY <2>1 DEF Ordered
  <2>3. Snapshot \cap files = {}
    BY <1>a, <2>1, <2>2 DEF Ordered, Present
  <2>4. CASE jr.op = "SUCCESS_SNAPSHOT"
    <3>1. jr.audit = "SUCCEEDED"
      BY <1>0, <2>1, <2>4 DEF Decided
    <3>2. temp = "none" /\ "backup" \notin files
      BY <2>4 DEF Retained
    <3> QED BY <2>0, <2>3, <2>4, <3>1, <3>2 DEF Present
  <2>5. CASE jr.op = "ROLLBACK_ALL"
    <3>1. jr.audit = "ROLLED_BACK"
      BY <1>0, <2>1, <2>5 DEF Decided
    <3>2. Tree \cap files = {}
      BY <1>a, <2>2, <2>5 DEF Present
    <3>3. temp \in {"none", "partial"}
      BY <2>2, <2>5 DEF Present
    <3> QED BY <2>0, <2>3, <2>5, <3>1, <3>2, <3>3 DEF Present
  <2> QED BY <2>1, <2>4, <2>5
<1>7. ASSUME NEW p \in Procs, SealOutcome(p) PROVE Emptied'
  <2>1. /\ jr'.op = jr.op /\ jr'.targets = jr.targets /\ jr'.receipts = jr.receipts
        /\ jr'.audit = jr.audit /\ UNCHANGED <<temp, files>>
    BY <1>0, <1>7, CompactionJournal
  <2>2. jr'.phase = jr.phase /\ jr'.temp = jr.temp
    BY <1>0, <1>7 DEF SealOutcome, Append, Generations
  <2> QED BY <2>1, <2>2 DEF Present
<1>8. ASSUME NEW p \in Procs, Cleanup(p) PROVE Emptied'
  <2>0. jr.phase \in {"COLLECTION_COMMITTED", "ROLLING_BACK"}
    BY <1>8, CleanupLive
  <2>1. CASE BackupIntent(p) \/ SnapshotIntent(p)
    <3>1. \E k \in {"BASELINE_BACKUP", "SUCCESS_SNAPSHOT"} : \E S \in {{BackupName}, Snapshot} :
             Intend(p, k, S)
      BY <2>1 DEF BackupIntent, SnapshotIntent
    <3>2. jr'.op \in {"BASELINE_BACKUP", "SUCCESS_SNAPSHOT"} /\ jr'.receipts = {} /\ jr'.phase = jr.phase
      BY <1>0, <3>1, Intended
    <3> QED BY <2>0, <3>2
  <2>2. CASE RollbackIntent(p)
    <3>1. Intend(p, "ROLLBACK_ALL", RollbackTargets) /\ UNCHANGED <<temp, files>>
      BY <2>2 DEF RollbackIntent
    <3>2. jr'.op = "ROLLBACK_ALL" /\ jr'.targets = RollbackTargets /\ jr'.receipts = {}
          /\ jr'.phase = jr.phase
      BY <1>0, <3>1, Intended
    <3>3. Tree \cap files \subseteq RollbackTargets
      BY DEF RollbackTargets
    <3>4. jr.op = "NONE" /\ jr.phase = "ROLLING_BACK"
      BY <1>0, <2>2 DEF RollbackIntent, At, Phased, Turns, ImporterStages, Procs
    <3>5. temp \in {"none", "partial"} \/ "temp" \in RollbackTargets
      BY <3>4 DEF RollbackTargets
    <3> QED BY <2>0, <3>1, <3>2, <3>3, <3>5
  <2>3. CASE RemoveTarget(p)
    <3>1. jr' = jr /\ files' \subseteq files /\ (temp' = temp \/ temp' = "none")
      BY <2>3 DEF RemoveTarget
    <3> QED BY <2>0, <3>1 DEF Present
  <2>4. CASE ReceiptTarget(p)
    <3>1. jr.op # "NONE"
      BY <1>0, <2>4, Receipted DEF Ordered
    <3>2. \A o \in jr'.receipts : ~Present(o)
      BY <1>0, <2>4, Receipted
    <3> QED BY <1>0, <2>0, <2>4, <3>1, <3>2, Receipted DEF Present
  <2>5. CASE CompleteCleanup(p)
    BY <1>0, <2>0, <2>5, Completed DEF Present
  <2> QED BY <1>8, <2>1, <2>2, <2>3, <2>4, <2>5 DEF Cleanup
<1> QED BY <1>1, <1>2, <1>3, <1>4, <1>5, <1>6, <1>7, <1>8, Kinds

-----------------------------------------------------------------------------
(* Retained: the bytes of the old collection.                              *)

\* A step of the transaction keeps Retained: the backup is made before D is
\* replaced, and T is not written again after it.
LEMMA ExecuteRetains ==
  ASSUME IInv, Ordered, Retained, Execute
  PROVE  Retained'
<1> USE DEF Retained, Undecided
<1>0. /\ jr \in Generations /\ TypeOK
      /\ BackupFound' = (HasBaseline => IF Windows THEN "backup" \in files' ELSE temp' = "baseline")
  BY DEF IInv, TypeOK, BackupFound
<1>1. jr'.op = "NONE" /\ jr.op = "NONE" /\ jr.phase \in Undecided
  BY ExecuteJournal
<1>2. CASE StartCopying \/ RecordImage \/ FilesReady
  <2>1. jr'.phase \in {"COPYING_IMAGES", "FILES_READY"} /\ files' = files
    BY <1>0, <1>2 DEF StartCopying, RecordImage, FilesReady, Durable, Append, Generations
  <2> QED BY <1>1, <2>1
<1>3. CASE DeclareCommit
  <2>1. /\ jr'.phase = "COMMITTING_COLLECTION" /\ jr'.backup \in {"PLANNED", "NONE"}
        /\ UNCHANGED <<dest, files>> /\ jr.phase = "FILES_READY"
    BY <1>0, <1>3 DEF DeclareCommit, Durable, Append, Generations
  <2>2. dest \notin Holding
    BY <2>1 DEF IInv, Decided
  <2> QED BY <1>1, <2>1, <2>2
<1>4. CASE MakeImageRoot \/ WriteMarker \/ WriteImage
  <2>1. /\ jr' = jr /\ UNCHANGED <<dest, temp>> /\ jr.phase = "COPYING_IMAGES"
        /\ \E o \in Tree : files' = files \cup {o}
    BY <1>4 DEF MakeImageRoot, WriteMarker, WriteImage, Writes, Tree
  <2>2. "backup" \in files' => "backup" \in files
    BY <2>1, Apart
  <2> QED BY <1>1, <2>1, <2>2
<1>5. CASE RecordTemporary \/ CreateTemporary \/ WriteTemporary
  <2>1. /\ jr.phase = "COMMITTING_COLLECTION" /\ jr'.phase = jr.phase
        /\ UNCHANGED <<dest, files>> /\ jr'.backup = jr.backup
        /\ jr.temp \in {"PLANNED", "CREATED"}
    BY <1>0, <1>5 DEF RecordTemporary, CreateTemporary, WriteTemporary, Committing, Durable,
       Append, Generations
  <2>2. dest \notin Holding
    BY <2>1
  <2> QED BY <1>1, <2>1, <2>2
<1>6. CASE LinkBackup
  <2>1. /\ jr' = jr /\ UNCHANGED <<dest, temp>> /\ files' = files \cup {"backup"}
        /\ Windows /\ jr.backup = "PLANNED" /\ jr.phase = "COMMITTING_COLLECTION"
    BY <1>6 DEF LinkBackup, Committing
  <2>2. HasBaseline
    BY <2>1 DEF Ordered
  <2> QED BY <1>0, <1>1, <2>1, <2>2
<1>7. CASE RecordBackup
  <2>1. /\ jr'.temp = jr.temp /\ jr'.phase = jr.phase /\ UNCHANGED <<dest, temp, files>>
        /\ "backup" \in files /\ jr.phase = "COMMITTING_COLLECTION"
    BY <1>0, <1>7 DEF RecordBackup, Committing, Durable, Append, Generations
  <2> QED BY <1>0, <1>1, <2>1 DEF BackupFound
<1>8. CASE Publish
  <2>1. /\ jr' = jr /\ files' = files /\ jr.temp = "VERIFIED" /\ jr.phase = "COMMITTING_COLLECTION"
        /\ jr.backup = IF ~HasBaseline THEN "NONE" ELSE IF Windows THEN "VERIFIED" ELSE "PLANNED"
        /\ temp' = IF HasBaseline /\ ~Windows THEN "baseline" ELSE "none"
    BY <1>8 DEF Publish, Committing
  <2>2. HasBaseline /\ Windows => "backup" \in files
    BY <2>1
  <2> QED BY <1>0, <1>1, <2>1, <2>2
<1>9. CASE RecordExchange
  <2>1. /\ jr'.temp = "EXCHANGED" /\ jr'.backup = "EXCHANGED" /\ jr'.phase = jr.phase
        /\ UNCHANGED <<dest, temp, files>> /\ jr.phase = "COMMITTING_COLLECTION"
    BY <1>0, <1>9 DEF RecordExchange, Committing, Durable, Append, Generations
  <2> QED BY <1>0, <1>1, <2>1 DEF BackupFound
<1>10. CASE RecordCommitted
  <2>1. /\ jr'.phase = "COLLECTION_COMMITTED" /\ UNCHANGED <<dest, temp, files>>
        /\ jr.phase = "COMMITTING_COLLECTION" /\ dest \in Holding
    BY <1>0, <1>10 DEF RecordCommitted, Committed, Committing, Append, Generations, Holding
  <2> QED BY <1>0, <1>1, <2>1 DEF BackupFound
<1> QED BY <1>2, <1>3, <1>4, <1>5, <1>6, <1>7, <1>8, <1>9, <1>10 DEF Execute

\* A step of a cleanup keeps Retained: the backup goes under its own operation,
\* and the snapshot's operation starts when it is gone.
LEMMA CleanupRetains ==
  ASSUME IInv, Ordered, Emptied, Retained, NEW p \in Procs, Cleanup(p)
  PROVE  Retained'
<1> USE DEF Retained
<1>0. /\ jr \in Generations /\ TypeOK /\ Phased /\ Turns
  BY DEF IInv, TypeOK
<1>a. jr.phase \in {"COLLECTION_COMMITTED", "ROLLING_BACK"}
  BY CleanupLive
<1>1. CASE BackupIntent(p)
  <2>1. Intend(p, "BASELINE_BACKUP", {BackupName}) /\ UNCHANGED <<temp, files>> /\ jr.op = "NONE"
    BY <1>1 DEF BackupIntent
  <2>2. jr'.op = "BASELINE_BACKUP" /\ jr'.phase = jr.phase
    BY <1>0, <2>1, Intended
  <2> QED BY <1>a, <2>1, <2>2
<1>2. CASE SnapshotIntent(p)
  <2>1. /\ Intend(p, "SUCCESS_SNAPSHOT", Snapshot) /\ UNCHANGED <<temp, files>>
        /\ jr.phase = "COLLECTION_COMMITTED"
        /\ \/ jr.op = "NONE" /\ jr.backup # "RETAINED"
           \/ jr.op = "BASELINE_BACKUP" /\ jr.status = "COMPLETE"
    BY <1>2 DEF SnapshotIntent
  <2>2. jr'.op = "SUCCESS_SNAPSHOT" /\ jr'.phase = jr.phase
    BY <1>0, <2>1, Intended
  <2>3. CASE jr.op = "NONE"
    <3>1. ~HasBaseline
      BY <2>1, <2>3 DEF Ordered
    <3> QED BY <1>a, <2>1, <2>2, <2>3, <3>1
  <2>4. CASE jr.op = "BASELINE_BACKUP"
    <3>1. ~Present(BackupName) /\ HasBaseline
      BY <2>1, <2>4 DEF Ordered, Emptied
    <3>2. temp = "none" /\ "backup" \notin files
      BY <2>1, <2>4, <3>1 DEF BackupName, Present
    <3> QED BY <1>a, <2>1, <2>2, <3>2
  <2> QED BY <2>1, <2>3, <2>4
<1>3. CASE RollbackIntent(p)
  <2>1. Intend(p, "ROLLBACK_ALL", RollbackTargets) /\ UNCHANGED <<temp, files>>
    BY <1>3 DEF RollbackIntent
  <2>2. jr.phase = "ROLLING_BACK"
    BY <1>0, <1>3 DEF RollbackIntent, At, Phased, Turns, ImporterStages, Procs
  <2>3. jr'.op = "ROLLBACK_ALL" /\ jr'.phase = jr.phase
    BY <1>0, <2>1, Intended
  <2> QED BY <2>1, <2>2, <2>3
<1>4. CASE RemoveTarget(p)
  <2>1. /\ jr' = jr /\ files' \subseteq files /\ (temp' = temp \/ temp' = "none")
        /\ jr.status = "INTENT"
    BY <1>4 DEF RemoveTarget, Cleaning
  <2>2. jr.op # "NONE"
    BY <2>1 DEF Ordered
  <2> QED BY <1>a, <2>1, <2>2
<1>5. CASE ReceiptTarget(p)
  <2>1. jr.op # "NONE"
    BY <1>0, <1>5, Receipted DEF Ordered
  <2> QED BY <1>0, <1>a, <1>5, <2>1, Receipted
<1>6. CASE CompleteCleanup(p)
  <2>1. jr.op # "NONE"
    BY <1>0, <1>6, Completed DEF Ordered
  <2> QED BY <1>0, <1>a, <1>6, <2>1, Completed
<1> QED BY <1>1, <1>2, <1>3, <1>4, <1>5, <1>6 DEF Cleanup

\* Every step keeps Retained.
LEMMA RetainedStep ==
  IInv /\ Orphaning /\ Ordered /\ Emptied /\ Retained /\ [Next]_vars => Retained'
<1> SUFFICES ASSUME IInv, Orphaning, Ordered, Emptied, Retained, [Next]_vars PROVE Retained'
  OBVIOUS
<1> USE DEF Retained
<1>0. /\ jr \in Generations /\ TypeOK /\ Phased /\ Turns
  BY DEF IInv, TypeOK
<1>1. ASSUME UNCHANGED <<temp, jr>>, dest' \in Holding <=> dest \in Holding,
             "backup" \in files' <=> "backup" \in files
      PROVE  Retained'
  BY <1>1 DEF BackupFound
<1>2. CASE Quiet
  <2>1. "backup" \in files' <=> "backup" \in files
    BY <1>2, Apart DEF Quiet
  <2> QED BY <1>1, <1>2, <2>1 DEF Quiet
<1>3. CASE CreateSnapshot
  <2>1. "backup" \in files' <=> "backup" \in files
    BY <1>3, Apart DEF CreateSnapshot
  <2> QED BY <1>1, <1>3, <2>1 DEF CreateSnapshot
<1>4. CASE Genesis
  <2>1. jr'.phase = "PREPARED" /\ jr'.op = "NONE" /\ files' = files
    BY <1>4 DEF Genesis, Blank
  <2> QED BY <2>1
<1>5. CASE Execute
  BY <1>5, ExecuteRetains
<1>6. ASSUME NEW p \in Procs, Cleanup(p) PROVE Retained'
  BY <1>6, CleanupRetains
<1>7. ASSUME NEW p \in Procs, StartCompaction(p) PROVE Retained'
  <2>1. jr'.phase = "COMPACTING" /\ jr'.op = jr.op /\ UNCHANGED <<temp, files>>
    <3>1. jr'.phase = "COMPACTING"
      BY <1>0, <1>7 DEF StartCompaction, Append, Generations
    <3> QED BY <1>0, <1>7, <3>1, CompactionJournal
  <2> QED BY <2>1
<1>8. ASSUME NEW p \in Procs, SealOutcome(p) PROVE Retained'
  <2>1. jr.phase = "COMPACTING"
    BY <1>8 DEF SealOutcome, IInv, Placed
  <2>2. jr'.phase = jr.phase /\ jr'.op = jr.op /\ UNCHANGED <<temp, files>>
    <3>1. jr'.phase = jr.phase
      BY <1>0, <1>8 DEF SealOutcome, Append, Generations
    <3> QED BY <1>0, <1>8, <3>1, CompactionJournal
  <2> QED BY <2>1, <2>2
<1>9. CASE StartRollback
  <2>1. jr'.phase = "ROLLING_BACK" /\ jr'.op = jr.op /\ UNCHANGED <<temp, files>>
    <3>1. jr'.phase = "ROLLING_BACK"
      BY <1>0, <1>9 DEF StartRollback, Append, Generations
    <3> QED BY <1>0, <1>9, <3>1, RecoveryDecides
  <2> QED BY <2>1
<1>10. CASE RecoverCommitted
  <2>1. /\ jr'.phase = "COLLECTION_COMMITTED" /\ jr'.op = jr.op /\ UNCHANGED <<temp, files>>
        /\ jr.phase = "COMMITTING_COLLECTION" /\ dest \in Holding /\ BackupFound
    <3>1. jr'.phase = "COLLECTION_COMMITTED" /\ jr.phase = "COMMITTING_COLLECTION"
          /\ dest \in Holding /\ BackupFound
      BY <1>0, <1>10 DEF RecoverCommitted, Committed, AtHead, Append, Generations, Holding
    <3> QED BY <1>0, <1>10, <3>1, RecoveryDecides
  <2>2. jr.op = "NONE"
    BY <2>1 DEF IInv, Imaged, Undecided
  <2> QED BY <2>1, <2>2 DEF BackupFound
<1> QED BY <1>2, <1>3, <1>4, <1>5, <1>6, <1>7, <1>8, <1>9, <1>10, Kinds

-----------------------------------------------------------------------------
(* The theorems.                                                           *)

\* The initial state satisfies the invariant.
LEMMA CInvInit == Init => CInv
<1> SUFFICES ASSUME Init PROVE CInv
  OBVIOUS
<1>1. /\ jr.phase = "NONE" /\ jr.op = "NONE" /\ jr.status = "NONE" /\ jr.targets = {}
      /\ jr.receipts = {} /\ jr.backup = "NONE" /\ jr.temp = "NONE" /\ jr.snapRef = FALSE
  BY DEF Init, Blank
<1>2. temp = "none" /\ files = {} /\ pc["recovery"] = "idle"
  BY DEF Init
<1> QED BY <1>1, <1>2 DEF CInv, Orphaning, EvidenceKept, Ordered, Emptied, Retained

\* Every reachable state satisfies both invariants.
THEOREM CleanupInductive == Spec => [](IInv /\ CInv)
<1>1. IInv /\ CInv /\ [Next]_vars => CInv'
  BY OrphaningStep, EvidenceStep, OrderedStep, EmptiedStep, RetainedStep DEF CInv
<1> QED BY Inductive, CInvInit, <1>1, PTL DEF Spec

\* The collection the user had survives until the journal has recorded the
\* commit and started to clean up: in D, in the backup, or under T's name.
THEOREM BaselineSurvives == Spec => []BaselineKept
<1>1. CInv => BaselineKept
  BY DEF CInv, Retained, BaselineKept
<1> QED BY CleanupInductive, <1>1, PTL

\* A package the journal names can be reopened until its cleanup is durable: no
\* orphan collection, crash or cancelled preview takes one of its members.
THEOREM EvidenceSurvives == Spec => []EvidenceKept
<1>1. CInv => EvidenceKept
  BY DEF CInv
<1> QED BY CleanupInductive, <1>1, PTL

\* A record is published only over a finished cleanup.
THEOREM CleanupFirst == Spec => []CleanupPrecedesHistory
<1>1. IInv /\ CInv => CleanupPrecedesHistory
  <2> SUFFICES ASSUME IInv, CInv, Recorded
               PROVE  /\ Snapshot \cap files = {}
                      /\ IF history.result = "SUCCEEDED"
                         THEN temp = "none" /\ "backup" \notin files
                         ELSE Tree \cap files = {} /\ temp \in {"none", "partial"}
    BY DEF CleanupPrecedesHistory
  <2>1. jr.phase = "COMPACTING" /\ history.result = jr.audit
    BY DEF IInv, Decided, Recorded
  <2>2. jr.audit \in {"SUCCEEDED", "ROLLED_BACK"}
    BY <2>1 DEF IInv, TypeOK, Generations, Results, Decided, Undecided
  <2> QED BY <2>1, <2>2 DEF CInv, Emptied
<1> QED BY CleanupInductive, <1>1, PTL

\* No step deletes an owned object without authority: a durable intent that
\* names it, a snapshot no head names, or publication itself.
THEOREM DeletesAuthorized == Spec => DeletesUnderAuthority
<1> DEFINE Authorized ==
      \A o \in Owned : Present(o) /\ ~Present(o)' =>
          \/ Listed /\ jr.status = "INTENT" /\ o \in jr.targets
          \/ o \in Snapshot /\ ~(Listed /\ jr.snapRef)
          \/ o = "temp" /\ dest' # dest
<1>1. ASSUME IInv, CInv, [Next]_vars PROVE Authorized
  <2> SUFFICES ASSUME NEW o \in Owned, Present(o), ~Present(o)'
               PROVE  \/ Listed /\ jr.status = "INTENT" /\ o \in jr.targets
                      \/ o \in Snapshot /\ ~(Listed /\ jr.snapRef)
                      \/ o = "temp" /\ dest' # dest
    OBVIOUS
  <2> USE DEF Present
  <2>1. CASE Quiet
    BY <2>1 DEF Quiet
  <2>2. CASE CreateSnapshot \/ Genesis
    BY <2>2 DEF CreateSnapshot, Genesis
  <2>3. CASE Execute
    <3>1. CASE Publish
      <4>1. dest' # dest /\ files' = files
        BY <3>1 DEF Publish
      <4> QED BY <4>1
    <3>2. CASE ~Publish
      <4>1. files \subseteq files' /\ (temp' = temp \/ temp' # "none")
        BY <2>3, <3>2 DEF Execute, StartCopying, MakeImageRoot, WriteMarker, WriteImage,
           RecordImage, FilesReady, DeclareCommit, CreateTemporary, RecordTemporary,
           WriteTemporary, LinkBackup, RecordBackup, RecordExchange, RecordCommitted, Durable,
           Writes
      <4> QED BY <4>1
    <3> QED BY <3>1, <3>2
  <2>4. CASE StartRollback \/ RecoverCommitted
    BY <2>4 DEF StartRollback, RecoverCommitted
  <2>5. ASSUME NEW p \in Procs, StartCompaction(p) \/ SealOutcome(p) PROVE FALSE
    BY <2>5 DEF StartCompaction, SealOutcome
  <2>6. ASSUME NEW p \in Procs, Cleanup(p)
        PROVE  Listed /\ jr.status = "INTENT" /\ o \in jr.targets
    <3>1. CASE RemoveTarget(p)
      <4>1. PICK q \in Owing : /\ temp' = IF q = "temp" THEN "none" ELSE temp
                               /\ files' = files \ {q}
        BY <3>1 DEF RemoveTarget
      <4>2. o = q
        BY <4>1
      <4>3. jr.status = "INTENT"
        BY <3>1 DEF RemoveTarget, Cleaning
      <4> QED BY <1>1, <2>6, <4>2, <4>3, CleanupLive DEF Owing
    <3>2. CASE ~RemoveTarget(p)
      BY <2>6, <3>2 DEF Cleanup, BackupIntent, SnapshotIntent, RollbackIntent, ReceiptTarget,
         CompleteCleanup
    <3> QED BY <3>1, <3>2
  <2> QED BY <1>1, <2>1, <2>2, <2>3, <2>4, <2>5, <2>6, Kinds DEF CInv
<1>2. IInv /\ CInv /\ [Next]_vars => [Authorized]_vars
  BY <1>1
<1> QED BY CleanupInductive, <1>2, PTL DEF Spec, DeletesUnderAuthority

-----------------------------------------------------------------------------
(* The rules of the journal.                                               *)

\* The newest generation is valid, and knows whether it is cleaning up.
Kept ==
    /\ jr.phase # "NONE" => Valid(jr)
    /\ jr.op = "NONE" <=> jr.status = "NONE"

\* What a step that appends has to establish.
Good ==
    /\ Valid(jr')
    /\ IF jr.phase = "NONE" THEN jr'.phase = "PREPARED" ELSE Legal(jr, jr')
    /\ jr'.op = "NONE" <=> jr'.status = "NONE"

\* The step added a generation.
Moved == jr' # jr \/ Appends

\* A bound on the fields two generations differ in, field by field.
LEMMA ChangedIn ==
  ASSUME NEW g \in Generations, NEW h \in Generations, NEW S,
         g.phase # h.phase => "phase" \in S,
         g.verified # h.verified => "verified" \in S,
         g.temp # h.temp => "temp" \in S,
         g.backup # h.backup => "backup" \in S,
         g.snapRef # h.snapRef => "snapRef" \in S,
         g.audit # h.audit => "audit" \in S,
         g.op # h.op => "op" \in S,
         g.targets # h.targets => "targets" \in S,
         g.receipts # h.receipts => "receipts" \in S,
         g.status # h.status => "status" \in S,
         g.compaction # h.compaction => "compaction" \in S
  PROVE  Changed(g, h) \subseteq S
<1>1. DOMAIN g = {"phase", "verified", "temp", "backup", "snapRef", "audit", "op",
                  "targets", "receipts", "status", "compaction"}
  BY DEF Generations
<1> QED BY <1>1 DEF Changed

\* The transaction's own generations, from the first copy to the commit.
LEMMA ExecuteLegal ==
  ASSUME TypeOK, Turns, Phased, Kept, Execute, Moved, jr' \in Generations PROVE Good
<1>0. jr \in Generations /\ jr.phase \in Undecided /\ Valid(jr)
  BY DEF TypeOK, Phased, Kept, Undecided, Execute, StartCopying, RecordImage, FilesReady,
         DeclareCommit, RecordTemporary, RecordBackup, RecordExchange, RecordCommitted,
         Durable, Committing, At, MakeImageRoot, WriteMarker, WriteImage, Writes,
         CreateTemporary, WriteTemporary, LinkBackup, Publish
<1>chain. store.chain \in Nat
  BY DEF TypeOK, Stores
<1>1. CASE StartCopying
  <2>1. jr' = [jr EXCEPT !.phase = "COPYING_IMAGES"] /\ jr.phase = "PREPARED"
    BY <1>1 DEF StartCopying, Durable, Append
  <2>2. /\ jr'.verified = jr.verified /\ jr'.temp = jr.temp
        /\ jr'.backup = jr.backup /\ jr'.snapRef = jr.snapRef
        /\ jr'.audit = jr.audit /\ jr'.op = jr.op
        /\ jr'.targets = jr.targets /\ jr'.receipts = jr.receipts
        /\ jr'.status = jr.status /\ jr'.compaction = jr.compaction
    BY <1>0, <2>1 DEF Generations
  <2>3. Changed(jr, jr') \subseteq {"phase"}
    BY <1>0, <2>2, ChangedIn
  <2> QED BY <1>0, <2>1, <2>2, <2>3 DEF Good, Kept, Legal, LegalEntry, Successors, Valid, ValidPhase,
             ValidCompaction, ValidCleanup, Undecided, Generations
<1>2. CASE RecordImage
  <2>1. PICK i \in Images \ jr.verified : jr' = [jr EXCEPT !.verified = @ \cup {i}]
    BY <1>2 DEF RecordImage, Durable, Append
  <2>2. jr.phase = "COPYING_IMAGES"
    BY <1>2 DEF RecordImage
  <2> QED BY <1>0, <2>1, <2>2 DEF Good, Kept, Legal, LegalWithin, Valid, ValidPhase,
             ValidCompaction, ValidCleanup, Undecided, Generations
<1>3. CASE FilesReady
  <2>1. jr' = [jr EXCEPT !.phase = "FILES_READY"] /\ jr.phase = "COPYING_IMAGES"
           /\ jr.verified = Images
    BY <1>3 DEF FilesReady, Durable, Append
  <2>2. /\ jr'.verified = jr.verified /\ jr'.temp = jr.temp
        /\ jr'.backup = jr.backup /\ jr'.snapRef = jr.snapRef
        /\ jr'.audit = jr.audit /\ jr'.op = jr.op
        /\ jr'.targets = jr.targets /\ jr'.receipts = jr.receipts
        /\ jr'.status = jr.status /\ jr'.compaction = jr.compaction
    BY <1>0, <2>1 DEF Generations
  <2>3. Changed(jr, jr') \subseteq {"phase"}
    BY <1>0, <2>2, ChangedIn
  <2> QED BY <1>0, <2>1, <2>2, <2>3 DEF Good, Kept, Legal, LegalEntry, Successors, Valid, ValidPhase,
             ValidCompaction, ValidCleanup, Undecided, Generations
<1>4. CASE DeclareCommit
  <2>1. /\ jr' = [jr EXCEPT !.phase = "COMMITTING_COLLECTION", !.temp = "PLANNED",
                            !.backup = IF HasBaseline THEN "PLANNED" ELSE "NONE"]
        /\ jr.phase = "FILES_READY"
    BY <1>4 DEF DeclareCommit, Durable, Append
  <2>2. /\ jr'.verified = jr.verified /\ jr'.snapRef = jr.snapRef
        /\ jr'.audit = jr.audit /\ jr'.op = jr.op
        /\ jr'.targets = jr.targets /\ jr'.receipts = jr.receipts
        /\ jr'.status = jr.status /\ jr'.compaction = jr.compaction
    BY <1>0, <2>1 DEF Generations
  <2>3. Changed(jr, jr') \subseteq {"phase", "temp", "backup"}
    <3> DEFINE S == {"phase", "temp", "backup"}
    <3>1. "phase" \in S /\ "temp" \in S /\ "backup" \in S
      OBVIOUS
    <3> HIDE DEF S
    <3>2. Changed(jr, jr') \subseteq S
      BY <1>0, <2>2, <3>1, ChangedIn
    <3> QED BY <3>2 DEF S
  <2> QED BY <1>0, <2>1, <2>2, <2>3 DEF Good, Kept, Legal, LegalEntry, Successors, Entering, Valid,
             ValidPhase, ValidCompaction, ValidCleanup, Undecided, Generations
<1>5. CASE RecordTemporary \/ RecordBackup \/ RecordExchange
  <2>1. jr.phase = "COMMITTING_COLLECTION"
    BY <1>5 DEF RecordTemporary, RecordBackup, RecordExchange, Committing
  <2>2. /\ jr'.phase = jr.phase /\ jr'.verified = jr.verified
        /\ jr'.snapRef = jr.snapRef /\ jr'.audit = jr.audit
        /\ jr'.op = jr.op /\ jr'.targets = jr.targets
        /\ jr'.receipts = jr.receipts /\ jr'.status = jr.status
        /\ jr'.compaction = jr.compaction
        /\ jr'.temp # "NONE" /\ jr' # jr
    <3>1. CASE RecordTemporary
      BY <1>0, <3>1 DEF RecordTemporary, Durable, Append, Generations
    <3>2. CASE RecordBackup
      BY <1>0, <2>1, <3>2 DEF RecordBackup, Durable, Append, Generations, Valid, ValidPhase
    <3>3. CASE RecordExchange
      BY <1>0, <3>3 DEF RecordExchange, Durable, Append, Generations
    <3> QED BY <1>5, <3>1, <3>2, <3>3
  <2>3. Changed(jr, jr') \subseteq {"temp", "backup"}
    BY <1>0, <2>2, ChangedIn
  <2> QED BY <1>0, <2>1, <2>2, <2>3 DEF Good, Kept, Legal, LegalWithin, Valid, ValidPhase,
             ValidCompaction, ValidCleanup, Undecided
<1>6. CASE RecordCommitted
  <2>1. jr' = Committed /\ jr.phase = "COMMITTING_COLLECTION"
    BY <1>6 DEF RecordCommitted, Append, Committing
  <2>2. /\ jr'.verified = jr.verified /\ jr'.snapRef = jr.snapRef
        /\ jr'.op = jr.op /\ jr'.targets = jr.targets
        /\ jr'.receipts = jr.receipts /\ jr'.status = jr.status
        /\ jr'.compaction = jr.compaction
    BY <1>0, <2>1 DEF Committed, Generations
  <2>3. Changed(jr, jr') \subseteq {"phase", "temp", "backup", "audit"}
    <3> DEFINE S == {"phase", "temp", "backup", "audit"}
    <3>1. "phase" \in S /\ "temp" \in S /\ "backup" \in S /\ "audit" \in S
      OBVIOUS
    <3> HIDE DEF S
    <3>2. Changed(jr, jr') \subseteq S
      BY <1>0, <2>2, <3>1, ChangedIn
    <3> QED BY <3>2 DEF S
  <2> QED BY <1>0, <2>1, <2>2, <2>3 DEF Good, Kept, Committed, Legal, LegalEntry, Successors, Entering,
             Valid, ValidPhase, ValidCompaction, ValidCleanup, Undecided, Generations
<1>7. CASE MakeImageRoot \/ WriteMarker \/ WriteImage \/ CreateTemporary
           \/ WriteTemporary \/ LinkBackup \/ Publish
  <2>1. jr' = jr /\ store' = store
    BY <1>7 DEF MakeImageRoot, WriteMarker, WriteImage, Writes, CreateTemporary,
       WriteTemporary, LinkBackup, Publish
  <2> QED BY <1>chain, <2>1 DEF Moved, Appends
<1> QED BY <1>1, <1>2, <1>3, <1>4, <1>5, <1>6, <1>7 DEF Execute

\* A cleanup belongs to a decided import that has not started compacting.
LEMMA CleanupPhase ==
  ASSUME TypeOK, Turns, Phased, NEW p \in Procs, Cleanup(p)
  PROVE  jr.phase \in {"COLLECTION_COMMITTED", "ROLLING_BACK"}
<1>1. pc[p] \in {"success", "rollback", "resume"}
  BY CleanupKeeps
<1> QED BY <1>1 DEF Turns, ImporterStages, Phased, Procs

\* An intent that names something, when no other operation is unfinished.
LEMMA IntendLegal ==
  ASSUME Kept, jr \in Generations, jr' \in Generations,
         jr.phase \in {"COLLECTION_COMMITTED", "ROLLING_BACK"}, jr.status # "INTENT",
         NEW p \in Procs, NEW k \in {"BASELINE_BACKUP", "SUCCESS_SNAPSHOT", "ROLLBACK_ALL"},
         NEW S \in SUBSET Owned, S # {}, Intend(p, k, S)
  PROVE  Good
<1>1. jr' = [jr EXCEPT !.op = k, !.targets = S, !.receipts = {}, !.status = "INTENT"]
  BY DEF Intend, Append
<1>2. /\ jr'.phase = jr.phase /\ jr'.verified = jr.verified /\ jr'.temp = jr.temp
      /\ jr'.backup = jr.backup /\ jr'.snapRef = jr.snapRef /\ jr'.audit = jr.audit
      /\ jr'.compaction = jr.compaction
      /\ jr'.op = k /\ jr'.targets = S /\ jr'.receipts = {} /\ jr'.status = "INTENT"
  BY <1>1 DEF Generations
<1>3. Changed(jr, jr') \subseteq CleanupFields \cup {"snapRef", "backup"}
  <2> DEFINE C == CleanupFields \cup {"snapRef", "backup"}
  <2>1. "op" \in C /\ "targets" \in C /\ "receipts" \in C /\ "status" \in C
    BY DEF CleanupFields
  <2> HIDE DEF C
  <2>2. Changed(jr, jr') \subseteq C
    BY <1>2, <2>1, ChangedIn
  <2> QED BY <2>2 DEF C
<1> QED BY <1>2, <1>3 DEF Good, Kept, Legal, LegalWithin, LegalCleanup, Valid, ValidPhase,
           ValidCompaction, ValidCleanup, Undecided

\* Intents, receipts and completions, by whichever process works.
LEMMA CleanupLegal ==
  ASSUME TypeOK, Turns, Phased, Kept, NEW p \in Procs, Cleanup(p), Moved,
         jr' \in Generations
  PROVE  Good
<1>0. jr \in Generations /\ files \subseteq Owned /\ store.chain \in Nat
  BY DEF TypeOK, Stores
<1>1. jr.phase \in {"COLLECTION_COMMITTED", "ROLLING_BACK"} /\ Valid(jr)
  BY CleanupPhase DEF Kept
<1>2. CASE BackupIntent(p)
  <2>1. Intend(p, "BASELINE_BACKUP", {BackupName}) /\ jr.status # "INTENT"
    BY <1>2 DEF BackupIntent, Kept
  <2>2. {BackupName} \in SUBSET Owned /\ {BackupName} # {}
    BY DEF BackupName, Owned
  <2> QED BY <1>0, <1>1, <2>1, <2>2, IntendLegal
<1>3. CASE SnapshotIntent(p)
  <2>1. Intend(p, "SUCCESS_SNAPSHOT", Snapshot) /\ jr.status # "INTENT"
    BY <1>3 DEF SnapshotIntent, Kept
  <2>2. Snapshot \in SUBSET Owned /\ Snapshot # {}
    BY SnapshotOwned DEF Snapshot
  <2> QED BY <1>0, <1>1, <2>1, <2>2, IntendLegal
<1>4. CASE RollbackIntent(p)
  <2>1. Intend(p, "ROLLBACK_ALL", RollbackTargets) /\ jr.status # "INTENT"
    BY <1>4 DEF RollbackIntent, Kept
  <2>2. RollbackTargets \in SUBSET Owned /\ RollbackTargets # {}
    BY <1>0, SnapshotOwned DEF RollbackTargets, Owned, Snapshot
  <2> QED BY <1>0, <1>1, <2>1, <2>2, IntendLegal
<1>5. CASE ReceiptTarget(p)
  <2>1. PICK o \in jr.targets \ jr.receipts : jr' = [jr EXCEPT
             !.receipts = @ \cup {o},
             !.backup = IF jr.op = "BASELINE_BACKUP" THEN "CLEANED" ELSE @,
             !.snapRef = @ /\ o \notin Snapshot
                           /\ ~(At(p, "resume") /\ jr.op # "BASELINE_BACKUP")]
    BY <1>5 DEF ReceiptTarget, Append, Owing
  <2>2. /\ jr'.phase = jr.phase /\ jr'.verified = jr.verified /\ jr'.temp = jr.temp
        /\ jr'.audit = jr.audit /\ jr'.op = jr.op /\ jr'.targets = jr.targets
        /\ jr'.receipts = jr.receipts \cup {o} /\ jr'.status = jr.status
        /\ jr'.compaction = jr.compaction
    BY <1>0, <2>1 DEF Generations
  <2>3. Changed(jr, jr') \subseteq CleanupFields \cup {"snapRef", "backup"}
    <3> DEFINE C == CleanupFields \cup {"snapRef", "backup"}
    <3>1. "receipts" \in C /\ "snapRef" \in C /\ "backup" \in C
      BY DEF CleanupFields
    <3> HIDE DEF C
    <3>2. Changed(jr, jr') \subseteq C
      BY <1>0, <2>2, <3>1, ChangedIn
    <3> QED BY <3>2 DEF C
  <2>4. jr.status = "INTENT" /\ jr.op # "NONE"
    BY <1>5 DEF ReceiptTarget, Cleaning, Kept
  <2> QED BY <1>1, <2>2, <2>3, <2>4 DEF Good, Kept, Legal, LegalWithin, LegalCleanup, Valid,
             ValidPhase, ValidCompaction, ValidCleanup, Undecided
<1>6. CASE CompleteCleanup(p)
  <2>1. jr' = [jr EXCEPT !.status = "COMPLETE"] /\ jr.status = "INTENT" /\ Owing = {}
    BY <1>6 DEF CompleteCleanup, Cleaning, Append
  <2>2. /\ jr'.phase = jr.phase /\ jr'.verified = jr.verified /\ jr'.temp = jr.temp
        /\ jr'.backup = jr.backup /\ jr'.snapRef = jr.snapRef /\ jr'.audit = jr.audit
        /\ jr'.op = jr.op /\ jr'.targets = jr.targets /\ jr'.receipts = jr.receipts
        /\ jr'.status = "COMPLETE" /\ jr'.compaction = jr.compaction
    BY <1>0, <2>1 DEF Generations
  <2>3. Changed(jr, jr') \subseteq CleanupFields \cup {"snapRef", "backup"}
    <3> DEFINE C == CleanupFields \cup {"snapRef", "backup"}
    <3>1. "status" \in C
      BY DEF CleanupFields
    <3> HIDE DEF C
    <3>2. Changed(jr, jr') \subseteq C
      BY <1>0, <2>2, <3>1, ChangedIn
    <3> QED BY <3>2 DEF C
  <2>4. jr.op # "NONE" /\ jr.receipts = jr.targets
    BY <1>1, <2>1 DEF Kept, Valid, ValidCleanup, Owing
  <2> QED BY <1>1, <2>1, <2>2, <2>3, <2>4 DEF Good, Kept, Legal, LegalWithin, LegalCleanup,
             Valid, ValidPhase, ValidCompaction, ValidCleanup, Undecided
<1> QED BY <1>0, <1>2, <1>3, <1>4, <1>5, <1>6 DEF Cleanup, RemoveTarget, Moved, Appends

\* Compaction starts after a complete cleanup and seals its plan once.
LEMMA CompactionLegal ==
  ASSUME TypeOK, Turns, Phased, Decided, Kept, NEW p \in Procs, Compaction(p), Moved,
         jr' \in Generations
  PROVE  Good
<1>0. jr \in Generations /\ store \in Stores /\ store.chain \in Nat
  BY DEF TypeOK, Stores
<1>1. CASE StartCompaction(p)
  <2>1. /\ jr' = [jr EXCEPT !.phase = "COMPACTING", !.temp = "NONE",
                            !.backup = "NONE", !.compaction = "PLANNING"]
        /\ jr.phase \in {"COLLECTION_COMMITTED", "ROLLING_BACK"}
        /\ jr.status = "COMPLETE" /\ ~jr.snapRef
    BY <1>1 DEF StartCompaction, Append
  <2>2. /\ jr'.verified = jr.verified /\ jr'.snapRef = jr.snapRef
        /\ jr'.audit = jr.audit /\ jr'.op = jr.op /\ jr'.targets = jr.targets
        /\ jr'.receipts = jr.receipts /\ jr'.status = jr.status
        /\ jr'.phase = "COMPACTING" /\ jr'.temp = "NONE" /\ jr'.backup = "NONE"
        /\ jr'.compaction = "PLANNING"
    BY <1>0, <2>1 DEF Generations
  <2>3. Changed(jr, jr') \subseteq {"phase", "temp", "backup", "compaction"}
    <3> DEFINE S == {"phase", "temp", "backup", "compaction"}
    <3>1. "phase" \in S /\ "temp" \in S /\ "backup" \in S /\ "compaction" \in S
      OBVIOUS
    <3> HIDE DEF S
    <3>2. Changed(jr, jr') \subseteq S
      BY <1>0, <2>2, <3>1, ChangedIn
    <3> QED BY <3>2 DEF S
  <2>4. jr.audit # "none"
    BY <2>1 DEF Decided, Undecided
  <2> QED BY <2>1, <2>2, <2>3, <2>4 DEF Good, Kept, Legal, LegalEntry, Successors, Entering,
             Valid, ValidPhase, ValidCompaction, ValidCleanup, Undecided
<1>2. CASE SealOutcome(p)
  <2>1. /\ jr' = [jr EXCEPT !.compaction = "READY"]
        /\ jr.compaction = "PLANNING" /\ Compacting(p)
    BY <1>2 DEF SealOutcome, Append
  <2>2. jr.phase = "COMPACTING"
    BY <2>1 DEF Compacting, Turns, ImporterStages, Phased, Procs
  <2> QED BY <1>0, <2>1, <2>2 DEF Good, Kept, Legal, LegalWithin, Valid, ValidPhase,
             ValidCompaction, ValidCleanup, Undecided, Generations
<1>3. CASE ~StartCompaction(p) /\ ~SealOutcome(p)
  <2>1. jr' = jr
    BY <1>3 DEF Compaction, PublishManifest, PublishPending, DeletePartialRecord,
       RenameForRetirement, DeleteRetired, RemoveRetirement, Finalize, Retire
  <2>2. store'.chain \in Nat /\ store'.chain <= store.chain
    <3>1. CASE DeleteRetired(p)
      BY <1>0, <3>1 DEF DeleteRetired, Retire, Stores
    <3>2. CASE PublishManifest(p) \/ RenameForRetirement(p) \/ RemoveRetirement(p)
      BY <1>0, <3>2 DEF PublishManifest, RenameForRetirement, RemoveRetirement, Retire, Stores
    <3>3. CASE PublishPending(p) \/ DeletePartialRecord(p) \/ Finalize(p)
      BY <1>0, <3>3 DEF PublishPending, DeletePartialRecord, Finalize
    <3> QED BY <1>3, <3>1, <3>2, <3>3 DEF Compaction
  <2> QED BY <1>0, <2>1, <2>2 DEF Moved, Appends
<1> QED BY <1>1, <1>2, <1>3

\* Recovery's own generations: the decision to roll back, or to go on.
LEMMA RecoverLegal ==
  ASSUME TypeOK, Kept, Recover, Moved, jr' \in Generations PROVE Good
<1>0. jr \in Generations
  BY DEF TypeOK
<1>1. CASE StartRollback
  <2>1. /\ jr' = [jr EXCEPT !.phase = "ROLLING_BACK", !.audit = "ROLLED_BACK"]
        /\ jr.phase \in Undecided
    BY <1>1 DEF StartRollback, Append, AtHead
  <2>2. /\ jr'.verified = jr.verified /\ jr'.temp = jr.temp
        /\ jr'.backup = jr.backup /\ jr'.snapRef = jr.snapRef
        /\ jr'.op = jr.op /\ jr'.targets = jr.targets
        /\ jr'.receipts = jr.receipts /\ jr'.status = jr.status
        /\ jr'.compaction = jr.compaction /\ jr'.phase = "ROLLING_BACK"
    BY <1>0, <2>1 DEF Generations
  <2>3. Changed(jr, jr') \subseteq {"phase", "audit"}
    BY <1>0, <2>2, ChangedIn
  <2> QED BY <2>1, <2>2, <2>3 DEF Good, Kept, Legal, LegalEntry, Successors, Entering,
             Valid, ValidPhase, ValidCompaction, ValidCleanup, Undecided
<1>2. CASE RecoverCommitted
  <2>1. jr' = Committed /\ jr.phase = "COMMITTING_COLLECTION"
    BY <1>2 DEF RecoverCommitted, Append, AtHead
  <2>2. /\ jr'.verified = jr.verified /\ jr'.snapRef = jr.snapRef
        /\ jr'.op = jr.op /\ jr'.targets = jr.targets
        /\ jr'.receipts = jr.receipts /\ jr'.status = jr.status
        /\ jr'.compaction = jr.compaction
    BY <1>0, <2>1 DEF Committed, Generations
  <2>3. Changed(jr, jr') \subseteq {"phase", "temp", "backup", "audit"}
    <3> DEFINE S == {"phase", "temp", "backup", "audit"}
    <3>1. "phase" \in S /\ "temp" \in S /\ "backup" \in S /\ "audit" \in S
      OBVIOUS
    <3> HIDE DEF S
    <3>2. Changed(jr, jr') \subseteq S
      BY <1>0, <2>2, <3>1, ChangedIn
    <3> QED BY <3>2 DEF S
  <2> QED BY <1>0, <2>1, <2>2, <2>3 DEF Good, Kept, Committed, Legal, LegalEntry, Successors,
             Entering, Valid, ValidPhase, ValidCompaction, ValidCleanup, Undecided, Generations
<1>3. CASE ~StartRollback /\ ~RecoverCommitted
  <2>1. jr' = jr /\ store'.chain = store.chain
    BY <1>3 DEF Recover, ResumePending, Scan, ResumeCompaction, ResumeRollback, Moves,
       CollectOrphan, FinishSuccess, NothingToRecover, FailClosed, DeletePartialManifest,
       OutcomeRefused, TypeOK, Stores
  <2> QED BY <2>1 DEF Moved, Appends, TypeOK, Stores
<1> QED BY <1>1, <1>2, <1>3

\* No other step adds a generation, but the one that writes generation zero.
LEMMA StepLegal ==
  ASSUME TypeOK, Turns, Phased, Decided, Placed, Kept, [Next]_vars, Moved PROVE Good
<1>0. jr' \in Generations /\ store \in Stores /\ store.chain \in Nat
  BY JournalStep DEF TypeOK, Stores
<1>1. CASE Genesis
  <2>1. /\ jr' = [Blank EXCEPT !.phase = "PREPARED", !.snapRef = TRUE]
        /\ jr.phase = "NONE"
    BY <1>1 DEF Genesis, At, Phased, Before
  <2> QED BY <2>1 DEF Good, Blank, Valid, ValidPhase, ValidCompaction, ValidCleanup, Undecided
<1>2. CASE Execute
  BY <1>0, <1>2, ExecuteLegal
<1>3. ASSUME NEW p \in Procs, Cleanup(p) PROVE Good
  BY <1>0, <1>3, CleanupLegal
<1>4. ASSUME NEW p \in Procs, Compaction(p) PROVE Good
  BY <1>0, <1>4, CompactionLegal
<1>5. CASE Recover
  BY <1>0, <1>5, RecoverLegal
<1>6. CASE UNCHANGED vars \/ Prepare \/ (\E p \in Procs : RemoveUnjournaled(p))
           \/ CollectionChanged \/ CreateJournalDirectory \/ WriteJournalOwner
           \/ StartRecovery \/ ClearStaleLock \/ Environment
  <2>1. jr' = jr /\ store'.chain = store.chain
    <3>1. CASE \E p \in Procs : Torn(p) /\ UNCHANGED jr
      BY <1>0, <3>1 DEF Torn, Stores
    <3>2. CASE CreateJournalDirectory \/ WriteJournalOwner
      BY <1>0, <3>2 DEF CreateJournalDirectory, WriteJournalOwner, Stores
    <3> QED BY <1>6, <3>1, <3>2 DEF vars, Prepare, CreateSnapshot, Cancel, Commit,
               RemoveUnjournaled, CollectionChanged, StartRecovery, ClearStaleLock,
               Environment, Abort, Crash, Exit, Save
  <2> QED BY <1>0, <2>1 DEF Moved, Appends
<1> QED BY <1>1, <1>2, <1>3, <1>4, <1>5, <1>6
        DEF Next, Importer, Recovering, R, Procs

LEMMA KeptStep ==
  ASSUME IInv, Kept, [Next]_vars
  PROVE  /\ Kept'
         /\ Appends => /\ Valid(jr')
                       /\ IF jr.phase = "NONE" THEN jr'.phase = "PREPARED"
                                               ELSE Legal(jr, jr')
<1>1. CASE Moved
  <2>1. Good
    BY <1>1, StepLegal DEF IInv
  <2> QED BY <2>1 DEF Good, Kept
<1>2. CASE ~Moved
  BY <1>2 DEF Moved, Kept, Valid, ValidPhase, ValidCompaction, ValidCleanup
<1> QED BY <1>1, <1>2

LEMMA KeptAlways == Spec => []Kept
<1>1. Init => Kept
  BY DEF Init, Kept, Blank
<1>2. IInv /\ Kept /\ [Next]_vars => Kept'
  BY KeptStep
<1> QED BY Inductive, <1>1, <1>2, PTL DEF Spec

\* The writers keep the rules of the journal, in every interleaving of import,
\* crashes and recovery passes: append() refuses none of their generations.
THEOREM RulesKept == Spec => AppendsAreLegal
<1> DEFINE Rules == /\ Valid(jr')
                    /\ IF jr.phase = "NONE" THEN jr'.phase = "PREPARED"
                                            ELSE Legal(jr, jr')
<1>1. IInv /\ Kept /\ [Next]_vars => [Appends => Rules]_vars
  BY KeptStep
<1> QED BY Inductive, KeptAlways, <1>1, PTL DEF Spec, AppendsAreLegal

-----------------------------------------------------------------------------
(***************************************************************************)
(* Wedged is for good.  Each of the nine states stops a pass at a known    *)
(* point, before the pass has touched what makes the state what it is, so  *)
(* each is kept together with the stages that a pass can reach in it.      *)
(***************************************************************************)

\* A pass before it has taken up the import it found.
Heads == {"idle", "pending", "scan", "orphan", "dispatch"}

StuckIn(state, stages) == At("importer", "ended") /\ state /\ pc[R] \in stages

Stuck ==
    \/ StuckIn(ForeignCollection, Heads)
    \/ StuckIn(UnprovableSnapshot, {"idle", "pending", "scan", "retire"})
    \/ StuckIn(NoGenesis, {"idle", "pending", "scan"})
    \/ StuckIn(RollbackWithoutIntent, Heads)
    \/ StuckIn(PartialTemporary, Heads \cup {"resume"})
    \/ StuckIn(BackupReceiptOnly, Heads)
    \/ StuckIn(SnapshotCollected, Heads \cup {"resume"})
    \/ StuckIn(OutcomeLost, Heads \cup {"recompact"})
    \/ StuckIn(RetirementTorn, {"idle", "pending"})

\* Who is left once the importer has ended.
LEMMA Passes ==
  ASSUME IInv, At("importer", "ended"), [Next]_vars
  PROVE  /\ pc'["importer"] = "ended"
         /\ \/ StartRecovery \/ Recovering \/ ClearStaleLock \/ Save
            \/ Abort(R) \/ Crash(R)
            \/ UNCHANGED <<dest, temp, files, jr, store, history, pc, lock>>
<1>1. pc["importer"] = "ended" /\ pc \in [Procs -> Stages]
  BY DEF At, IInv, TypeOK
<1>2. ~Prepare /\ ~Importer
  BY <1>1 DEF Prepare, CreateSnapshot, Cancel, Commit, Importer, RemoveUnjournaled,
     CollectionChanged, CreateJournalDirectory, WriteJournalOwner, Genesis, At, Execute,
     StartCopying, MakeImageRoot, WriteMarker, WriteImage, RecordImage, FilesReady, DeclareCommit,
     Writes, Durable, Committing, CreateTemporary, RecordTemporary, WriteTemporary, LinkBackup,
     RecordBackup, Publish, RecordExchange, RecordCommitted, Cleanup, BackupIntent, SnapshotIntent,
     RollbackIntent, Cleaning, RemoveTarget, ReceiptTarget, CompleteCleanup, Compaction,
     StartCompaction, WritingManifest, Compacting, PublishManifest, SealOutcome, WritingPending,
     PublishPending, DeletePartialRecord, Retiring, Retire, RenameForRetirement, DeleteRetired,
     RemoveRetirement, Finalize
<1>3. ~Abort("importer") /\ ~Crash("importer")
  BY <1>1 DEF Abort, Crash, At, Rest
<1>4. \/ StartRecovery \/ Recovering \/ ClearStaleLock \/ Save \/ Abort(R) \/ Crash(R)
      \/ UNCHANGED <<dest, temp, files, jr, store, history, pc, lock>>
  BY <1>2, <1>3 DEF Next, Environment, Procs, R, Exit, vars
<1>5. pc' = pc \/ \E s : pc' = [pc EXCEPT ![R] = s]
  BY <1>4 DEF StartRecovery, Recovering, ClearStaleLock, Save, Abort, Crash, LeaveLocked, Goto, R,
     Recover, ResumePending, Moves, Scan, CollectOrphan, NothingToRecover, ResumeCompaction,
     DeletePartialManifest, OutcomeRefused, RecoverCommitted, FinishSuccess, StartRollback,
     ResumeRollback, FailClosed, RemoveUnjournaled, Cleanup, BackupIntent, SnapshotIntent,
     RollbackIntent, RemoveTarget, ReceiptTarget, CompleteCleanup, Compaction, StartCompaction,
     PublishManifest, SealOutcome, PublishPending, DeletePartialRecord, Retire,
     RenameForRetirement, DeleteRetired, RemoveRetirement, Finalize
<1> QED BY <1>1, <1>4, <1>5 DEF R, Procs

\* A step that leaves a pass at its head, or ends it there.
Headed ==
    /\ UNCHANGED <<temp, jr, store, history>>
    /\ dest' \in {dest, IF dest \in Holding THEN "prospective+" ELSE "baseline+"}
    /\ files' = files \/ (pc[R] = "orphan" /\ \E o \in Snapshot : files' = files \ {o})
    /\ pc'[R] \in Heads
    /\ pc'[R] = "scan" /\ pc[R] # "scan" => history.state # "pending"
    /\ pc'[R] \in {"orphan", "dispatch"} =>
            \/ pc[R] \in {"orphan", "dispatch"}
            \/ pc[R] = "scan" /\ ~ListBlocked /\ (Orphaned => SnapshotWhole)

LEMMA HeadSteps ==
  ASSUME IInv, At("importer", "ended"), pc[R] \in Heads, [Next]_vars
  PROVE  \/ Headed
         \/ /\ UNCHANGED <<dest, temp, files, jr, store, history>>
            /\ \/ pc[R] = "pending" /\ ~PendingBlocked /\ history.state = "pending"
                  /\ pc'[R] = "retire"
               \/ pc[R] = "dispatch" /\ jr.phase = "COMPACTING" /\ pc'[R] = "recompact"
         \/ RecoverCommitted \/ FinishSuccess \/ StartRollback \/ ResumeRollback
<1>0. pc \in [Procs -> Stages] /\ "recovery" \in Procs
  BY DEF IInv, TypeOK, Procs
<1>1. CASE StartRecovery
  BY <1>0, <1>1 DEF StartRecovery, Goto, R, Headed, Heads, At
<1>2. CASE Recover
  <2>1. CASE ResumePending
    BY <1>0, <2>1 DEF ResumePending, Moves, Goto, At, R, Headed, Heads
  <2>2. CASE Scan \/ CollectOrphan
    BY <1>0, <2>2 DEF Scan, CollectOrphan, Moves, Goto, At, R, Headed, Heads
  <2>3. CASE NothingToRecover \/ FailClosed
    BY <1>0, <2>3 DEF NothingToRecover, FailClosed, LeaveLocked, Rest, Goto, R, Headed, Heads
  <2>4. CASE ResumeCompaction
    BY <1>0, <2>4 DEF ResumeCompaction, AtHead, Moves, Goto, At, R
  <2>5. CASE DeletePartialManifest \/ OutcomeRefused
    BY <2>5 DEF DeletePartialManifest, OutcomeRefused, At, Heads
  <2> QED BY <1>2, <2>1, <2>2, <2>3, <2>4, <2>5 DEF Recover
<1>3. CASE RemoveUnjournaled(R)
  BY <1>0, <1>3 DEF RemoveUnjournaled, Goto, R, Headed, Heads
<1>4. CASE Cleanup(R)
  BY <1>4 DEF Cleanup, BackupIntent, SnapshotIntent, RollbackIntent, Cleaning, RemoveTarget,
     ReceiptTarget, CompleteCleanup, At, Heads
<1>5. CASE Compaction(R)
  BY <1>5 DEF Compaction, StartCompaction, WritingManifest, Compacting, PublishManifest,
     SealOutcome, WritingPending, PublishPending, DeletePartialRecord, Retiring, Retire,
     RenameForRetirement, DeleteRetired, RemoveRetirement, Finalize, At, Heads
<1>6. CASE Abort(R) \/ Crash(R)
  <2>1. UNCHANGED <<store, history>>
    BY <1>6 DEF Abort, Crash, Torn, WritingManifest, WritingPending, Compacting, Heads
  <2> QED BY <1>0, <1>6, <2>1 DEF Abort, Crash, LeaveLocked, Goto, At, Rest, R, Headed, Heads
<1>7. CASE Save
  BY <1>7 DEF Save, Headed
<1>8. CASE ClearStaleLock \/ UNCHANGED <<dest, temp, files, jr, store, history, pc, lock>>
  BY <1>8 DEF ClearStaleLock, Headed
<1> QED BY <1>1, <1>2, <1>3, <1>4, <1>5, <1>6, <1>7, <1>8, Passes DEF Recovering

\* What a pass may do next at "dispatch" needs the collection to be the one it
\* knows, or an earlier cleanup to go on with.
LEMMA Dispatched ==
  ASSUME RecoverCommitted \/ FinishSuccess \/ StartRollback \/ ResumeRollback
  PROVE  /\ pc[R] = "dispatch" /\ Listed
         /\ jr.phase \in Undecided => dest \in {"baseline", "prospective"}
         /\ jr.phase = "ROLLING_BACK" =>
                dest = "baseline" /\ jr.op = "ROLLBACK_ALL" /\ ResumeRollback
         /\ jr.phase \in Undecided /\ jr.phase # "COMMITTING_COLLECTION" => dest = "baseline"
         /\ jr.phase # "COMPACTING"
         /\ jr.phase = "COLLECTION_COMMITTED" => FinishSuccess
BY DEF RecoverCommitted, FinishSuccess, StartRollback, ResumeRollback, AtHead, At, Moves, Undecided

LEMMA ForeignStays ==
  ASSUME IInv, [Next]_vars, StuckIn(ForeignCollection, Heads)
  PROVE  StuckIn(ForeignCollection, Heads)'
<1>1. At("importer", "ended")' /\ R = "recovery"
  BY Passes DEF StuckIn, At, R
<1>2. Headed
  BY HeadSteps, Dispatched DEF StuckIn, ForeignCollection, Undecided, IInv, Decided
<1> QED BY <1>1, <1>2 DEF StuckIn, ForeignCollection, Headed, Undecided, Holding, R

LEMMA UnprovableStays ==
  ASSUME IInv, [Next]_vars, StuckIn(UnprovableSnapshot, {"idle", "pending", "scan", "retire"})
  PROVE  StuckIn(UnprovableSnapshot, {"idle", "pending", "scan", "retire"})'
<1>1. At("importer", "ended")' /\ pc \in [Procs -> Stages] /\ R \in Procs
  BY Passes DEF StuckIn, At, R, Procs, IInv, TypeOK
<1>2. ASSUME UNCHANGED <<files, jr>>, Listed' => Listed,
             pc'[R] \in {"idle", "pending", "scan", "retire"}
      PROVE  StuckIn(UnprovableSnapshot, {"idle", "pending", "scan", "retire"})'
  BY <1>1, <1>2 DEF StuckIn, UnprovableSnapshot, Orphaned, SnapshotWhole, R
<1>3. CASE pc[R] # "retire"
  <2>1. pc[R] \in Heads
    BY <1>3 DEF StuckIn, Heads
  <2>2. Headed => UNCHANGED <<files, jr, store>> /\ pc'[R] \in {"idle", "pending", "scan"}
    BY <1>3 DEF StuckIn, UnprovableSnapshot, Headed, Heads
  <2>3. UNCHANGED <<files, jr, store>> /\ pc'[R] \in {"idle", "pending", "scan", "retire"}
    BY <1>3, <2>1, <2>2, HeadSteps, Dispatched DEF StuckIn
  <2> QED BY <1>2, <2>3 DEF Listed
<1>4. CASE pc[R] = "retire"
  <2>1. lock = "recovery"
    BY <1>4 DEF IInv, Turns, R
  <2>2. CASE Recovering
    <3>1. ~Recover \/ FailClosed
      BY <1>4 DEF Recover, ResumePending, Moves, Scan, CollectOrphan, NothingToRecover,
         ResumeCompaction, AtHead, DeletePartialManifest, OutcomeRefused, RecoverCommitted,
         FinishSuccess, StartRollback, ResumeRollback, At
    <3>2. ~RemoveUnjournaled(R) /\ ~Cleanup(R)
      BY <1>4 DEF RemoveUnjournaled, Cleanup, BackupIntent, SnapshotIntent, RollbackIntent,
         Cleaning, RemoveTarget, ReceiptTarget, CompleteCleanup, At
    <3>3. CASE FailClosed
      BY <1>1, <1>2, <3>3 DEF FailClosed, LeaveLocked, Rest, Goto, R, Listed
    <3>4. CASE Compaction(R)
      <4>1. /\ UNCHANGED <<files, jr>> /\ (Listed' => Listed)
            /\ pc'[R] \in {"idle", "pending", "scan", "retire"}
        BY <1>1, <1>4, <3>4 DEF Compaction, StartCompaction, WritingManifest, Compacting,
           PublishManifest, SealOutcome, WritingPending, PublishPending, DeletePartialRecord,
           Retire, RenameForRetirement, DeleteRetired, RemoveRetirement, Finalize, Goto, At,
           Listed, IInv, TypeOK, Stores
      <4> QED BY <1>2, <4>1
    <3> QED BY <2>2, <3>1, <3>2, <3>3, <3>4 DEF Recovering
  <2>3. CASE Abort(R) \/ Crash(R)
    <3>1. UNCHANGED <<files, jr, store>> /\ pc'[R] = "idle"
      BY <1>1, <1>4, <2>3 DEF Abort, Crash, LeaveLocked, Torn, WritingManifest, WritingPending,
         Compacting, Goto, Rest, At, R
    <3> QED BY <1>2, <3>1 DEF Listed
  <2>4. CASE UNCHANGED <<dest, temp, files, jr, store, history, pc, lock>>
    BY <1>2, <1>4, <2>4 DEF Listed
  <2> QED BY <1>4, <2>1, <2>2, <2>3, <2>4, Passes
          DEF StuckIn, StartRecovery, ClearStaleLock, Save, At
<1> QED BY <1>3, <1>4

LEMMA NoGenesisStays ==
  ASSUME IInv, [Next]_vars, StuckIn(NoGenesis, {"idle", "pending", "scan"})
  PROVE  StuckIn(NoGenesis, {"idle", "pending", "scan"})'
<1>1. At("importer", "ended")'
  BY Passes DEF StuckIn, At
<1>2. pc[R] \in Heads /\ ListBlocked /\ ~Listed
  BY DEF StuckIn, NoGenesis, Heads, ListBlocked, Listed
<1>3. history.state # "pending"
  BY DEF StuckIn, NoGenesis, IInv, Placed, Decided, Recorded
<1>4. Headed
  BY <1>2, <1>3, HeadSteps, Dispatched DEF StuckIn
<1> QED BY <1>1, <1>2, <1>4 DEF StuckIn, NoGenesis, Headed, Heads, R

LEMMA WithoutIntentStays ==
  ASSUME IInv, [Next]_vars, StuckIn(RollbackWithoutIntent, Heads)
  PROVE  StuckIn(RollbackWithoutIntent, Heads)'
<1>1. At("importer", "ended")'
  BY Passes DEF StuckIn, At
<1>2. history.state = "none"
  BY DEF StuckIn, RollbackWithoutIntent, IInv, Decided
<1>3. Headed
  BY <1>2, HeadSteps, Dispatched DEF StuckIn, RollbackWithoutIntent
<1> QED BY <1>1, <1>3 DEF StuckIn, RollbackWithoutIntent, Headed, R

LEMMA BackupReceiptStays ==
  ASSUME IInv, CInv, [Next]_vars, StuckIn(BackupReceiptOnly, Heads)
  PROVE  StuckIn(BackupReceiptOnly, Heads)'
<1>1. At("importer", "ended")'
  BY Passes DEF StuckIn, At
<1>2. jr.phase = "COLLECTION_COMMITTED" /\ history.state = "none"
  BY DEF StuckIn, BackupReceiptOnly, BackupPending, CInv, Ordered, IInv, Decided
<1>3. ~FinishSuccess
  BY DEF StuckIn, BackupReceiptOnly, FinishSuccess
<1>4. Headed
  BY <1>2, <1>3, HeadSteps, Dispatched DEF StuckIn
<1> QED BY <1>1, <1>4 DEF StuckIn, BackupReceiptOnly, BackupPending, Headed, R

LEMMA RetirementTornStays ==
  ASSUME IInv, [Next]_vars, StuckIn(RetirementTorn, {"idle", "pending"})
  PROVE  StuckIn(RetirementTorn, {"idle", "pending"})'
<1>1. At("importer", "ended")'
  BY Passes DEF StuckIn, At
<1>2. pc[R] \in Heads /\ PendingBlocked
  BY DEF StuckIn, RetirementTorn, Heads, PendingBlocked
<1>3. Headed
  BY <1>2, HeadSteps, Dispatched DEF StuckIn
<1> QED BY <1>1, <1>2, <1>3 DEF StuckIn, RetirementTorn, Headed, Heads, R

\* A cleanup that is owed something it can neither delete nor receipt goes on
\* for ever: nothing else can be appended before it is complete.
LEMMA ResumeSteps ==
  ASSUME IInv, CInv, [Next]_vars, At("importer", "ended"), pc[R] = "resume",
         jr.status = "INTENT", Owing # {}
  PROVE  \/ pc'[R] \in {"idle", "resume"} /\ UNCHANGED <<temp, files, jr>>
         \/ pc'[R] = "resume" /\ (RemoveTarget(R) \/ ReceiptTarget(R))
<1>0. pc \in [Procs -> Stages] /\ "recovery" \in Procs /\ lock = "recovery"
  BY DEF IInv, TypeOK, Procs, Turns, R
<1>1. CASE Recovering
  <2>1. ~Recover \/ FailClosed
    BY DEF Recover, ResumePending, Moves, Scan, CollectOrphan, NothingToRecover,
       ResumeCompaction, AtHead, DeletePartialManifest, OutcomeRefused, RecoverCommitted,
       FinishSuccess, StartRollback, ResumeRollback, At
  <2>2. CASE FailClosed
    BY <1>0, <2>2 DEF FailClosed, LeaveLocked, Rest, Goto, R
  <2>3. CASE Cleanup(R)
    <3>1. jr.op # "NONE"
      BY DEF CInv, Ordered
    <3>2. RemoveTarget(R) \/ ReceiptTarget(R)
      BY <2>3, <3>1 DEF Cleanup, BackupIntent, SnapshotIntent, RollbackIntent, CompleteCleanup, At
    <3> QED BY <3>2 DEF RemoveTarget, ReceiptTarget
  <2>4. ~Compaction(R)
    BY <1>0 DEF Compaction, StartCompaction, WritingManifest, Compacting, PublishManifest,
       SealOutcome, WritingPending, PublishPending, DeletePartialRecord, Retiring, Retire,
       RenameForRetirement, DeleteRetired, RemoveRetirement, Finalize, At
  <2>5. ~RemoveUnjournaled(R)
    BY DEF RemoveUnjournaled
  <2> QED BY <1>1, <2>1, <2>2, <2>3, <2>4, <2>5 DEF Recovering
<1>2. CASE Abort(R) \/ Crash(R)
  BY <1>0, <1>2 DEF Abort, Crash, LeaveLocked, Goto, Rest, At, R
<1>3. CASE UNCHANGED <<dest, temp, files, jr, store, history, pc, lock>>
  BY <1>3
<1> QED BY <1>0, <1>1, <1>2, <1>3, Passes DEF StartRecovery, ClearStaleLock, Save, At

\* A pass that finds an interrupted cleanup takes it up and changes nothing else.
LEMMA HeadsToResume ==
  ASSUME IInv, CInv, Kept, [Next]_vars, At("importer", "ended"), pc[R] \in Heads,
         jr.status = "INTENT"
  PROVE  /\ UNCHANGED <<temp, jr>> /\ pc'[R] \in Heads \cup {"resume"}
         /\ files' \subseteq files
<1>0. pc \in [Procs -> Stages] /\ R \in Procs
  BY DEF IInv, TypeOK, Procs, R
<1>1. jr.phase \in {"COLLECTION_COMMITTED", "ROLLING_BACK"}
  BY DEF IInv, Imaged, TypeOK, Generations, Phases, Undecided, Kept, Valid, ValidCompaction
<1>2. history.state = "none"
  BY <1>1 DEF IInv, Decided
<1>3. CASE Headed
  BY <1>3 DEF Headed
<1>4. CASE RecoverCommitted \/ FinishSuccess \/ StartRollback \/ ResumeRollback
  <2>1. FinishSuccess \/ ResumeRollback
    BY <1>1, <1>4, Dispatched
  <2> QED BY <1>0, <2>1 DEF FinishSuccess, ResumeRollback, Moves, Goto
<1> QED BY <1>1, <1>2, <1>3, <1>4, HeadSteps

\* An operation with targets left has an intent.
LEMMA OwingIntends ==
  ASSUME CInv, Kept, TypeOK, Owing # {}
  PROVE  jr.status = "INTENT"
BY DEF CInv, Ordered, Kept, TypeOK, Generations, Owing

\* T goes first.
LEMMA TemporaryFirst ==
  ASSUME TypeOK, "temp" \in Owing, NEW o \in Owing, NextTarget(o)
  PROVE  o = "temp"
<1>1. o \in Owned
  BY DEF TypeOK, Generations, Owing
<1>2. Rank("temp") = 0 /\ (o # "temp" => Rank(o) \in 1..8)
  BY <1>1, ImagesAssumption DEF Rank, Owned, Snapshot, Tree
<1>3. Rank(o) <= Rank("temp")
  BY DEF NextTarget
<1> QED BY <1>2, <1>3

LEMMA PartialTemporaryStays ==
  ASSUME IInv, CInv, Kept, [Next]_vars, StuckIn(PartialTemporary, Heads \cup {"resume"})
  PROVE  StuckIn(PartialTemporary, Heads \cup {"resume"})'
<1>1. At("importer", "ended")'
  BY Passes DEF StuckIn, At
<1>2. "temp" \in Owing /\ temp = "partial" /\ jr.op = "ROLLBACK_ALL" /\ jr.status = "INTENT"
  BY OwingIntends DEF StuckIn, PartialTemporary, IInv
<1>3. UNCHANGED <<temp, jr>> /\ pc'[R] \in Heads \cup {"resume"}
  <2>1. CASE pc[R] \in Heads
    BY <1>2, <2>1, HeadsToResume DEF StuckIn
  <2>2. CASE pc[R] = "resume"
    <3>1. ~RemoveTarget(R) /\ ~ReceiptTarget(R)
      BY <1>2, TemporaryFirst DEF RemoveTarget, ReceiptTarget, Exact, Present, IInv
    <3> QED BY <1>2, <2>2, <3>1, ResumeSteps DEF StuckIn, Heads
  <2> QED BY <2>1, <2>2 DEF StuckIn
<1> QED BY <1>1, <1>3 DEF StuckIn, PartialTemporary, Owing, R

LEMMA SnapshotCollectedStays ==
  ASSUME IInv, CInv, Kept, [Next]_vars, StuckIn(SnapshotCollected, Heads \cup {"resume"})
  PROVE  StuckIn(SnapshotCollected, Heads \cup {"resume"})'
<1>1. At("importer", "ended")'
  BY Passes DEF StuckIn, At
<1>2. PICK q \in Owing \cap (Snapshot \ {"snapDir"}) : jr.status = "INTENT" /\ "snapDir" \notin files
  BY DEF StuckIn, SnapshotCollected
<1>3. ASSUME files' \subseteq files, UNCHANGED jr, pc'[R] \in Heads \cup {"resume"}
      PROVE  StuckIn(SnapshotCollected, Heads \cup {"resume"})'
  BY <1>1, <1>2, <1>3 DEF StuckIn, SnapshotCollected, Owing, R
<1>4. CASE pc[R] \in Heads
  BY <1>2, <1>3, <1>4, HeadsToResume DEF StuckIn
<1>5. CASE pc[R] = "resume"
  <2>1. CASE RemoveTarget(R) /\ pc'[R] = "resume"
    BY <1>3, <2>1 DEF RemoveTarget
  <2>2. CASE ReceiptTarget(R) /\ pc'[R] = "resume"
    <3>1. PICK o \in Owing :
            /\ ParentPresent(o)
            /\ jr'.receipts = jr.receipts \cup {o} /\ jr'.targets = jr.targets
            /\ jr'.status = jr.status /\ files' = files
      BY <2>2 DEF ReceiptTarget, Append, IInv, TypeOK, Generations
    <3>2. o # q
      BY <1>2, <3>1 DEF ParentPresent
    <3>3. q \in jr'.targets \ jr'.receipts
      BY <1>2, <3>1, <3>2 DEF Owing
    <3> QED BY <1>1, <1>2, <2>2, <3>1, <3>3 DEF StuckIn, SnapshotCollected, Owing, R
  <2> QED BY <1>2, <1>3, <1>5, <2>1, <2>2, ResumeSteps DEF StuckIn, Heads
<1> QED BY <1>4, <1>5 DEF StuckIn

LEMMA OutcomeLostStays ==
  ASSUME IInv, [Next]_vars, StuckIn(OutcomeLost, Heads \cup {"recompact"})
  PROVE  StuckIn(OutcomeLost, Heads \cup {"recompact"})'
<1>0. pc \in [Procs -> Stages] /\ "recovery" \in Procs /\ jr \in Generations
  BY DEF IInv, TypeOK, Procs
<1>1. At("importer", "ended")'
  BY Passes DEF StuckIn, At
<1>2. ASSUME jr'.phase = jr.phase, jr'.audit = jr.audit, history'.state \in {"none", "partial"},
             pc'[R] \in Heads \cup {"recompact"}
      PROVE  StuckIn(OutcomeLost, Heads \cup {"recompact"})'
  BY <1>1, <1>2 DEF StuckIn, OutcomeLost, R
<1>3. CASE pc[R] \in Heads
  <2>1. history.state # "pending"
    BY DEF StuckIn, OutcomeLost
  <2>2. UNCHANGED <<jr, history>> /\ pc'[R] \in Heads \cup {"recompact"}
    BY <1>3, <2>1, HeadSteps, Dispatched DEF StuckIn, OutcomeLost, Headed, Heads
  <2> QED BY <1>2, <2>2 DEF StuckIn, OutcomeLost
<1>4. CASE pc[R] = "recompact"
  <2>1. lock = "recovery" /\ ~Provable(R) /\ history.state \in {"none", "partial"}
    BY <1>4 DEF IInv, Turns, R, StuckIn, OutcomeLost, Provable, At
  <2>2. CASE Recover
    <3>1. DeletePartialManifest \/ OutcomeRefused \/ FailClosed
      BY <1>4, <2>2 DEF Recover, ResumePending, Moves, Scan, CollectOrphan, NothingToRecover,
         ResumeCompaction, AtHead, RecoverCommitted, FinishSuccess, StartRollback,
         ResumeRollback, At
    <3>2. /\ jr' = jr /\ history'.state \in {"none", "partial"} /\ pc'[R] = "idle"
      BY <1>0, <2>1, <3>1 DEF DeletePartialManifest, OutcomeRefused, FailClosed, LeaveLocked,
         Rest, Goto, R, IInv, TypeOK, Histories
    <3> QED BY <1>2, <3>2 DEF Heads
  <2>3. CASE Compaction(R)
    <3>1. ~Retiring(R) /\ ~PublishPending(R) /\ ~StartCompaction(R)
      BY <1>4, <2>1 DEF Retiring, PublishPending, WritingPending, StartCompaction
    <3>2. PublishManifest(R) \/ SealOutcome(R) \/ DeletePartialRecord(R)
      BY <2>3, <3>1 DEF Compaction, RenameForRetirement, DeleteRetired, RemoveRetirement,
         Finalize, Retire
    <3>3. /\ jr'.phase = jr.phase /\ jr'.audit = jr.audit
          /\ history'.state \in {"none", "partial"} /\ pc'[R] = "recompact"
      BY <1>0, <1>4, <2>1, <3>2 DEF PublishManifest, SealOutcome, DeletePartialRecord, Append,
         Generations, IInv, TypeOK, Histories
    <3> QED BY <1>2, <3>3
  <2>4. ~RemoveUnjournaled(R) /\ ~Cleanup(R)
    BY <1>4 DEF RemoveUnjournaled, Cleanup, BackupIntent, SnapshotIntent, RollbackIntent,
       Cleaning, RemoveTarget, ReceiptTarget, CompleteCleanup, At
  <2>5. CASE Abort(R) \/ Crash(R)
    <3>1. jr' = jr /\ history' = history /\ pc'[R] = "idle"
      BY <1>0, <1>4, <2>1, <2>5 DEF Abort, Crash, LeaveLocked, Torn, WritingPending, Goto, Rest,
         At, R
    <3> QED BY <1>2, <2>1, <3>1 DEF Heads
  <2>6. CASE UNCHANGED <<dest, temp, files, jr, store, history, pc, lock>>
    BY <1>2, <1>4, <2>1, <2>6
  <2> QED BY <1>4, <2>1, <2>2, <2>3, <2>4, <2>5, <2>6, Passes
          DEF StuckIn, Recovering, StartRecovery, ClearStaleLock, Save, At
<1> QED BY <1>3, <1>4 DEF StuckIn

LEMMA StuckStep == IInv /\ CInv /\ Kept /\ Stuck /\ [Next]_vars => Stuck'
BY ForeignStays, UnprovableStays, NoGenesisStays, WithoutIntentStays, PartialTemporaryStays,
   BackupReceiptStays, SnapshotCollectedStays, OutcomeLostStays, RetirementTornStays DEF Stuck

\* Each of the nine states is one that no later pass, save, crash or closed window
\* gets out of: what the collector sees then needs a repair outside the program.
THEOREM WedgedStays == Spec => WedgedForGood
<1>1. AtRest /\ Wedged => Stuck
  BY DEF AtRest, Wedged, Stuck, StuckIn, Heads, At
<1>2. Stuck => Wedged
  BY DEF Stuck, StuckIn, Wedged
<1> QED BY CleanupInductive, KeptAlways, StuckStep, <1>1, <1>2, PTL DEF Spec, WedgedForGood
=============================================================================
