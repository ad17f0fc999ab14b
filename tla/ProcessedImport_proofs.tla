----------------------- MODULE ProcessedImport_proofs -----------------------
(***************************************************************************)
(* Theorems about ProcessedImport, for every set of images, in every       *)
(* world, and for any number of targets, failures and saves.               *)
(*                                                                         *)
(* EvidenceOutlivesUse relates the collection, the journal and the disk,   *)
(* and deletions that are spread over many passes lie between them.  IInv  *)
(* says what each of these passes may rely on:                             *)
(*   Turns     the lock and the leases decide who works                    *)
(*   Phased    whoever works has the phase that its stage supposes         *)
(*   Decided   the phase, the audit, the collection and history agree      *)
(*   Ordered   what each cleanup operation names, and when                 *)
(*   Imaged    in which order the images come, and which coins need them   *)
(*   Held      who still needs the snapshots                               *)
(*   Retained  where the bytes of the old collection are                   *)
(*   Emptied   what each operation leaves for the next one                 *)
(* Each layer is preserved by every step that starts with all of them.     *)
(* WedgedForGood adds Released, on what a head no longer names, and Stuck, *)
(* on the point that a pass reaches in a wedged state.                     *)
(***************************************************************************)
EXTENDS ProcessedImport, TLAPS

\* The stages of each process, and those of an importer with no journal yet.
ImporterStages == {"start", "preparing", "unsealed", "sealing", "preview", "cancel",
                   "genesis", "execute", "ended", "next"}
RecoveryStages == {"idle", "pending", "scan", "rawOrphan", "procScan", "procOrphan",
                   "dispatch", "rollback", "advance", "recompact", "next", "compact"}
Before == {"start", "preparing", "unsealed", "sealing", "preview", "cancel", "genesis"}
Leasing == {"preparing", "unsealed", "sealing", "preview", "cancel", "genesis", "execute"}
Undecided == {"PREPARED", "COPYING_IMAGES", "FILES_READY", "COMMITTING_COLLECTION"}

\* Who may act: the lock, the leases and the stages agree, and an orphan is
\* collected only when the importer is over.
Turns ==
    /\ pc["importer"] \in ImporterStages /\ pc["recovery"] \in RecoveryStages
    /\ pc["importer"] \in {"sealing", "genesis", "execute", "next"} => lock = "importer"
    /\ lock = "importer" => pc["importer"] \in {"sealing", "cancel", "genesis", "execute", "next"}
    /\ pc["recovery"] # "idle" <=> lock = "recovery"
    /\ pc["importer"] \in Leasing => lease = "importer"
    /\ ~alive => pc["importer"] = "ended"
    /\ pc["recovery"] \in {"rawOrphan", "procOrphan"} => pc["importer"] = "ended"
    /\ pc["importer"] = "start" => files = {}

\* The phase of the newest generation agrees with who is doing what.
Phased ==
    /\ jr.phase = "NONE" => ~Listed
    /\ pc["importer"] \in Before => jr.phase = "NONE"
    /\ pc["importer"] = "execute" => jr.phase \in Undecided
    /\ pc["importer"] = "next" => jr.phase = "COLLECTION_COMMITTED" /\ jr.op = "NONE"
    /\ pc["recovery"] = "rollback" => jr.phase = "ROLLING_BACK" /\ jr.op = "NONE"
    /\ pc["recovery"] = "advance" =>
            jr.phase \in {"COLLECTION_COMMITTED", "ROLLING_BACK"} /\ jr.status = "INTENT"
    /\ pc["recovery"] = "next" =>
            jr.phase \in {"COLLECTION_COMMITTED", "ROLLING_BACK"} /\ jr.status # "INTENT"
    /\ pc["recovery"] \in {"compact", "recompact"} => jr.phase = "COMPACTING"

\* The decision in the journal, the collection and the record agree.
Decided ==
    /\ jr.phase \in Undecided \cup {"NONE"} <=> jr.audit = "none"
    /\ jr.phase = "COLLECTION_COMMITTED" => jr.audit = "SUCCEEDED"
    /\ jr.phase = "ROLLING_BACK" => jr.audit = "ROLLED_BACK"
    /\ jr.audit = "SUCCEEDED" => dest \in Holding
    /\ jr.audit = "ROLLED_BACK" => dest \notin Holding
    /\ jr.audit = "none" /\ dest \in Holding => jr.phase = "COMMITTING_COLLECTION"
    /\ history.state # "none" => jr.phase = "COMPACTING"

\* What each cleanup operation names, and when.
Ordered ==
    /\ IF jr.op = "NONE" THEN jr.status = "NONE" /\ jr.targets = {} /\ jr.receipts = {}
                          ELSE jr.status # "NONE"
    /\ jr.phase \in Undecided \cup {"NONE"} => jr.op = "NONE"
    /\ jr.phase = "COLLECTION_COMMITTED" => jr.op # "ROLLBACK_ALL"
    /\ jr.phase = "ROLLING_BACK" => jr.op \in {"NONE", "ROLLBACK_ALL"}
    /\ jr.op = "BASELINE_BACKUP" =>
            jr.phase = "COLLECTION_COMMITTED"
                /\ jr.targets = {IF world.windows THEN "backup" ELSE "temp"}
    /\ jr.op = "SUCCESS_PROCESSED_SNAPSHOT" =>
            jr.phase = "COLLECTION_COMMITTED" /\ jr.targets = Processed
    /\ jr.op = "SUCCESS_SNAPSHOT" =>
            jr.audit = "SUCCEEDED" /\ jr.targets = Raw /\ ~jr.procRef
    /\ jr.op = "ROLLBACK_ALL" =>
            jr.audit = "ROLLED_BACK" /\ Processed \cup Raw \subseteq jr.targets
    /\ Raw \cap jr.receipts # {} => ~jr.procRef
    /\ jr.procRef => jr.rawRef
    /\ jr.status = "COMPLETE" => jr.targets \subseteq jr.receipts
    /\ jr.phase = "COMPACTING" =>
            /\ jr.op \in {"SUCCESS_SNAPSHOT", "ROLLBACK_ALL"} /\ jr.status = "COMPLETE"
            /\ ~jr.rawRef

\* The images behind the coins, and in which order they come.
Imaged ==
    /\ jr.phase = "NONE" => Tree \cap files = {} /\ temp = "none" /\ "backup" \notin files
    /\ jr.phase \in {"NONE", "PREPARED"} => jr.verified = {}
    /\ jr.phase \in Undecided =>
            /\ jr.verified \subseteq files
            /\ Images \cap files # {} => "marker" \in files
            /\ "marker" \in files => "imageRoot" \in files
    /\ jr.phase \in {"FILES_READY", "COMMITTING_COLLECTION"} => TreeWhole
    /\ dest \in Holding => TreeWhole

\* Both snapshots, while the importer or the journal needs them.
Held ==
    /\ pc["importer"] \in {"unsealed", "sealing", "preview", "genesis", "execute"} => RawWhole
    /\ pc["importer"] = "preparing" => "rawRoot" \in files
    /\ Listed /\ jr.procRef => RawWhole
    /\ pc["recovery"] = "rawOrphan" => ~(Listed /\ jr.rawRef)
    /\ pc["recovery"] = "procOrphan" => ~(Listed /\ jr.procRef)

\* Where the bytes of the old collection are.
Retained ==
    /\ "backup" \in files => world.windows /\ world.baseline
    /\ jr.phase \notin {"COMMITTING_COLLECTION", "ROLLING_BACK", "COLLECTION_COMMITTED"} =>
            temp = "none" /\ "backup" \notin files
    /\ jr.phase = "COMMITTING_COLLECTION" =>
            /\ jr.temp # "NONE"
            /\ jr.backup \in {"CREATED", "VERIFIED"} => "backup" \in files
            /\ jr.backup # "NONE" => world.baseline
            /\ dest \in Holding =>
                /\ jr.temp \in {"VERIFIED", "EXCHANGED"}
                /\ world.baseline /\ world.windows => "backup" \in files
                /\ temp = IF Exchanging THEN "baseline" ELSE "none"
    /\ jr.phase = "COLLECTION_COMMITTED" /\ ~Exchanging => temp = "none"

\* What is gone: every receipted target, what the operations before this one
\* removed, and all that a rollback does not name.
Emptied ==
    /\ \A o \in jr.receipts : ~Present(o)
    /\ jr.op \in {"SUCCESS_PROCESSED_SNAPSHOT", "SUCCESS_SNAPSHOT"} =>
            temp = "none" /\ "backup" \notin files
    /\ jr.op = "SUCCESS_SNAPSHOT" => Processed \cap files = {}
    /\ jr.phase = "ROLLING_BACK" /\ jr.op = "NONE" =>
            /\ temp = "none" \/ jr.temp \notin {"NONE", "PLANNED"}
            /\ "backup" \in files => jr.backup \notin {"NONE", "PLANNED"}
    /\ jr.op = "ROLLBACK_ALL" =>
            \A o \in Tree \cup {"temp", "backup"} : Present(o) => o \in jr.targets

IInv == TypeOK /\ Turns /\ Phased /\ Decided /\ Ordered /\ Imaged /\ Held /\ Retained /\ Emptied
-----------------------------------------------------------------------------
(* Turns: the lock and the leases decide who works.                        *)

\* No step gives the work of one process to another that does not hold its lock.
LEMMA TurnsStep == TypeOK /\ Turns /\ [Next]_vars => Turns'
<1> SUFFICES ASSUME TypeOK, Turns, [Next]_vars PROVE Turns'
  OBVIOUS
<1> USE DEF Turns, ImporterStages, RecoveryStages, Leasing, R
<1>0. /\ pc \in [Procs -> Stages] /\ Procs = {"importer", "recovery"}
      /\ lease \in {"importer", "free"} /\ files \subseteq Owned
  BY DEF TypeOK, Procs
<1>1. CASE UNCHANGED vars
  BY <1>1 DEF vars, disk, durable, control, others
<1>2. CASE Prepare
  <2>1. CASE CreateRaw
    BY <1>0, <2>1 DEF CreateRaw, Creates, At, Goto, others
  <2>2. CASE BeginSeal \/ Cancel \/ Commit
    BY <1>0, <2>2 DEF BeginSeal, Cancel, Commit, At, Goto, disk, others
  <2> QED BY <1>2, <2>1, <2>2 DEF Prepare
<1>3. CASE Seal
  <2>1. pc["importer"] = "sealing" /\ lock = "importer"
    BY <1>3 DEF Seal, At
  <2>2. \/ pc' = [pc EXCEPT !["importer"] = "sealing"] /\ lock' = lock
        \/ pc' = [pc EXCEPT !["importer"] = "preview"] /\ lock' = "free"
    BY <1>3 DEF Seal, Creates, Goto
  <2> QED BY <1>0, <1>3, <2>1, <2>2 DEF Seal, others
<1>4. ASSUME NEW p \in Procs, RemoveUnjournaled(p) PROVE Turns'
  <2>1. PICK o \in Unjournaled(p) \cap files :
          /\ files' = files \ {o}
          /\ \/ o = "rawRoot" /\ p = "importer" /\ LeaveLocked(p)
             \/ o = "rawRoot" /\ p = R /\ Goto(p, "procScan") /\ UNCHANGED <<lock, lease>>
             \/ o = "procRoot" /\ p = R /\ Goto(p, "dispatch") /\ UNCHANGED <<lock, lease>>
             \/ UNCHANGED control
    BY <1>4 DEF RemoveUnjournaled
  <2>2. /\ pc[p] \in {"cancel", "rawOrphan", "procOrphan"} /\ files' \subseteq files
        /\ UNCHANGED alive
    BY <1>4, <2>1 DEF Unjournaled, At, RemoveUnjournaled, others
  <2> QED BY <1>0, <2>1, <2>2 DEF LeaveLocked, Freed, Rest, Goto, control
<1>5. CASE Refuse \/ CreateJournalDirectory \/ Genesis
  BY <1>0, <1>5 DEF Refuse, CreateJournalDirectory, Genesis, At, Goto, disk, control, others
<1>6. CASE Execute
  <2>1. CASE RecordCommitted
    BY <1>0, <2>1 DEF RecordCommitted, Committing, Append, At, Goto, disk, others
  <2>2. CASE ~RecordCommitted
    <3>1. pc["importer"] = "execute" /\ UNCHANGED <<pc, lock, lease, alive>>
      BY <1>6, <2>2 DEF Execute, StartCopying, MakeImageRoot, WriteMarker, WriteImage,
         RecordImage, FilesReady, DeclareCommit, CreateTemporary, RecordTemporary,
         WriteTemporary, LinkBackup, RecordBackup, Publish, RecordExchange, Durable, Writes,
         Publishes, Committing, At, control, others
    <3> QED BY <3>1
  <2> QED BY <2>1, <2>2
<1>7. ASSUME NEW p \in Procs, BeginNext(p) PROVE Turns'
  BY <1>0, <1>7 DEF BeginNext, Intend, Append, LeaveLocked, Freed, Rest, At, Goto, disk, others
<1>8. CASE StartRecovery \/ ClearStaleLock \/ Exit \/ Save
  BY <1>0, <1>8 DEF StartRecovery, ClearStaleLock, Exit, Save, Freed, At, Goto, disk, control,
     others
<1>9. CASE ListHeads \/ RawScan \/ ProcessedScan \/ ResumeCompaction \/ ResumeCleanup
  <2>1. PICK from \in RecoveryStages, to \in RecoveryStages \ {"idle"} : Moves(from, to)
    BY <1>9 DEF ListHeads, RawScan, ProcessedScan, ResumeCompaction, ResumeCleanup
  <2>2. pc["recovery"] = from /\ lock = "recovery" /\ from # "idle"
    BY <2>1 DEF Moves, At
  <2>3. to = "rawOrphan" => RawOrphan /\ lease = "free"
    BY <1>0, <1>9, <2>1, <2>2 DEF ListHeads, RawScan, ProcessedScan, ResumeCompaction,
       ResumeCleanup, Moves, Goto
  <2>4. to = "procOrphan" => ProcessedOrphan /\ lease = "free"
    BY <1>0, <1>9, <2>1, <2>2 DEF ListHeads, RawScan, ProcessedScan, ResumeCompaction,
       ResumeCleanup, Moves, Goto, ProcessedScanBlocked
  <2>5. to \in {"rawOrphan", "procOrphan"} => pc["importer"] = "ended"
    BY <1>0, <2>2, <2>3, <2>4 DEF RawOrphan, ProcessedOrphan
  <2> QED BY <1>0, <2>1, <2>2, <2>5 DEF Moves, Goto, disk, others
<1>10. CASE RecoverCommitted \/ StartRollback \/ Cleanup \/ StartCompaction
  BY <1>0, <1>10 DEF RecoverCommitted, StartRollback, Cleanup, RemoveTarget, ReceiptTarget,
     CompleteCleanup, ReleaseProcessed, Advancing, StartCompaction, Append, AtHead, LeaveLocked,
     Freed, Rest, At, Goto, disk, control, others
<1>11. CASE NothingToRecover \/ DeletePartialManifest \/ RollbackIntent \/ FailClosed
            \/ (Compaction /\ ~StartCompaction)
  BY <1>0, <1>11 DEF NothingToRecover, DeletePartialManifest, RollbackIntent, FailClosed, Intend,
     Compaction, PublishManifest, SealOutcome, PublishPending, DeletePartialRecord,
     RenameForRetirement, RemoveRetirement, Finalize, Stores3, Writes3, Append, AtHead,
     LeaveLocked, Freed, Rest, At, Goto, disk, control, others
<1>12. ASSUME NEW p \in Procs, Abort(p) PROVE Turns'
  <2>1. /\ UNCHANGED alive /\ files' \subseteq files /\ ~At(p, Rest(p)) /\ ~At(p, "start")
        /\ \/ LeaveLocked(p)
           \/ At(p, "sealing") /\ Goto(p, "cancel") /\ lock' = "free" /\ UNCHANGED lease
           \/ At(p, "genesis") /\ Goto(p, "cancel") /\ UNCHANGED <<lock, lease>>
           \/ At(p, "cancel") /\ Goto(p, "ended") /\ lock' = Freed(lock, p) /\ UNCHANGED lease
    BY <1>12 DEF Abort, Fails
  <2> QED BY <1>0, <2>1 DEF LeaveLocked, Freed, Rest, At, Goto
<1>13. ASSUME NEW p \in Procs, Crash(p) PROVE Turns'
  BY <1>0, <1>13 DEF Crash, Fails, Freed, Rest, At, Goto
<1> QED
  BY <1>0, <1>1, <1>2, <1>3, <1>4, <1>5, <1>6, <1>7, <1>8, <1>9, <1>10, <1>11, <1>12, <1>13
     DEF Next, Importer, Recovering, Environment, Compaction

-----------------------------------------------------------------------------
(* Types, and what each step makes of the journal.                         *)

\* The names of the objects: snapshots, tree, T and B are apart.
LEMMA Apart ==
  /\ Tree \subseteq Owned /\ Raw \subseteq Owned /\ Processed \subseteq Owned
  /\ {"temp", "backup"} \subseteq Owned
  /\ Tree \cap (Raw \cup Processed) = {} /\ Raw \cap Processed = {}
  /\ {"temp", "backup"} \cap (Tree \cup Raw \cup Processed) = {}
BY ImagesAssumption DEF Owned, Tree, Raw, Processed

\* The steps of the transaction append, and write nothing else, or the reverse.
Appends ==
    StartCopying \/ RecordImage \/ FilesReady \/ DeclareCommit \/ RecordTemporary
        \/ RecordBackup \/ RecordExchange
Builds == MakeImageRoot \/ WriteMarker \/ WriteImage
Puts == CreateTemporary \/ WriteTemporary \/ LinkBackup \/ Publish

LEMMA ExecuteKinds ==
  ASSUME Execute
  PROVE  (Appends \/ Builds \/ Puts \/ RecordCommitted) /\ pc["importer"] = "execute"
BY DEF Execute, Appends, Builds, Puts, StartCopying, MakeImageRoot, WriteMarker, WriteImage,
   RecordImage, FilesReady, DeclareCommit, CreateTemporary, RecordTemporary, WriteTemporary,
   LinkBackup, RecordBackup, Publish, RecordExchange, RecordCommitted, Durable, Writes,
   Publishes, Committing, At

\* Appending changes nothing on disk, and of the generation only what it names.
LEMMA AppendsKeep ==
  ASSUME TypeOK, Appends
  PROVE  /\ UNCHANGED <<disk, store, history, control, others>>
         /\ jr' \in Generations /\ Listed
         /\ jr'.rawRef = jr.rawRef /\ jr'.procRef = jr.procRef /\ jr'.audit = jr.audit
         /\ jr'.op = jr.op /\ jr'.targets = jr.targets /\ jr'.receipts = jr.receipts
         /\ jr'.status = jr.status
         /\ jr.phase \in Undecided /\ jr'.phase \in Undecided
<1> USE DEF Durable, Append, Generations, Undecided, Phases, ArtifactStates
<1>0. jr \in Generations
  BY DEF TypeOK
<1>1. CASE StartCopying
  BY <1>0, <1>1 DEF StartCopying
<1>2. CASE RecordImage
  <2>1. PICK i \in Images : Durable([jr EXCEPT !.verified = @ \cup {i}])
    BY <1>2 DEF RecordImage
  <2> QED BY <1>0, <1>2, <2>1 DEF RecordImage
<1>3. CASE FilesReady
  BY <1>0, <1>3 DEF FilesReady
<1>4. CASE DeclareCommit
  BY <1>0, <1>4 DEF DeclareCommit
<1>5. CASE RecordTemporary
  BY <1>0, <1>5 DEF RecordTemporary, Committing
<1>6. CASE RecordBackup
  BY <1>0, <1>6 DEF RecordBackup, Committing
<1>7. CASE RecordExchange
  BY <1>0, <1>7 DEF RecordExchange, Committing
<1> QED BY <1>1, <1>2, <1>3, <1>4, <1>5, <1>6, <1>7 DEF Appends

\* The generation that decides for success.
LEMMA CommittedFields ==
  ASSUME TypeOK, jr' = Committed
  PROVE  /\ jr' \in Generations
         /\ jr'.phase = "COLLECTION_COMMITTED" /\ jr'.audit = "SUCCEEDED"
         /\ jr'.rawRef = jr.rawRef /\ jr'.procRef = jr.procRef
         /\ jr'.op = jr.op /\ jr'.targets = jr.targets /\ jr'.receipts = jr.receipts
         /\ jr'.status = jr.status
<1>1. PICK b \in ArtifactStates : b = IF world.baseline THEN "RETAINED" ELSE "NONE"
  BY DEF ArtifactStates
<1>2. jr' = [jr EXCEPT !.phase = "COLLECTION_COMMITTED", !.temp = "PUBLISHED",
                       !.backup = b, !.audit = "SUCCEEDED"]
  BY <1>1 DEF Committed
<1>3. jr \in Generations
  BY DEF TypeOK
<1>3a. "COLLECTION_COMMITTED" \in Phases /\ "PUBLISHED" \in ArtifactStates
       /\ "SUCCEEDED" \in Results
  BY DEF Phases, ArtifactStates, Results
<1>4. jr' \in Generations
  BY <1>2, <1>3, <1>3a DEF Generations
<1>5. /\ jr'.phase = "COLLECTION_COMMITTED" /\ jr'.audit = "SUCCEEDED"
      /\ jr'.rawRef = jr.rawRef /\ jr'.procRef = jr.procRef
      /\ jr'.op = jr.op /\ jr'.targets = jr.targets /\ jr'.receipts = jr.receipts
      /\ jr'.status = jr.status
  BY <1>2, <1>3 DEF Generations
<1> QED BY <1>2, <1>3, <1>4, <1>5

\* The generation that decides for rollback.
LEMMA RollbackFields ==
  ASSUME TypeOK, StartRollback
  PROVE  /\ jr' \in Generations
         /\ jr.phase \in Undecided /\ Listed
         /\ jr'.phase = "ROLLING_BACK" /\ jr'.audit = "ROLLED_BACK"
         /\ jr'.rawRef = jr.rawRef /\ jr'.procRef = jr.procRef
         /\ jr'.temp = jr.temp /\ jr'.backup = jr.backup
         /\ jr'.op = jr.op /\ jr'.targets = jr.targets /\ jr'.receipts = jr.receipts
         /\ jr'.status = jr.status
BY DEF TypeOK, StartRollback, Append, AtHead, Generations, Phases, Results, Undecided

\* A deletion intent.
LEMMA IntendFields ==
  ASSUME TypeOK, NEW p, NEW S \in SUBSET Owned, NEW k \in Kinds, Intend(p, k, S)
  PROVE  /\ jr' \in Generations
         /\ jr'.op = k /\ jr'.targets = S /\ jr'.receipts = {} /\ jr'.status = "INTENT"
         /\ jr'.phase = jr.phase /\ jr'.audit = jr.audit
         /\ jr'.rawRef = jr.rawRef /\ jr'.procRef = jr.procRef
         /\ jr'.temp = jr.temp /\ jr'.backup = jr.backup
BY DEF TypeOK, Intend, Append, Generations

LEMMA BeginNextFields ==
  ASSUME TypeOK, NEW p \in Procs, BeginNext(p)
  PROVE  /\ jr' \in Generations
         /\ NextKind \in {"BASELINE_BACKUP", "SUCCESS_PROCESSED_SNAPSHOT", "SUCCESS_SNAPSHOT"}
         /\ jr'.op = NextKind /\ jr'.targets = TargetsOf(NextKind)
         /\ jr'.receipts = {} /\ jr'.status = "INTENT"
         /\ jr'.phase = jr.phase /\ jr'.audit = jr.audit
         /\ jr'.rawRef = jr.rawRef /\ jr'.procRef = jr.procRef
<1>1. NextKind \in {"BASELINE_BACKUP", "SUCCESS_PROCESSED_SNAPSHOT", "SUCCESS_SNAPSHOT"}
  BY DEF NextKind
<1>2. TargetsOf(NextKind) \in SUBSET Owned
  BY Apart DEF TargetsOf
<1>3. Intend(p, NextKind, TargetsOf(NextKind))
  BY DEF BeginNext
<1> QED BY <1>1, <1>2, <1>3, IntendFields DEF Kinds

LEMMA RollbackIntentFields ==
  ASSUME TypeOK, RollbackIntent
  PROVE  /\ jr' \in Generations
         /\ jr'.op = "ROLLBACK_ALL" /\ jr'.targets = RollbackTargets
         /\ jr'.receipts = {} /\ jr'.status = "INTENT"
         /\ jr'.phase = jr.phase /\ jr'.audit = jr.audit
         /\ jr'.rawRef = jr.rawRef /\ jr'.procRef = jr.procRef
<1>1. RollbackTargets \in SUBSET Owned
  BY Apart DEF RollbackTargets
<1>2. Intend(R, "ROLLBACK_ALL", RollbackTargets)
  BY DEF RollbackIntent
<1> QED BY <1>1, <1>2, IntendFields DEF Kinds

\* A receipt, and what the last one for the raw snapshot forgets.
LEMMA ReceiptFields ==
  ASSUME TypeOK, ReceiptTarget
  PROVE  \E o \in Owing :
         /\ NextTarget(o) /\ ~Present(o) /\ Verified(o) /\ Listed
         /\ jr' \in Generations
         /\ jr'.receipts = jr.receipts \cup {o}
         /\ jr'.op = jr.op /\ jr'.targets = jr.targets /\ jr'.status = jr.status
         /\ jr'.phase = jr.phase /\ jr'.audit = jr.audit /\ jr'.temp = jr.temp
         /\ jr'.procRef = jr.procRef
         /\ jr'.rawRef = (jr.rawRef /\ ~(o \in Raw /\ Owing \cap Raw = {o}))
<1>0. jr \in Generations
  BY DEF TypeOK
<1>1. PICK o \in Owing :
        /\ NextTarget(o) /\ ~Present(o) /\ Verified(o) /\ Listed
        /\ jr' = [jr EXCEPT
             !.receipts = @ \cup {o},
             !.backup = IF jr.op = "BASELINE_BACKUP" THEN "CLEANED" ELSE @,
             !.rawRef = @ /\ ~(o \in Raw /\ Owing \cap Raw = {o})]
  BY DEF ReceiptTarget, Append
<1>2. PICK b \in ArtifactStates : b = IF jr.op = "BASELINE_BACKUP" THEN "CLEANED" ELSE jr.backup
  BY <1>0 DEF Generations, ArtifactStates
<1>3. PICK r \in BOOLEAN : r = (jr.rawRef /\ ~(o \in Raw /\ Owing \cap Raw = {o}))
  OBVIOUS
<1>4. jr' = [jr EXCEPT !.receipts = @ \cup {o}, !.backup = b, !.rawRef = r]
  BY <1>1, <1>2, <1>3
<1>5. o \in Owned
  BY <1>0 DEF Owing, Generations
<1>6. /\ jr' \in Generations
      /\ jr'.receipts = jr.receipts \cup {o}
      /\ jr'.op = jr.op /\ jr'.targets = jr.targets /\ jr'.status = jr.status
      /\ jr'.phase = jr.phase /\ jr'.audit = jr.audit /\ jr'.temp = jr.temp
      /\ jr'.procRef = jr.procRef
      /\ jr'.rawRef = r
  BY <1>0, <1>4, <1>5 DEF Generations
<1>7. jr'.rawRef = (jr.rawRef /\ ~(o \in Raw /\ Owing \cap Raw = {o}))
  BY <1>3, <1>6, Zenon
<1> QED BY <1>1, <1>6, <1>7, Zenon

\* The other appends of a cleanup or a compaction change one thing each.
LEMMA PlainAppends ==
  ASSUME TypeOK, CompleteCleanup \/ ReleaseProcessed \/ StartCompaction \/ SealOutcome
  PROVE  /\ jr' \in Generations /\ Listed
         /\ jr'.op = jr.op /\ jr'.targets = jr.targets /\ jr'.receipts = jr.receipts
         /\ jr'.audit = jr.audit /\ jr'.rawRef = jr.rawRef
         /\ UNCHANGED <<disk, store, history, others>>
         /\ \/ /\ CompleteCleanup /\ jr'.status = "COMPLETE" /\ jr'.phase = jr.phase
               /\ jr'.procRef = jr.procRef /\ jr'.temp = jr.temp /\ jr'.backup = jr.backup
            \/ /\ ReleaseProcessed /\ jr'.status = jr.status /\ jr'.phase = jr.phase
               /\ jr'.procRef = FALSE /\ jr'.temp = jr.temp /\ jr'.backup = jr.backup
            \/ /\ StartCompaction /\ jr'.status = jr.status /\ jr'.phase = "COMPACTING"
               /\ jr'.procRef = jr.procRef
            \/ /\ SealOutcome /\ jr'.status = jr.status /\ jr'.phase = jr.phase
               /\ jr'.procRef = jr.procRef /\ jr'.temp = jr.temp /\ jr'.backup = jr.backup
<1> USE DEF Append, Generations, Phases, ArtifactStates
<1>0. jr \in Generations
  BY DEF TypeOK
<1>1. CASE CompleteCleanup
  BY <1>0, <1>1 DEF CompleteCleanup
<1>2. CASE ReleaseProcessed
  BY <1>0, <1>2 DEF ReleaseProcessed, control
<1>3. CASE StartCompaction
  BY <1>0, <1>3 DEF StartCompaction
<1>4. CASE SealOutcome
  BY <1>0, <1>4 DEF SealOutcome
<1> QED BY <1>1, <1>2, <1>3, <1>4

\* Whatever a step appends, the newest generation has its type.
LEMMA JournalStep == TypeOK /\ [Next]_vars => jr' \in Generations
<1> SUFFICES ASSUME TypeOK, [Next]_vars PROVE jr' \in Generations
  OBVIOUS
<1>1. ASSUME UNCHANGED jr PROVE jr' \in Generations
  BY <1>1 DEF TypeOK
<1>2. CASE Genesis
  <2>1. Blank \in Generations
    BY DEF Blank, Generations, Phases, ArtifactStates, Results, Kinds
  <2> QED BY <1>2, <2>1 DEF Genesis, Generations, Phases
<1>3. CASE Execute
  <2>1. CASE Appends
    BY <2>1, AppendsKeep
  <2>2. CASE RecordCommitted
    BY <2>2, CommittedFields DEF RecordCommitted, Append
  <2>3. CASE Builds \/ Puts
    BY <1>1, <2>3 DEF Builds, Puts, MakeImageRoot, WriteMarker, WriteImage, Writes,
       CreateTemporary, WriteTemporary, LinkBackup, Publish, Publishes, durable
  <2> QED BY <1>3, <2>1, <2>2, <2>3, ExecuteKinds
<1>4. ASSUME NEW p \in Procs, BeginNext(p) PROVE jr' \in Generations
  BY <1>4, BeginNextFields
<1>5. CASE Cleanup
  BY <1>1, <1>5, ReceiptFields, PlainAppends DEF Cleanup, RemoveTarget, durable
<1>6. CASE Compaction
  BY <1>1, <1>6, PlainAppends DEF Compaction, PublishManifest, PublishPending,
     DeletePartialRecord, RenameForRetirement, RemoveRetirement, Finalize, Stores3, Writes3
<1>7. CASE RecoverCommitted
  BY <1>7, CommittedFields DEF RecoverCommitted, Append
<1>8. CASE StartRollback \/ RollbackIntent
  BY <1>8, RollbackFields, RollbackIntentFields
<1>9. CASE ListHeads \/ RawScan \/ ProcessedScan \/ NothingToRecover \/ ResumeCompaction
           \/ DeletePartialManifest \/ ResumeCleanup \/ FailClosed
  BY <1>1, <1>9 DEF ListHeads, RawScan, ProcessedScan, NothingToRecover, ResumeCompaction,
     DeletePartialManifest, ResumeCleanup, FailClosed, Moves, durable
<1>10. CASE Prepare \/ Seal \/ (\E p \in Procs : RemoveUnjournaled(p)) \/ Refuse
            \/ CreateJournalDirectory \/ StartRecovery \/ ClearStaleLock \/ Exit \/ Save
            \/ (\E p \in Procs : Abort(p) \/ Crash(p)) \/ UNCHANGED vars
  BY <1>1, <1>10 DEF Prepare, CreateRaw, BeginSeal, Cancel, Commit, Creates, Seal,
     RemoveUnjournaled, Refuse, CreateJournalDirectory, StartRecovery, ClearStaleLock, Exit,
     Save, Abort, Crash, Fails, durable, vars
<1>11. Procs = {"importer", "recovery"}
  BY DEF Procs
<1> QED
  BY <1>2, <1>3, <1>4, <1>5, <1>6, <1>7, <1>8, <1>9, <1>10, <1>11
     DEF Next, Importer, Recovering, Environment, R

\* Every step keeps the type invariant.
LEMMA TypeOKStep == TypeOK /\ [Next]_vars => TypeOK'
<1> SUFFICES ASSUME TypeOK, [Next]_vars PROVE TypeOK'
  OBVIOUS
<1>0. /\ world \in Worlds /\ dest \in Collections /\ temp \in TempBytes /\ files \subseteq Owned
      /\ store \in Stores /\ history \in Histories
      /\ pc \in [Procs -> Stages] /\ lock \in Procs \cup {"free", "stale"}
      /\ lease \in {"importer", "free"}
      /\ alive \in BOOLEAN /\ failures \in Nat /\ saves \in Nat
      /\ Procs = {"importer", "recovery"}
      /\ jr.audit \in Results
      /\ jr' \in Generations
  BY JournalStep DEF TypeOK, Procs, Generations
<1>1. \A p \in Procs : /\ Freed(lease, p) \in {"importer", "free"}
                       /\ Freed(lock, p) \in Procs \cup {"free", "stale"}
  BY <1>0 DEF Freed
<1>2. \A p \in Procs, s \in Stages : [pc EXCEPT ![p] = s] \in [Procs -> Stages]
  BY <1>0
<1>3. {"ended", "idle"} \subseteq Stages /\ \A p \in Procs : Rest(p) \in Stages
  BY DEF Stages, Rest
<1>4. \A p \in Procs : LeaveLocked(p) =>
          /\ pc' \in [Procs -> Stages] /\ lock' \in Procs \cup {"free", "stale"}
          /\ lease' \in {"importer", "free"}
  BY <1>1, <1>2, <1>3 DEF LeaveLocked, Goto
<1> USE DEF disk, durable, control, others, R
<1>5. CASE UNCHANGED vars
  BY <1>5 DEF vars, TypeOK
<1>6. CASE Prepare
  <2>1. CASE CreateRaw
    BY <1>0, <1>2, <2>1, Apart DEF CreateRaw, Creates, Goto, TypeOK, Stages, Raw
  <2> QED BY <1>0, <1>2, <1>6, <2>1 DEF Prepare, BeginSeal, Cancel, Commit, Goto, TypeOK, Stages
<1>7. CASE Seal
  <2>1. PICK o \in Processed, s \in {"sealing", "preview"} :
            Creates(o, s) /\ lock' \in {lock, "free"}
    BY <1>7 DEF Seal, Processed
  <2>2. s \in Stages
    BY DEF Stages
  <2> QED BY <1>0, <1>2, <1>7, <2>1, <2>2, Apart DEF Seal, Creates, Goto, TypeOK
<1>8. ASSUME NEW p \in Procs, RemoveUnjournaled(p) PROVE TypeOK'
  <2>1. \/ LeaveLocked(p)
        \/ Goto(p, "procScan") /\ UNCHANGED <<lock, lease>>
        \/ Goto(p, "dispatch") /\ UNCHANGED <<lock, lease>>
        \/ UNCHANGED control
    BY <1>8 DEF RemoveUnjournaled
  <2>2. /\ pc' \in [Procs -> Stages] /\ lock' \in Procs \cup {"free", "stale"}
        /\ lease' \in {"importer", "free"}
    BY <1>0, <1>2, <1>4, <2>1 DEF Goto, Stages
  <2>3. files' \subseteq Owned
    BY <1>0, <1>8 DEF RemoveUnjournaled
  <2> QED BY <1>0, <1>8, <2>2, <2>3 DEF RemoveUnjournaled, TypeOK
<1>9. CASE Refuse \/ CreateJournalDirectory \/ Genesis
  <2>1. store' \in Stores
    BY <1>0, <1>9 DEF Refuse, CreateJournalDirectory, Genesis, Stores
  <2>2. pc' \in [Procs -> Stages]
    BY <1>0, <1>2, <1>9 DEF Refuse, CreateJournalDirectory, Genesis, Goto, Stages
  <2> QED BY <1>0, <1>9, <2>1, <2>2 DEF Refuse, CreateJournalDirectory, Genesis, TypeOK
<1>10. CASE Execute
  <2>1. CASE Appends
    BY <1>0, <2>1, AppendsKeep DEF TypeOK
  <2>2. CASE Builds
    <3>1. PICK o \in Tree : Writes(o)
      BY <2>2 DEF Builds, MakeImageRoot, WriteMarker, WriteImage, Tree
    <3> QED BY <1>0, <3>1, Apart DEF Writes, TypeOK
  <2>3. CASE Puts
    <3>1. PICK d \in Collections, t \in TempBytes, f \in SUBSET Owned : Publishes(d, t, f)
      <4>1. CASE CreateTemporary \/ WriteTemporary \/ Publish
        BY <1>0, <4>1 DEF CreateTemporary, WriteTemporary, Publish, Collections, TempBytes
      <4>2. CASE LinkBackup
        BY <1>0, <4>2, Apart DEF LinkBackup
      <4> QED BY <2>3, <4>1, <4>2 DEF Puts
    <3> QED BY <1>0, <3>1 DEF Publishes, TypeOK
  <2>4. CASE RecordCommitted
    BY <1>0, <1>2, <2>4 DEF RecordCommitted, Goto, TypeOK, Stages
  <2> QED BY <1>10, <2>1, <2>2, <2>3, <2>4, ExecuteKinds
<1>11. ASSUME NEW p \in Procs, BeginNext(p) PROVE TypeOK'
  BY <1>0, <1>4, <1>11 DEF BeginNext, TypeOK
<1>12. CASE Cleanup
  <2>1. CASE RemoveTarget
    BY <1>0, <2>1 DEF RemoveTarget, TypeOK, TempBytes
  <2>2. CASE ReceiptTarget
    BY <1>0, <1>4, <2>2 DEF ReceiptTarget, TypeOK
  <2>3. CASE CompleteCleanup \/ ReleaseProcessed
    BY <1>0, <1>2, <2>3 DEF CompleteCleanup, ReleaseProcessed, Goto, Stages, TypeOK
  <2> QED BY <1>12, <2>1, <2>2, <2>3 DEF Cleanup
<1>13. CASE Compaction
  <2>1. CASE StartCompaction \/ SealOutcome
    BY <1>0, <1>2, <2>1 DEF StartCompaction, SealOutcome, Goto, Stages, TypeOK
  <2>2. CASE PublishManifest \/ RenameForRetirement \/ RemoveRetirement
    <3>1. store' \in Stores
      BY <1>0, <2>2 DEF PublishManifest, RenameForRetirement, RemoveRetirement, Stores3, Stores
    <3> QED BY <1>0, <2>2, <3>1 DEF PublishManifest, RenameForRetirement, RemoveRetirement,
       Stores3, TypeOK
  <2>3. CASE PublishPending \/ DeletePartialRecord
    <3>1. history' \in Histories
      BY <1>0, <2>3 DEF PublishPending, DeletePartialRecord, Writes3, Histories
    <3> QED BY <1>0, <2>3, <3>1 DEF PublishPending, DeletePartialRecord, Writes3, TypeOK
  <2>4. CASE Finalize
    <3>1. history' \in Histories
      BY <1>0, <2>4 DEF Finalize, Histories
    <3> QED BY <1>0, <1>4, <2>4, <3>1 DEF Finalize, TypeOK
  <2> QED BY <1>13, <2>1, <2>2, <2>3, <2>4 DEF Compaction
<1>14. CASE RecoverCommitted \/ StartRollback
  BY <1>0, <1>2, <1>14 DEF RecoverCommitted, StartRollback, Goto, Stages, TypeOK
<1>15. CASE NothingToRecover \/ RollbackIntent \/ FailClosed
  BY <1>0, <1>4, <1>15 DEF NothingToRecover, RollbackIntent, FailClosed, TypeOK
<1>16. CASE DeletePartialManifest
  BY <1>0, <1>4, <1>16 DEF DeletePartialManifest, Stores, TypeOK
<1>17. CASE ListHeads \/ RawScan \/ ProcessedScan \/ ResumeCompaction \/ ResumeCleanup
  <2>1. PICK from \in Stages, to \in Stages : Moves(from, to)
    BY <1>17 DEF ListHeads, RawScan, ProcessedScan, ResumeCompaction, ResumeCleanup, Stages
  <2> QED BY <1>0, <1>2, <2>1 DEF Moves, Goto, TypeOK
<1>18. CASE StartRecovery \/ ClearStaleLock \/ Exit \/ Save
  <2>1. pc' \in [Procs -> Stages]
    BY <1>0, <1>2, <1>18 DEF StartRecovery, ClearStaleLock, Exit, Save, Goto, Stages
  <2>2. CASE StartRecovery \/ ClearStaleLock
    BY <1>0, <2>1, <2>2 DEF StartRecovery, ClearStaleLock, TypeOK
  <2>3. CASE Exit
    BY <1>0, <1>1, <2>1, <2>3 DEF Exit, TypeOK
  <2>4. CASE Save
    BY <1>0, <2>1, <2>4 DEF Save, Collections, TypeOK
  <2> QED BY <1>18, <2>2, <2>3, <2>4
<1>19. ASSUME NEW p \in Procs, Abort(p) \/ Crash(p) PROVE TypeOK'
  <2>1. Torn(p) /\ UNCHANGED <<world, dest, temp, jr, saves>> /\ failures' = failures + 1
    BY <1>19 DEF Abort, Crash, Fails
  <2>2. store' \in Stores /\ history' \in Histories
    BY <1>0, <2>1 DEF Torn, Stores, Histories
  <2>3. /\ pc' \in [Procs -> Stages] /\ lock' \in Procs \cup {"free", "stale"}
        /\ lease' \in {"importer", "free"} /\ files' \subseteq Owned /\ alive' \in BOOLEAN
    <3>1. CASE Crash(p)
      BY <1>0, <1>1, <1>2, <1>3, <3>1 DEF Crash, Goto
    <3>2. CASE Abort(p)
      <4>1. "cancel" \in Stages
        BY DEF Stages
      <4>2. files' \subseteq files /\ UNCHANGED alive
        BY <3>2 DEF Abort
      <4>3. \/ LeaveLocked(p)
            \/ Goto(p, "cancel") /\ lock' \in {lock, "free"} /\ UNCHANGED lease
            \/ Goto(p, "ended") /\ lock' = Freed(lock, p) /\ UNCHANGED lease
        BY <3>2 DEF Abort
      <4> QED BY <1>0, <1>1, <1>2, <1>3, <1>4, <4>1, <4>2, <4>3 DEF Goto
    <3> QED BY <1>19, <3>1, <3>2
  <2> QED BY <1>0, <2>1, <2>2, <2>3 DEF TypeOK
<1> QED
  BY <1>0, <1>5, <1>6, <1>7, <1>8, <1>9, <1>10, <1>11, <1>12, <1>13, <1>14, <1>15, <1>16, <1>17,
     <1>18, <1>19 DEF Next, Importer, Recovering, Environment

-----------------------------------------------------------------------------
(* Phased: whoever works has the phase that its stage supposes.            *)

\* What recovery does to the generation, it does with a head and with the lock:
\* the importer is then neither before its journal nor at work on it.
LEMMA RecoveryAppends ==
  ASSUME TypeOK, Turns, Phased, lock = R, Listed, UNCHANGED store,
         pc'["importer"] = pc["importer"], jr'.phase # "NONE"
  PROVE  /\ jr'.phase = "NONE" => ~Listed'
         /\ pc'["importer"] \in Before => jr'.phase = "NONE"
         /\ pc'["importer"] = "execute" => jr'.phase \in Undecided
         /\ pc'["importer"] = "next" => jr'.phase = "COLLECTION_COMMITTED" /\ jr'.op = "NONE"
BY DEF Turns, Phased, R, Before

LEMMA PhasedStep == TypeOK /\ Turns /\ Phased /\ Decided /\ Ordered /\ [Next]_vars => Phased'
<1> SUFFICES ASSUME TypeOK, Turns, Phased, Decided, Ordered, [Next]_vars PROVE Phased'
  OBVIOUS
<1>0. /\ pc \in [Procs -> Stages] /\ Procs = {"importer", "recovery"}
      /\ jr \in Generations /\ store \in Stores
      /\ pc["importer"] \in ImporterStages /\ pc["recovery"] \in RecoveryStages
      /\ pc["recovery"] # "idle" <=> lock = "recovery"
      /\ pc["importer"] \in {"sealing", "genesis", "execute", "next"} => lock = "importer"
      /\ Listed => jr.phase # "NONE"
  BY DEF TypeOK, Procs, Turns, Phased
<1> USE DEF ImporterStages, RecoveryStages, R, disk, durable, control, others
<1>1. CASE UNCHANGED <<pc, jr, store>>
  BY <1>1 DEF Phased, Listed
<1>2. CASE Prepare \/ Seal \/ Refuse \/ CreateJournalDirectory
  <2>1. pc["importer"] \in Before /\ jr' = jr /\ ~Listed'
    <3>1. pc["importer"] \in Before /\ jr' = jr /\ (store' = store \/ store'.dir = "bare")
      BY <1>0, <1>2 DEF Prepare, CreateRaw, BeginSeal, Cancel, Commit, Seal, Creates, Refuse,
         CreateJournalDirectory, At, Before, Stores
    <3> QED BY <3>1 DEF Phased, Listed
  <2>2. pc' = pc \/ \E s \in Before : pc' = [pc EXCEPT !["importer"] = s]
    BY <1>2 DEF Prepare, CreateRaw, BeginSeal, Cancel, Commit, Seal, Creates, Refuse,
       CreateJournalDirectory, Goto, Before
  <2> QED BY <1>0, <2>1, <2>2 DEF Phased, Before
<1>3. CASE Genesis
  <2>1. /\ pc["importer"] = "genesis" /\ pc' = [pc EXCEPT !["importer"] = "execute"]
        /\ jr'.phase = "PREPARED" /\ pc["recovery"] = "idle"
    BY <1>0, <1>3 DEF Genesis, Blank, At, Goto
  <2> QED BY <1>0, <2>1 DEF Phased, Before, Undecided
<1>4. CASE Execute
  <2>1. pc["importer"] = "execute" /\ pc["recovery"] = "idle" /\ jr.phase \in Undecided
    BY <1>0, <1>4, ExecuteKinds DEF Phased
  <2>2. CASE Appends
    BY <1>0, <2>1, <2>2, AppendsKeep DEF Phased, Before, Undecided
  <2>3. CASE Builds \/ Puts
    BY <1>1, <2>3 DEF Builds, Puts, MakeImageRoot, WriteMarker, WriteImage, Writes,
       CreateTemporary, WriteTemporary, LinkBackup, Publish, Publishes
  <2>4. CASE RecordCommitted
    <3>1. jr'.phase = "COLLECTION_COMMITTED" /\ jr'.op = jr.op
      BY <2>4, CommittedFields DEF RecordCommitted, Append
    <3>2. jr.op = "NONE"
      BY <2>1 DEF Ordered
    <3> QED BY <1>0, <2>1, <2>4, <3>1, <3>2 DEF RecordCommitted, Goto, Phased, Before, Undecided
  <2> QED BY <1>4, <2>2, <2>3, <2>4, ExecuteKinds
<1>5. ASSUME NEW p \in Procs, BeginNext(p) PROVE Phased'
  <2>1. /\ jr'.phase = jr.phase /\ jr.phase = "COLLECTION_COMMITTED" /\ UNCHANGED store
        /\ pc' = [pc EXCEPT ![p] = Rest(p)] /\ pc[p] = "next" /\ Listed
    BY <1>5, BeginNextFields DEF BeginNext, LeaveLocked, Goto, At, Intend, Append
  <2>2. CASE p = "importer"
    BY <1>0, <2>1, <2>2 DEF Rest, Phased, Before
  <2>3. CASE p = "recovery"
    <3>1. /\ lock = R /\ pc'["importer"] = pc["importer"] /\ pc'["recovery"] = "idle"
      BY <1>0, <2>1, <2>3 DEF Rest
    <3> QED BY <2>1, <3>1, RecoveryAppends DEF Phased
  <2> QED BY <1>0, <2>2, <2>3
<1>6. CASE Cleanup
  <2>1. CASE RemoveTarget
    BY <1>1, <2>1 DEF RemoveTarget
  <2>2. CASE ReceiptTarget
    <3>1. jr'.phase = jr.phase /\ Listed
      BY <2>2, ReceiptFields
    <3>2. /\ lock = R /\ pc'["importer"] = pc["importer"] /\ pc'["recovery"] = "idle"
          /\ UNCHANGED store
      BY <1>0, <2>2 DEF ReceiptTarget, Append, LeaveLocked, Goto, Rest
    <3> QED BY <1>0, <3>1, <3>2, RecoveryAppends DEF Phased
  <2>3. CASE CompleteCleanup
    <3>1. jr'.phase = jr.phase /\ jr'.status = "COMPLETE" /\ Listed /\ UNCHANGED store
      BY <2>3, PlainAppends DEF CompleteCleanup, Append, Generations, TypeOK
    <3>2. /\ lock = R /\ pc'["importer"] = pc["importer"] /\ pc'["recovery"] = "next"
          /\ pc["recovery"] = "advance"
      BY <1>0, <2>3 DEF CompleteCleanup, Append, Goto, At
    <3> QED BY <1>0, <3>1, <3>2, RecoveryAppends DEF Phased
  <2>4. CASE ReleaseProcessed
    <3>1. jr'.phase = jr.phase /\ jr'.status = jr.status /\ jr'.op = jr.op /\ Listed
          /\ UNCHANGED <<store, pc>> /\ lock = R
      BY <1>0, <2>4 DEF ReleaseProcessed, Append, Generations
    <3> QED BY <1>0, <3>1, RecoveryAppends DEF Phased
  <2> QED BY <1>6, <2>1, <2>2, <2>3, <2>4 DEF Cleanup
<1>7. CASE StartCompaction
  <2>1. jr'.phase = "COMPACTING" /\ Listed /\ UNCHANGED store
    BY <1>0, <1>7 DEF StartCompaction, Append, Generations
  <2>2. /\ lock = R /\ pc'["importer"] = pc["importer"] /\ pc'["recovery"] = "compact"
    BY <1>0, <1>7 DEF StartCompaction, Append, Goto
  <2> QED BY <2>1, <2>2, RecoveryAppends DEF Phased
<1>8. CASE SealOutcome
  <2>1. jr'.phase = jr.phase /\ jr.phase = "COMPACTING" /\ Listed /\ UNCHANGED <<store, pc>>
        /\ lock = R
    BY <1>0, <1>8 DEF SealOutcome, Compacting, Append, Generations, Phased
  <2> QED BY <1>0, <2>1, RecoveryAppends DEF Phased
<1>9. CASE PublishManifest \/ PublishPending \/ DeletePartialRecord \/ RenameForRetirement
           \/ RemoveRetirement \/ Finalize
  <2>1. jr' = jr /\ (Listed' => Listed)
    BY <1>0, <1>9 DEF PublishManifest, PublishPending, DeletePartialRecord, RenameForRetirement,
       RemoveRetirement, Finalize, Stores3, Writes3, Stores, Listed
  <2>2. pc' = pc \/ pc' = [pc EXCEPT !["recovery"] = "idle"]
    BY <1>9 DEF PublishManifest, PublishPending, DeletePartialRecord, RenameForRetirement,
       RemoveRetirement, Finalize, Stores3, Writes3, LeaveLocked, Goto, Rest
  <2> QED BY <1>0, <2>1, <2>2 DEF Phased
<1>10. CASE RecoverCommitted
  <2>1. jr'.phase = "COLLECTION_COMMITTED" /\ jr'.status = jr.status /\ jr.status = "NONE"
    <3>1. jr.phase = "COMMITTING_COLLECTION"
      BY <1>10 DEF RecoverCommitted, AtHead
    <3> QED BY <1>10, <3>1, CommittedFields DEF RecoverCommitted, Append, Ordered, Undecided
  <2>2. /\ lock = R /\ Listed /\ pc'["importer"] = pc["importer"] /\ pc'["recovery"] = "next"
        /\ UNCHANGED store
    BY <1>0, <1>10 DEF RecoverCommitted, Append, Goto
  <2> QED BY <2>1, <2>2, RecoveryAppends DEF Phased
<1>11. CASE StartRollback
  <2>1. jr'.phase = "ROLLING_BACK" /\ jr'.op = "NONE"
    BY <1>11, RollbackFields DEF Ordered
  <2>2. /\ lock = R /\ Listed /\ pc'["importer"] = pc["importer"] /\ pc'["recovery"] = "rollback"
        /\ UNCHANGED store
    BY <1>0, <1>11 DEF StartRollback, Append, Goto
  <2> QED BY <2>1, <2>2, RecoveryAppends DEF Phased
<1>12. CASE RollbackIntent
  <2>1. jr'.phase = jr.phase
    BY <1>12, RollbackIntentFields
  <2>2. /\ lock = R /\ Listed /\ pc'["importer"] = pc["importer"] /\ pc'["recovery"] = "idle"
        /\ UNCHANGED store
    BY <1>0, <1>12 DEF RollbackIntent, Intend, Append, LeaveLocked, Goto, Rest
  <2> QED BY <1>0, <2>1, <2>2, RecoveryAppends DEF Phased
<1>13. CASE ListHeads \/ RawScan \/ ProcessedScan \/ ResumeCompaction \/ ResumeCleanup
  <2>1. PICK to \in RecoveryStages : pc' = [pc EXCEPT !["recovery"] = to]
    BY <1>13 DEF ListHeads, RawScan, ProcessedScan, ResumeCompaction, ResumeCleanup, Moves, Goto
  <2>2. UNCHANGED <<jr, store>>
    BY <1>13 DEF ListHeads, RawScan, ProcessedScan, ResumeCompaction, ResumeCleanup, Moves
  <2>3. /\ to \notin {"rollback", "compact"}
        /\ to = "recompact" => jr.phase = "COMPACTING"
        /\ to = "advance" =>
             jr.phase \in {"COLLECTION_COMMITTED", "ROLLING_BACK"} /\ jr.status = "INTENT"
        /\ to = "next" =>
             jr.phase \in {"COLLECTION_COMMITTED", "ROLLING_BACK"} /\ jr.status # "INTENT"
    BY <1>0, <1>13, <2>1 DEF ListHeads, RawScan, ProcessedScan, ResumeCompaction, ResumeCleanup,
       Moves, Goto, AtHead, Decided
  <2> QED BY <1>0, <2>1, <2>2, <2>3 DEF Phased, Listed
<1>14. CASE NothingToRecover \/ DeletePartialManifest \/ FailClosed \/ StartRecovery
  <2>1. /\ jr' = jr /\ (Listed' => Listed)
        /\ pc' = [pc EXCEPT !["recovery"] = "idle"] \/ pc' = [pc EXCEPT !["recovery"] = "pending"]
    BY <1>0, <1>14 DEF NothingToRecover, DeletePartialManifest, FailClosed, StartRecovery,
       LeaveLocked, Goto, Rest, Stores, Listed
  <2> QED BY <1>0, <2>1 DEF Phased
<1>15. ASSUME NEW p \in Procs, RemoveUnjournaled(p) PROVE Phased'
  <2>1. UNCHANGED <<jr, store>> /\ pc[p] \in {"cancel", "rawOrphan", "procOrphan"}
        /\ (pc' = pc \/ \E s \in {Rest(p), "procScan", "dispatch"} : pc' = [pc EXCEPT ![p] = s]
                            /\ (p = "importer" => s = "ended"))
    BY <1>15 DEF RemoveUnjournaled, LeaveLocked, Goto, Unjournaled, At, Rest
  <2> QED BY <1>0, <2>1 DEF Phased, Rest, Before, Listed
<1>16. ASSUME NEW p \in Procs, Abort(p) \/ Crash(p) PROVE Phased'
  <2>1. jr' = jr /\ Torn(p)
    BY <1>16 DEF Abort, Crash, Fails
  <2>2. Listed' => Listed
    BY <1>0, <2>1 DEF Torn, Stores, Listed
  <2>3. \/ pc' = [pc EXCEPT ![p] = Rest(p)]
        \/ p = "importer" /\ pc["importer"] \in Before /\ pc' = [pc EXCEPT ![p] = "cancel"]
        \/ p = "importer" /\ pc' = [pc EXCEPT ![p] = "ended"]
    BY <1>0, <1>16 DEF Abort, Crash, LeaveLocked, Goto, At, Before
  <2> QED BY <1>0, <2>1, <2>2, <2>3 DEF Phased, Rest, Before
<1>17. CASE ClearStaleLock \/ Exit \/ Save \/ UNCHANGED vars
  BY <1>1, <1>17 DEF ClearStaleLock, Exit, Save, vars
<1> QED
  BY <1>0, <1>2, <1>3, <1>4, <1>5, <1>6, <1>7, <1>8, <1>9, <1>10, <1>11, <1>12, <1>13, <1>14,
     <1>15, <1>16, <1>17 DEF Next, Importer, Recovering, Environment, Compaction


-----------------------------------------------------------------------------
(* The steps that matter to the other layers.                              *)

\* A step that changes neither the journal nor T, and takes away nothing but
\* members of a snapshot: of the importer's own, or of one that recovery found
\* no reference to.
Quiet ==
    /\ UNCHANGED <<world, temp, jr>>
    /\ files' \subseteq files
    /\ dest' \in Holding <=> dest \in Holding
    /\ \/ files' = files
       \/ files \ files' \subseteq Raw \cup Processed
            /\ pc["importer"] \in {"preparing", "sealing", "cancel"}
       \/ files \ files' \subseteq Raw /\ pc["recovery"] = "rawOrphan"
       \/ files \ files' \subseteq Processed /\ pc["recovery"] = "procOrphan"

\* A snapshot grows, before there is a journal.
Grows ==
    /\ UNCHANGED <<world, dest, temp, jr>>
    /\ pc["importer"] \in Before
    /\ \E o \in Raw \cup Processed : files' = files \cup {o}

\* Every other step works for the transaction or a cleanup, or appends.
LEMMA StepKinds ==
  ASSUME TypeOK, Turns, Phased, [Next]_vars
  PROVE  \/ Quiet \/ Grows \/ Genesis \/ Execute \/ RecoverCommitted \/ StartRollback
         \/ RollbackIntent \/ Cleanup \/ StartCompaction \/ SealOutcome
         \/ \E p \in Procs : BeginNext(p)
<1> USE DEF disk, durable, others
<1>0. /\ Procs = {"importer", "recovery"} /\ R = "recovery"
      /\ pc["importer"] \in ImporterStages /\ pc["recovery"] \in RecoveryStages
  BY DEF Procs, R, Turns
<1>1. ASSUME NEW p \in Procs, RemoveUnjournaled(p) PROVE Quiet
  <2>1. /\ UNCHANGED <<world, dest, temp, jr>>
        /\ files' \subseteq files /\ files \ files' \subseteq Unjournaled(p)
    BY <1>1 DEF RemoveUnjournaled
  <2>2. CASE pc[p] = "cancel"
    <3>1. p = "importer" /\ Unjournaled(p) = Raw \cup Processed
      BY <1>0, <2>2 DEF Unjournaled, At, RecoveryStages
    <3> QED BY <2>1, <2>2, <3>1 DEF Quiet
  <2>3. CASE pc[p] = "rawOrphan"
    <3>1. p = "recovery" /\ Unjournaled(p) = Raw
      BY <1>0, <2>3 DEF Unjournaled, At, ImporterStages
    <3> QED BY <2>1, <2>3, <3>1 DEF Quiet
  <2>4. CASE pc[p] = "procOrphan"
    <3>1. p = "recovery" /\ Unjournaled(p) = Processed
      BY <1>0, <2>4 DEF Unjournaled, At, ImporterStages
    <3> QED BY <2>1, <2>4, <3>1 DEF Quiet
  <2>5. CASE pc[p] \notin {"cancel", "rawOrphan", "procOrphan"}
    <3>1. Unjournaled(p) = {}
      BY <2>5 DEF Unjournaled, At
    <3> QED BY <1>1, <3>1 DEF RemoveUnjournaled
  <2> QED BY <2>2, <2>3, <2>4, <2>5
<1>2. ASSUME NEW p \in Procs, Abort(p) PROVE Quiet
  <2>1. /\ UNCHANGED <<world, dest, temp, jr>>
        /\ \/ files' = files
           \/ pc[p] = "preparing" /\ files' = files \ Raw
           \/ pc[p] = "sealing" /\ files' = files \ Processed
    BY <1>2 DEF Abort, Fails, At
  <2>2. pc[p] \in {"preparing", "sealing"} => p = "importer"
    BY <1>0 DEF RecoveryStages
  <2> QED BY <2>1, <2>2 DEF Quiet
<1>3. ASSUME NEW p \in Procs, Crash(p) PROVE Quiet
  BY <1>3 DEF Crash, Fails, Quiet
<1>4. CASE Compaction /\ ~StartCompaction /\ ~SealOutcome
  BY <1>4 DEF Compaction, PublishManifest, PublishPending, DeletePartialRecord, Stores3, Writes3,
     RenameForRetirement, RemoveRetirement, Finalize, Quiet
<1>5. CASE ListHeads \/ RawScan \/ ProcessedScan \/ NothingToRecover \/ ResumeCompaction
           \/ DeletePartialManifest \/ ResumeCleanup \/ FailClosed
  BY <1>5 DEF ListHeads, RawScan, ProcessedScan, NothingToRecover, ResumeCompaction, Moves,
     DeletePartialManifest, ResumeCleanup, FailClosed, Quiet
<1>6. CASE Save
  BY <1>6 DEF Save, Holding, Quiet
<1>7. CASE Refuse \/ CreateJournalDirectory \/ BeginSeal \/ Cancel \/ Commit \/ StartRecovery
           \/ ClearStaleLock \/ Exit \/ UNCHANGED vars
  BY <1>7 DEF Refuse, CreateJournalDirectory, BeginSeal, Cancel, Commit, StartRecovery,
     ClearStaleLock, Exit, vars, Quiet
<1>8. CASE CreateRaw \/ Seal
  <2>1. /\ UNCHANGED <<world, dest, temp, jr>> /\ pc["importer"] \in Before
        /\ \E o \in Raw \cup Processed : files' = files \cup {o}
    BY <1>8 DEF CreateRaw, Seal, Creates, At, Before, Raw, Processed
  <2> QED BY <2>1 DEF Grows
<1> QED
  BY <1>0, <1>1, <1>2, <1>3, <1>4, <1>5, <1>6, <1>7, <1>8
     DEF Next, Prepare, Importer, Recovering, Environment, Compaction

\* An append, outside the transaction, touches neither the disk nor history.
LEMMA AppendersKeep ==
  ASSUME Genesis \/ RecoverCommitted \/ StartRollback \/ RollbackIntent \/ StartCompaction
           \/ SealOutcome \/ ReceiptTarget \/ CompleteCleanup \/ ReleaseProcessed
           \/ RecordCommitted \/ (\E p \in Procs : BeginNext(p))
  PROVE  UNCHANGED <<world, dest, temp, files, history>>
BY DEF Genesis, RecoverCommitted, StartRollback, RollbackIntent, StartCompaction, SealOutcome,
   ReceiptTarget, CompleteCleanup, ReleaseProcessed, RecordCommitted, BeginNext, disk, others

-----------------------------------------------------------------------------
(* Decided: the phase, the audit, the collection and history agree.        *)

\* Terminal history is written by a compaction only.
LEMMA HistoryStep ==
  ASSUME TypeOK, Phased, [Next]_vars
  PROVE  history' = history \/ (jr.phase = "COMPACTING" /\ jr' = jr)
<1> USE DEF disk, durable, others
<1>1. CASE Compaction
  <2>1. Compacting => jr.phase = "COMPACTING"
    BY DEF Compacting, Phased, R
  <2>2. CASE StartCompaction \/ PublishManifest \/ SealOutcome \/ RenameForRetirement
             \/ RemoveRetirement
    BY <2>2 DEF StartCompaction, PublishManifest, SealOutcome, RenameForRetirement,
       RemoveRetirement, Stores3
  <2>3. CASE PublishPending \/ DeletePartialRecord \/ Finalize
    BY <2>1, <2>3 DEF PublishPending, WritingPending, DeletePartialRecord, Finalize, Writes3,
       Phased, At, R
  <2> QED BY <1>1, <2>2, <2>3 DEF Compaction
<1>2. ASSUME NEW p \in Procs, Abort(p) \/ Crash(p)
      PROVE  history' = history \/ (jr.phase = "COMPACTING" /\ jr' = jr)
  BY <1>2 DEF Abort, Crash, Fails, Torn, WritingPending, Compacting, Phased, R
<1>3. CASE Execute
  <2>1. CASE Appends
    BY <2>1, AppendsKeep
  <2>2. CASE Builds \/ Puts
    BY <2>2 DEF Builds, Puts, MakeImageRoot, WriteMarker, WriteImage, Writes, CreateTemporary,
       WriteTemporary, LinkBackup, Publish, Publishes
  <2> QED BY <1>3, <2>1, <2>2, ExecuteKinds, AppendersKeep
<1>4. CASE Prepare \/ Seal \/ Refuse \/ CreateJournalDirectory \/ StartRecovery
           \/ ClearStaleLock \/ Exit \/ Save \/ UNCHANGED vars
  BY <1>4 DEF Prepare, CreateRaw, BeginSeal, Cancel, Commit, Seal, Creates, Refuse,
     CreateJournalDirectory, StartRecovery, ClearStaleLock, Exit, Save, vars
<1>5. CASE ListHeads \/ RawScan \/ ProcessedScan \/ NothingToRecover \/ ResumeCompaction
           \/ DeletePartialManifest \/ ResumeCleanup \/ FailClosed \/ RemoveTarget
  BY <1>5 DEF ListHeads, RawScan, ProcessedScan, NothingToRecover, ResumeCompaction, Moves,
     DeletePartialManifest, ResumeCleanup, FailClosed, RemoveTarget
<1>6. ASSUME NEW p \in Procs, RemoveUnjournaled(p) PROVE history' = history
  BY <1>6 DEF RemoveUnjournaled
<1>7. "importer" \in Procs /\ R \in Procs
  BY DEF Procs, R
<1> QED
  BY <1>1, <1>2, <1>3, <1>4, <1>5, <1>6, <1>7, AppendersKeep
     DEF Next, Importer, Recovering, Environment, Cleanup

\* The transaction publishes only while it is undecided.
LEMMA PutsKeep ==
  ASSUME Puts
  PROVE  /\ UNCHANGED <<jr, world>> /\ jr.phase = "COMMITTING_COLLECTION"
         /\ files' \in {files, files \cup {"backup"}}
BY DEF Puts, CreateTemporary, WriteTemporary, LinkBackup, Publish, Publishes, Committing, durable,
   others

LEMMA BuildsKeep ==
  ASSUME Builds
  PROVE  /\ UNCHANGED <<jr, world, dest, temp>> /\ jr.phase = "COPYING_IMAGES"
         /\ \E o \in Tree : files' = files \cup {o}
BY DEF Builds, MakeImageRoot, WriteMarker, WriteImage, Writes, Tree, durable, others

LEMMA DecidedStep == TypeOK /\ Turns /\ Phased /\ Decided /\ [Next]_vars => Decided'
<1> SUFFICES ASSUME TypeOK, Turns, Phased, Decided, [Next]_vars PROVE Decided'
  OBVIOUS
<1>0. jr \in Generations /\ history \in Histories /\ Procs = {"importer", "recovery"}
  BY DEF TypeOK, Procs
<1>1. ASSUME jr'.phase = jr.phase, jr'.audit = jr.audit, dest' \in Holding <=> dest \in Holding
      PROVE  Decided'
  <2>1. history'.state # "none" => jr'.phase = "COMPACTING"
    BY <1>1, HistoryStep DEF Decided
  <2> QED BY <1>1, <2>1 DEF Decided
<1>2. CASE Quiet
  BY <1>1, <1>2 DEF Quiet
<1>3. CASE Grows
  BY <1>1, <1>3 DEF Grows
<1>4. CASE Genesis
  <2>1. jr.phase = "NONE" /\ UNCHANGED <<dest, history>>
    BY <1>4, AppendersKeep DEF Genesis, At, Phased, Before
  <2>2. jr'.phase = "PREPARED" /\ jr'.audit = "none"
    BY <1>4 DEF Genesis, Blank
  <2> QED BY <2>1, <2>2 DEF Decided, Undecided
<1>5. CASE Execute
  <2>1. jr.phase \in Undecided /\ jr.audit = "none" /\ history.state = "none"
    BY <1>5, ExecuteKinds DEF Phased, Decided, Undecided
  <2>2. history' = history
    BY <2>1, HistoryStep DEF Undecided
  <2>3. CASE Appends
    <3>1. jr'.phase \in Undecided /\ jr'.audit = jr.audit /\ dest' = dest
      BY <2>3, AppendsKeep DEF disk
    <3>2. jr.phase = "COMMITTING_COLLECTION" => jr'.phase = "COMMITTING_COLLECTION"
      BY <1>0, <2>3 DEF Appends, StartCopying, RecordImage, FilesReady, DeclareCommit, Durable,
         Append, RecordTemporary, RecordBackup, RecordExchange, Generations
    <3> QED BY <2>1, <2>2, <3>1, <3>2 DEF Decided, Undecided
  <2>4. CASE Builds
    BY <1>1, <2>4, BuildsKeep
  <2>5. CASE Puts
    BY <2>1, <2>2, <2>5, PutsKeep DEF Decided, Undecided
  <2>6. CASE RecordCommitted
    <3>1. jr'.phase = "COLLECTION_COMMITTED" /\ jr'.audit = "SUCCEEDED"
      BY <2>6, CommittedFields DEF RecordCommitted, Append
    <3>2. dest' \in Holding
      BY <2>6, AppendersKeep DEF RecordCommitted, Holding
    <3> QED BY <2>1, <2>2, <3>1, <3>2 DEF Decided, Undecided
  <2> QED BY <1>5, <2>3, <2>4, <2>5, <2>6, ExecuteKinds
<1>6. CASE RecoverCommitted
  <2>1. jr'.phase = "COLLECTION_COMMITTED" /\ jr'.audit = "SUCCEEDED"
    BY <1>6, CommittedFields DEF RecoverCommitted, Append
  <2>2. dest' \in Holding /\ history' = history /\ jr.phase = "COMMITTING_COLLECTION"
    BY <1>6, AppendersKeep DEF RecoverCommitted, ProspectiveObserved, Holding, AtHead
  <2> QED BY <2>1, <2>2 DEF Decided, Undecided
<1>7. CASE StartRollback
  <2>1. jr.phase \in Undecided /\ jr'.phase = "ROLLING_BACK" /\ jr'.audit = "ROLLED_BACK"
    BY <1>7, RollbackFields
  <2>2. dest' = dest /\ history' = history
    BY <1>7, AppendersKeep
  <2>3. jr.phase = "COMMITTING_COLLECTION" => dest = "baseline"
    BY <1>7 DEF StartRollback, RollbackProvable, BaselineObserved
  <2>4. dest \notin Holding
    BY <2>1, <2>3 DEF Decided, Holding
  <2> QED BY <2>1, <2>2, <2>4 DEF Decided, Undecided
<1>8. CASE RollbackIntent
  BY <1>1, <1>8, RollbackIntentFields, AppendersKeep
<1>9. CASE Cleanup
  <2>1. CASE RemoveTarget
    BY <1>1, <2>1 DEF RemoveTarget, durable
  <2>2. CASE ReceiptTarget
    <3>1. jr'.phase = jr.phase /\ jr'.audit = jr.audit
      BY <2>2, ReceiptFields
    <3> QED BY <1>1, <2>2, <3>1, AppendersKeep
  <2>3. CASE CompleteCleanup \/ ReleaseProcessed
    <3>1. jr'.phase = jr.phase /\ jr'.audit = jr.audit
      BY <1>0, <2>3 DEF CompleteCleanup, ReleaseProcessed, Append, Generations
    <3> QED BY <1>1, <2>3, <3>1, AppendersKeep
  <2> QED BY <1>9, <2>1, <2>2, <2>3 DEF Cleanup
<1>10. CASE StartCompaction
  <2>1. jr.phase \in {"COLLECTION_COMMITTED", "ROLLING_BACK"}
    BY <1>10 DEF StartCompaction, At, Phased, R
  <2>2. jr'.phase = "COMPACTING" /\ jr'.audit = jr.audit
    BY <1>0, <1>10 DEF StartCompaction, Append, Generations
  <2>3. dest' = dest
    BY <1>10, AppendersKeep
  <2> QED BY <2>1, <2>2, <2>3 DEF Decided, Undecided
<1>11. CASE SealOutcome
  <2>1. jr'.phase = jr.phase /\ jr'.audit = jr.audit
    BY <1>0, <1>11 DEF SealOutcome, Append, Generations
  <2> QED BY <1>1, <1>11, <2>1, AppendersKeep
<1>12. ASSUME NEW p \in Procs, BeginNext(p) PROVE Decided'
  BY <1>1, <1>12, BeginNextFields, AppendersKeep
<1> QED
  BY <1>2, <1>3, <1>4, <1>5, <1>6, <1>7, <1>8, <1>9, <1>10, <1>11, <1>12, StepKinds

-----------------------------------------------------------------------------
(* Ordered: what each cleanup operation names, and when.                   *)

\* Where a target stands in the order of deletion.
LEMMA SnapshotRanks ==
  /\ \A o \in Processed : Rank(o) \in 5..8
  /\ \A o \in Raw : Rank(o) \in 9..10
<1> USE ImagesAssumption DEF Processed, Raw
<1>1. Rank("contents") = 5
  BY DEF Rank
<1>2. Rank("procOwner") = 6
  BY DEF Rank
<1>3. Rank("procComplete") = 7
  BY DEF Rank
<1>4. Rank("procRoot") = 8
  BY DEF Rank
<1>5. Rank("package") = 9
  BY DEF Rank
<1>6. Rank("rawRoot") = 10
  BY DEF Rank
<1> QED BY <1>1, <1>2, <1>3, <1>4, <1>5, <1>6

\* While a cleanup advances, its target is named, not yet receipted, and the raw
\* snapshot comes up only after the processed one has been released.
LEMMA AdvancingTarget ==
  ASSUME TypeOK, Turns, Phased, Decided, Ordered, Advancing, NEW o, NextTarget(o)
  PROVE  /\ o \in jr.targets /\ o \notin jr.receipts /\ o \in Owned
         /\ jr.status = "INTENT" /\ lock = R
         /\ jr.phase \in {"COLLECTION_COMMITTED", "ROLLING_BACK"}
         /\ o \in Raw => ~jr.procRef
<1>0. jr \in Generations /\ pc["recovery"] = "advance" /\ lock = "recovery"
  BY DEF TypeOK, Turns, Advancing, At, R
<1>1. jr.status = "INTENT" /\ jr.phase \in {"COLLECTION_COMMITTED", "ROLLING_BACK"}
  BY <1>0 DEF Phased
<1>2. o \in jr.targets /\ o \notin jr.receipts /\ o \in Owned
  BY <1>0 DEF NextTarget, Owing, Generations
<1>3. ASSUME o \in Raw, jr.procRef PROVE FALSE
  <2>1. jr.op = "ROLLBACK_ALL"
    <3>1. jr.op # "NONE" /\ jr.op # "SUCCESS_SNAPSHOT"
      BY <1>2, <1>3 DEF Ordered
    <3>2. jr.op = "BASELINE_BACKUP" => jr.targets \subseteq {"temp", "backup"}
      BY DEF Ordered
    <3>3. jr.op = "SUCCESS_PROCESSED_SNAPSHOT" => jr.targets = Processed
      BY DEF Ordered
    <3>4. jr.op \in Kinds
      BY <1>0 DEF Generations
    <3> QED BY <1>2, <1>3, <3>1, <3>2, <3>3, <3>4, Apart DEF Kinds
  <2>2. Processed \subseteq jr.targets /\ Raw \cap jr.receipts = {}
    BY <1>3, <2>1 DEF Ordered
  <2>3. ~ReleasedAt("advance")
    BY <1>3 DEF Advancing
  <2>4. PICK q \in Processed : q \notin jr.receipts
    BY <1>1, <2>1, <2>2, <2>3 DEF ReleasedAt
  <2>5. Rank(o) <= Rank(q)
    BY <2>2, <2>4 DEF NextTarget, Owing
  <2> QED BY <1>3, <2>4, <2>5, SnapshotRanks
<1> QED BY <1>0, <1>1, <1>2, <1>3 DEF R

LEMMA OrderedStep == TypeOK /\ Turns /\ Phased /\ Decided /\ Ordered /\ [Next]_vars => Ordered'
<1> SUFFICES ASSUME TypeOK, Turns, Phased, Decided, Ordered, [Next]_vars PROVE Ordered'
  OBVIOUS
<1>0. jr \in Generations /\ jr' \in Generations
  BY JournalStep DEF TypeOK
<1>1. Quiet \/ Grows => jr' = jr /\ world' = world
  BY DEF Quiet, Grows
<1>2. CASE Quiet \/ Grows
  BY <1>1, <1>2 DEF Ordered
<1>3. CASE Genesis
  <2>1. /\ jr'.phase = "PREPARED" /\ jr'.op = "NONE" /\ jr'.status = "NONE"
        /\ jr'.targets = {} /\ jr'.receipts = {} /\ jr'.rawRef = TRUE
    BY <1>3 DEF Genesis, Blank
  <2> QED BY <2>1 DEF Ordered
<1>4. ASSUME jr.phase \in Undecided, jr'.phase \notin {"COMPACTING"},
             jr'.op = jr.op, jr'.targets = jr.targets, jr'.receipts = jr.receipts,
             jr'.status = jr.status, jr'.rawRef = jr.rawRef, jr'.procRef = jr.procRef
      PROVE  Ordered'
  <2>1. jr.op = "NONE"
    BY <1>4 DEF Ordered
  <2> QED BY <1>4, <2>1 DEF Ordered
<1>5. CASE Execute
  <2>1. jr.phase \in Undecided
    BY <1>5, ExecuteKinds DEF Phased
  <2>2. CASE Appends
    BY <1>4, <2>1, <2>2, AppendsKeep DEF Undecided
  <2>3. CASE Builds \/ Puts
    BY <2>3, BuildsKeep, PutsKeep DEF Ordered
  <2>4. CASE RecordCommitted
    BY <1>4, <2>1, <2>4, CommittedFields DEF RecordCommitted, Append
  <2> QED BY <1>5, <2>2, <2>3, <2>4, ExecuteKinds
<1>6. CASE RecoverCommitted
  <2>1. jr.phase \in Undecided /\ jr' = Committed
    BY <1>6 DEF RecoverCommitted, Append, AtHead, Undecided
  <2> QED BY <1>4, <2>1, CommittedFields
<1>7. CASE StartRollback
  BY <1>4, <1>7, RollbackFields
<1>8. CASE RollbackIntent
  <2>1. jr.phase = "ROLLING_BACK" /\ jr.audit = "ROLLED_BACK"
    BY <1>8 DEF RollbackIntent, At, AtHead, Phased, Decided, R
  <2>2. /\ jr'.op = "ROLLBACK_ALL" /\ jr'.receipts = {} /\ jr'.status = "INTENT"
        /\ jr'.phase = jr.phase /\ jr'.audit = jr.audit
        /\ jr'.rawRef = jr.rawRef /\ jr'.procRef = jr.procRef
        /\ Processed \cup Raw \subseteq jr'.targets
    BY <1>8, RollbackIntentFields DEF RollbackTargets
  <2> QED BY <2>1, <2>2 DEF Ordered, Undecided
<1>9. ASSUME NEW p \in Procs, BeginNext(p) PROVE Ordered'
  <2>1. /\ jr.phase = "COLLECTION_COMMITTED" /\ jr.audit = "SUCCEEDED" /\ jr.rawRef
        /\ jr.procRef <=> NextKind # "SUCCESS_SNAPSHOT"
        /\ UNCHANGED world
    BY <1>9 DEF BeginNext, Decided, others
  <2>2. /\ jr'.op = NextKind /\ jr'.targets = TargetsOf(NextKind) /\ jr'.receipts = {}
        /\ jr'.status = "INTENT" /\ jr'.phase = jr.phase /\ jr'.audit = jr.audit
        /\ jr'.rawRef = jr.rawRef /\ jr'.procRef = jr.procRef
        /\ NextKind \in {"BASELINE_BACKUP", "SUCCESS_PROCESSED_SNAPSHOT", "SUCCESS_SNAPSHOT"}
    BY <1>9, BeginNextFields
  <2>3. /\ TargetsOf("BASELINE_BACKUP") = {IF world.windows THEN "backup" ELSE "temp"}
        /\ TargetsOf("SUCCESS_PROCESSED_SNAPSHOT") = Processed
        /\ TargetsOf("SUCCESS_SNAPSHOT") = Raw
    BY DEF TargetsOf
  <2>4. CASE NextKind = "BASELINE_BACKUP"
    <3>0. jr'.targets = {IF world.windows THEN "backup" ELSE "temp"}
      BY <2>2, <2>3, <2>4, Zenon
    <3>1. jr'.targets = {IF world'.windows THEN "backup" ELSE "temp"}
      BY <2>1, <3>0, Zenon
    <3> QED BY <2>1, <2>2, <2>4, <3>1 DEF Ordered, Undecided
  <2>5. CASE NextKind = "SUCCESS_PROCESSED_SNAPSHOT"
    BY <2>1, <2>2, <2>3, <2>5 DEF Ordered, Undecided
  <2>6. CASE NextKind = "SUCCESS_SNAPSHOT"
    BY <2>1, <2>2, <2>3, <2>6 DEF Ordered, Undecided
  <2> QED BY <2>2, <2>4, <2>5, <2>6
<1>10. CASE RemoveTarget
  BY <1>10 DEF RemoveTarget, durable, others, Ordered
<1>11. CASE ReceiptTarget
  <2>1. PICK o \in Owing :
          /\ NextTarget(o)
          /\ jr'.receipts = jr.receipts \cup {o}
          /\ jr'.op = jr.op /\ jr'.targets = jr.targets /\ jr'.status = jr.status
          /\ jr'.phase = jr.phase /\ jr'.audit = jr.audit /\ jr'.procRef = jr.procRef
          /\ jr'.rawRef = (jr.rawRef /\ ~(o \in Raw /\ Owing \cap Raw = {o}))
    BY <1>11, ReceiptFields
  <2>2. /\ o \in jr.targets /\ jr.status = "INTENT"
        /\ jr.phase \in {"COLLECTION_COMMITTED", "ROLLING_BACK"}
        /\ o \in Raw => ~jr.procRef
    BY <1>11, <2>1, AdvancingTarget DEF ReceiptTarget
  <2>3. jr.op # "NONE" /\ UNCHANGED world
    BY <1>11, <2>2, AppendersKeep DEF Ordered
  <2>4. jr'.procRef => jr'.rawRef
    BY <2>1, <2>2 DEF Ordered
  <2>5. Raw \cap jr'.receipts # {} => ~jr'.procRef
    BY <2>1, <2>2 DEF Ordered
  <2> QED BY <2>1, <2>2, <2>3, <2>4, <2>5 DEF Ordered, Undecided
<1>12. CASE CompleteCleanup
  <2>1. /\ jr'.status = "COMPLETE" /\ jr'.phase = jr.phase /\ jr'.procRef = jr.procRef
        /\ jr'.op = jr.op /\ jr'.targets = jr.targets /\ jr'.receipts = jr.receipts
        /\ jr'.audit = jr.audit /\ jr'.rawRef = jr.rawRef
    BY <1>0, <1>12 DEF CompleteCleanup, Append, Generations
  <2>2. jr.targets \subseteq jr.receipts
    BY <1>12 DEF CompleteCleanup, Owing
  <2>3. jr.status = "INTENT" /\ jr.phase \in {"COLLECTION_COMMITTED", "ROLLING_BACK"}
    BY <1>12 DEF CompleteCleanup, At, Phased, R
  <2>4. jr.op # "NONE" /\ UNCHANGED world
    BY <1>12, <2>3, AppendersKeep DEF Ordered
  <2> QED BY <2>1, <2>2, <2>3, <2>4 DEF Ordered, Undecided
<1>13. CASE ReleaseProcessed
  <2>1. /\ jr'.status = jr.status /\ jr'.phase = jr.phase /\ jr'.procRef = FALSE
        /\ jr'.op = jr.op /\ jr'.targets = jr.targets /\ jr'.receipts = jr.receipts
        /\ jr'.audit = jr.audit /\ jr'.rawRef = jr.rawRef
    BY <1>0, <1>13 DEF ReleaseProcessed, Append, Generations
  <2>2. UNCHANGED world
    BY <1>13, AppendersKeep
  <2> QED BY <2>1, <2>2 DEF Ordered
<1>14. CASE StartCompaction
  <2>1. /\ jr'.status = jr.status /\ jr'.phase = "COMPACTING" /\ jr'.procRef = jr.procRef
        /\ jr'.op = jr.op /\ jr'.targets = jr.targets /\ jr'.receipts = jr.receipts
        /\ jr'.audit = jr.audit /\ jr'.rawRef = jr.rawRef
    BY <1>0, <1>14 DEF StartCompaction, Append, Generations
  <2>2. /\ jr.status = "COMPLETE" /\ ~jr.rawRef /\ ~jr.procRef
        /\ jr.op \in {"SUCCESS_SNAPSHOT", "ROLLBACK_ALL"}
    BY <1>14 DEF StartCompaction
  <2> QED BY <2>1, <2>2 DEF Ordered, Undecided
<1>15. CASE SealOutcome
  <2>1. /\ jr'.status = jr.status /\ jr'.phase = jr.phase /\ jr'.procRef = jr.procRef
        /\ jr'.op = jr.op /\ jr'.targets = jr.targets /\ jr'.receipts = jr.receipts
        /\ jr'.audit = jr.audit /\ jr'.rawRef = jr.rawRef
    BY <1>0, <1>15 DEF SealOutcome, Append, Generations
  <2>2. UNCHANGED world
    BY <1>15, AppendersKeep
  <2> QED BY <2>1, <2>2 DEF Ordered
<1> QED
  BY <1>2, <1>3, <1>5, <1>6, <1>7, <1>8, <1>9, <1>10, <1>11, <1>12, <1>13, <1>14, <1>15,
     StepKinds DEF Cleanup

-----------------------------------------------------------------------------
(* Imaged: in which order the images come, and which coins need them.      *)

\* A removal under the journal takes an object that its operation names.
LEMMA RemovalNames ==
  ASSUME TypeOK, Turns, Phased, Decided, Ordered, RemoveTarget
  PROVE  /\ UNCHANGED <<world, dest, jr, pc, store>>
         /\ temp' \in {temp, "none"}
         /\ \E o \in jr.targets : files' = files \ {o} /\ (o \in Raw => ~jr.procRef)
         /\ jr.phase \in {"COLLECTION_COMMITTED", "ROLLING_BACK"}
         /\ jr.status = "INTENT" /\ jr.op # "NONE" /\ lock = R
<1>1. PICK o \in Owing :
        /\ NextTarget(o) /\ files' = files \ {o}
        /\ temp' = IF o = "temp" THEN "none" ELSE temp
  BY DEF RemoveTarget
<1>2. /\ o \in jr.targets
      /\ o \in Raw => ~jr.procRef
      /\ jr.status = "INTENT" /\ lock = R
      /\ jr.phase \in {"COLLECTION_COMMITTED", "ROLLING_BACK"}
  BY <1>1, AdvancingTarget DEF RemoveTarget
<1>3. jr.op # "NONE"
  BY <1>2 DEF Ordered
<1> QED BY <1>1, <1>2, <1>3 DEF RemoveTarget, durable, control, others

\* What the appends of an undecided import do to phase, images, T and B.
LEMMA AppendsFields ==
  ASSUME TypeOK, Appends
  PROVE  \/ /\ jr.phase = "PREPARED" /\ jr'.phase = "COPYING_IMAGES"
            /\ jr'.verified = jr.verified
            /\ jr'.temp = jr.temp /\ jr'.backup = jr.backup
         \/ /\ jr.phase = "COPYING_IMAGES" /\ jr'.phase = "COPYING_IMAGES"
            /\ \E i \in Images \cap files : jr'.verified = jr.verified \cup {i}
            /\ jr'.temp = jr.temp /\ jr'.backup = jr.backup
         \/ /\ jr.phase = "COPYING_IMAGES" /\ jr'.phase = "FILES_READY"
            /\ jr.verified = Images /\ jr'.verified = Images
            /\ jr'.temp = jr.temp /\ jr'.backup = jr.backup
         \/ /\ jr.phase = "FILES_READY" /\ jr'.phase = "COMMITTING_COLLECTION"
            /\ jr'.verified = jr.verified /\ jr'.temp = "PLANNED"
            /\ jr'.backup = IF world.baseline THEN "PLANNED" ELSE "NONE"
         \/ /\ jr.phase = "COMMITTING_COLLECTION" /\ jr'.phase = jr.phase
            /\ jr'.verified = jr.verified
            /\ \/ /\ jr.temp \in {"PLANNED", "CREATED"} /\ jr'.temp \in {"CREATED", "VERIFIED"}
                  /\ jr'.backup = jr.backup
               \/ /\ jr'.temp = jr.temp /\ "backup" \in files
                  /\ jr.backup # "NONE" /\ jr'.backup \in {"CREATED", "VERIFIED"}
               \/ jr'.temp = "EXCHANGED" /\ jr'.backup = "EXCHANGED" /\ world.baseline
<1> USE DEF Durable, Append, Generations
<1>0. jr \in Generations
  BY DEF TypeOK
<1>1. CASE StartCopying
  BY <1>0, <1>1 DEF StartCopying
<1>2. CASE RecordImage
  <2>1. PICK i \in Images \cap files : jr' = [jr EXCEPT !.verified = @ \cup {i}]
    BY <1>2 DEF RecordImage
  <2>2. jr.phase = "COPYING_IMAGES"
    BY <1>2 DEF RecordImage
  <2> QED BY <1>0, <2>1, <2>2
<1>3. CASE FilesReady
  BY <1>0, <1>3 DEF FilesReady
<1>4. CASE DeclareCommit
  BY <1>0, <1>4 DEF DeclareCommit
<1>5. CASE RecordTemporary
  BY <1>0, <1>5 DEF RecordTemporary, Committing
<1>6. CASE RecordBackup
  BY <1>0, <1>6 DEF RecordBackup, Committing
<1>7. CASE RecordExchange
  BY <1>0, <1>7 DEF RecordExchange, Committing, Exchanging
<1> QED BY <1>1, <1>2, <1>3, <1>4, <1>5, <1>6, <1>7 DEF Appends

LEMMA ImagedStep ==
  TypeOK /\ Turns /\ Phased /\ Decided /\ Ordered /\ Imaged /\ [Next]_vars => Imaged'
<1> SUFFICES ASSUME TypeOK, Turns, Phased, Decided, Ordered, Imaged, [Next]_vars PROVE Imaged'
  OBVIOUS
<1>0. jr \in Generations /\ files \subseteq Owned
  BY DEF TypeOK
<1>a. Tree = Images \cup {"marker", "imageRoot"} /\ jr.verified \subseteq Images
  BY <1>0 DEF Tree, Generations
\* Steps that leave the journal, T and the tree alone.
<1>1. ASSUME UNCHANGED <<jr, temp>>, Tree \cap files' = Tree \cap files,
             dest' \in Holding <=> dest \in Holding,
             "backup" \in files' => "backup" \in files
      PROVE  Imaged'
  BY <1>a, <1>1 DEF Imaged, TreeWhole
<1>2. CASE Quiet
  <2>1. Tree \cap files' = Tree \cap files /\ ("backup" \in files' => "backup" \in files)
    BY <1>2, Apart DEF Quiet
  <2> QED BY <1>1, <1>2, <2>1 DEF Quiet
<1>3. CASE Grows
  <2>1. Tree \cap files' = Tree \cap files /\ ("backup" \in files' => "backup" \in files)
    BY <1>3, Apart DEF Grows
  <2> QED BY <1>1, <1>3, <2>1 DEF Grows
\* Steps that append a generation whose phase is beyond the decision.
<1>4. ASSUME UNCHANGED <<files, dest, temp>>,
             jr'.phase \in {"COLLECTION_COMMITTED", "ROLLING_BACK", "COMPACTING"}
      PROVE  Imaged'
  BY <1>4 DEF Imaged, Undecided, TreeWhole
<1>5. CASE Genesis
  <2>1. jr.phase = "NONE" /\ UNCHANGED <<dest, files>>
    BY <1>5, AppendersKeep DEF Genesis, At, Phased, Before
  <2>2. jr'.phase = "PREPARED" /\ jr'.verified = {}
    BY <1>5 DEF Genesis, Blank
  <2>3. dest \notin Holding
    BY <2>1 DEF Decided
  <2> QED BY <1>a, <2>1, <2>2, <2>3 DEF Imaged
<1>6. CASE Execute
  <2>1. jr.phase \in Undecided
    BY <1>6, ExecuteKinds DEF Phased
  <2>2. CASE Appends
    <3>1. UNCHANGED <<dest, temp, files, world>>
      BY <2>2, AppendsKeep DEF disk, others
    <3> QED BY <1>a, <2>1, <2>2, <3>1, AppendsFields, ImagesAssumption
            DEF Imaged, Undecided, TreeWhole
  <2>3. CASE Builds
    <3>1. PICK o \in Tree : files' = files \cup {o}
      BY <2>3, BuildsKeep
    <3>2. UNCHANGED <<jr, dest, temp>> /\ jr.phase = "COPYING_IMAGES"
      BY <2>3, BuildsKeep
    <3>3. /\ Images \cap files' # {} => "marker" \in files'
          /\ "marker" \in files' => "imageRoot" \in files'
      <4>1. \/ files' = files \cup {"imageRoot"}
            \/ files' = files \cup {"marker"} /\ "imageRoot" \in files
            \/ "marker" \in files /\ \E i \in Images : files' = files \cup {i}
        BY <2>3 DEF Builds, MakeImageRoot, WriteMarker, WriteImage, Writes
      <4> QED BY <2>1, <4>1, ImagesAssumption DEF Imaged
    <3> QED BY <2>1, <3>1, <3>2, <3>3 DEF Imaged, TreeWhole, Undecided
  <2>4. CASE Puts
    <3>1. UNCHANGED <<jr, world>> /\ jr.phase = "COMMITTING_COLLECTION"
      BY <2>4, PutsKeep
    <3>2. files \subseteq files' /\ Tree \cap files' = Tree \cap files
      BY <2>4, PutsKeep, Apart
    <3>3. TreeWhole
      BY <3>1 DEF Imaged
    <3> QED BY <1>a, <3>1, <3>2, <3>3 DEF Imaged, TreeWhole, Undecided
  <2>5. CASE RecordCommitted
    BY <1>4, <2>5, CommittedFields, AppendersKeep DEF RecordCommitted, Append
  <2> QED BY <1>6, <2>2, <2>3, <2>4, <2>5, ExecuteKinds
<1>7. CASE RecoverCommitted
  BY <1>4, <1>7, CommittedFields, AppendersKeep DEF RecoverCommitted, Append
<1>8. CASE StartRollback
  BY <1>4, <1>8, RollbackFields, AppendersKeep
<1>9. CASE RollbackIntent
  <2>1. jr.phase = "ROLLING_BACK"
    BY <1>9 DEF RollbackIntent, At, AtHead, Phased, R
  <2> QED BY <1>4, <1>9, <2>1, RollbackIntentFields, AppendersKeep
<1>10. ASSUME NEW p \in Procs, BeginNext(p) PROVE Imaged'
  BY <1>4, <1>10, BeginNextFields, AppendersKeep DEF BeginNext
<1>11. CASE RemoveTarget
  <2>1. PICK o \in jr.targets : files' = files \ {o}
    BY <1>11, RemovalNames
  <2>2. /\ UNCHANGED <<jr, dest>>
        /\ jr.phase \in {"COLLECTION_COMMITTED", "ROLLING_BACK"}
    BY <1>11, RemovalNames
  <2>3. ASSUME dest \in Holding PROVE TreeWhole'
    <3>1. o \notin Tree
      <4>1. jr.op # "ROLLBACK_ALL"
        BY <2>3 DEF Ordered, Decided
      <4>2. jr.op \in Kinds
        BY <1>0 DEF Generations
      <4>3. jr.targets \subseteq {"temp", "backup"} \cup Raw \cup Processed
        BY <4>1, <4>2 DEF Ordered, Kinds
      <4> QED BY <4>3, Apart
    <3> QED BY <2>1, <2>3, <3>1 DEF Imaged, TreeWhole
  <2> QED BY <2>2, <2>3 DEF Imaged, Undecided
<1>12. CASE ReceiptTarget
  <2>1. jr.phase \in {"COLLECTION_COMMITTED", "ROLLING_BACK"} /\ jr'.phase = jr.phase
    BY <1>12, ReceiptFields DEF ReceiptTarget, Advancing, At, Phased, R
  <2> QED BY <1>4, <1>12, <2>1, AppendersKeep
<1>13. CASE CompleteCleanup \/ ReleaseProcessed
  <2>1. jr.phase \in {"COLLECTION_COMMITTED", "ROLLING_BACK"}
    BY <1>13 DEF CompleteCleanup, ReleaseProcessed, ReleasedAt, At, Phased, R
  <2>2. jr'.phase = jr.phase
    BY <1>0, <1>13 DEF CompleteCleanup, ReleaseProcessed, Append, Generations
  <2> QED BY <1>4, <1>13, <2>1, <2>2, AppendersKeep
<1>14. CASE StartCompaction
  <2>1. jr'.phase = "COMPACTING"
    BY <1>0, <1>14 DEF StartCompaction, Append, Generations
  <2> QED BY <1>4, <1>14, <2>1, AppendersKeep
<1>15. CASE SealOutcome
  <2>1. jr.phase = "COMPACTING" /\ jr'.phase = jr.phase
    BY <1>0, <1>15 DEF SealOutcome, Compacting, Phased, Append, Generations, R
  <2> QED BY <1>4, <1>15, <2>1, AppendersKeep
<1> QED
  BY <1>2, <1>3, <1>5, <1>6, <1>7, <1>8, <1>9, <1>10, <1>11, <1>12, <1>13, <1>14, <1>15,
     StepKinds DEF Cleanup

-----------------------------------------------------------------------------
(* Held: who still needs the snapshots.                                    *)

\* Only generation zero makes a head that names a snapshot.
LEMMA References ==
  ASSUME TypeOK, [Next]_vars, ~Genesis
  PROVE  /\ Listed' => Listed
         /\ jr'.rawRef => jr.rawRef
         /\ jr'.procRef => jr.procRef
<1> USE DEF disk, durable, others
<1>0. jr \in Generations /\ store \in Stores
  BY DEF TypeOK
<1>1. CASE UNCHANGED store /\ UNCHANGED jr
  BY <1>1 DEF Listed
<1>2. CASE Prepare \/ Seal \/ Refuse \/ StartRecovery \/ ClearStaleLock \/ Exit \/ Save
           \/ UNCHANGED vars
  BY <1>1, <1>2 DEF Prepare, CreateRaw, BeginSeal, Cancel, Commit, Seal, Creates, Refuse,
     StartRecovery, ClearStaleLock, Exit, Save, vars
<1>3. CASE CreateJournalDirectory
  <2>1. store'.dir = "bare" /\ jr' = jr
    BY <1>0, <1>3 DEF CreateJournalDirectory, Stores
  <2> QED BY <2>1 DEF Listed
<1>4. CASE Execute
  <2>1. CASE Appends
    BY <2>1, AppendsKeep DEF Listed
  <2>2. CASE Builds \/ Puts
    BY <1>1, <2>2 DEF Builds, Puts, MakeImageRoot, WriteMarker, WriteImage, Writes,
       CreateTemporary, WriteTemporary, LinkBackup, Publish, Publishes
  <2>3. CASE RecordCommitted
    BY <2>3, CommittedFields DEF RecordCommitted, Append, Listed
  <2> QED BY <1>4, <2>1, <2>2, <2>3, ExecuteKinds
<1>5. ASSUME NEW p \in Procs, BeginNext(p)
      PROVE  /\ Listed' => Listed
             /\ jr'.rawRef => jr.rawRef
             /\ jr'.procRef => jr.procRef
  BY <1>5, BeginNextFields DEF BeginNext, Listed
<1>6. CASE RecoverCommitted
  BY <1>6, CommittedFields DEF RecoverCommitted, Append, Listed
<1>7. CASE StartRollback
  BY <1>7, RollbackFields DEF StartRollback, Listed
<1>8. CASE RollbackIntent
  BY <1>8, RollbackIntentFields DEF RollbackIntent, Listed
<1>9. CASE Cleanup
  <2>1. CASE RemoveTarget
    BY <1>1, <2>1 DEF RemoveTarget
  <2>2. CASE ReceiptTarget
    <3>1. /\ jr'.procRef = jr.procRef
          /\ \E o : jr'.rawRef = (jr.rawRef /\ ~(o \in Raw /\ Owing \cap Raw = {o}))
      BY <2>2, ReceiptFields
    <3>2. jr'.rawRef => jr.rawRef
      BY <3>1, Zenon
    <3> QED BY <2>2, <3>1, <3>2 DEF ReceiptTarget, Listed
  <2>3. CASE CompleteCleanup \/ ReleaseProcessed
    BY <1>0, <2>3 DEF CompleteCleanup, ReleaseProcessed, Append, Generations, Listed
  <2> QED BY <1>9, <2>1, <2>2, <2>3 DEF Cleanup
<1>10. CASE Compaction
  <2>1. CASE StartCompaction \/ SealOutcome
    BY <1>0, <2>1 DEF StartCompaction, SealOutcome, Append, Generations, Listed
  <2>2. CASE PublishManifest \/ RenameForRetirement \/ RemoveRetirement
    BY <1>0, <2>2 DEF PublishManifest, RenameForRetirement, RemoveRetirement, Stores3, Stores,
       Listed
  <2>3. CASE PublishPending \/ DeletePartialRecord \/ Finalize
    BY <1>1, <2>3 DEF PublishPending, DeletePartialRecord, Finalize, Writes3
  <2> QED BY <1>10, <2>1, <2>2, <2>3 DEF Compaction
<1>11. CASE ListHeads \/ RawScan \/ ProcessedScan \/ NothingToRecover \/ ResumeCompaction
            \/ ResumeCleanup \/ FailClosed
  BY <1>1, <1>11 DEF ListHeads, RawScan, ProcessedScan, NothingToRecover, ResumeCompaction, Moves,
     ResumeCleanup, FailClosed
<1>12. CASE DeletePartialManifest
  BY <1>0, <1>12 DEF DeletePartialManifest, Stores, Listed
<1>13. ASSUME NEW p \in Procs, RemoveUnjournaled(p) \/ Abort(p) \/ Crash(p)
       PROVE  /\ Listed' => Listed
              /\ jr'.rawRef => jr.rawRef
              /\ jr'.procRef => jr.procRef
  BY <1>0, <1>13 DEF RemoveUnjournaled, Abort, Crash, Fails, Torn, Stores, Listed
<1>14. "importer" \in Procs /\ R \in Procs
  BY DEF Procs, R
<1> QED
  BY <1>2, <1>3, <1>4, <1>5, <1>6, <1>7, <1>8, <1>9, <1>10, <1>11, <1>12, <1>13, <1>14
     DEF Next, Importer, Recovering, Environment

\* An orphan scan begins with an orphan.
LEMMA ScanSteps ==
  ASSUME TypeOK, Turns, [Next]_vars, pc'["recovery"] \in {"rawOrphan", "procOrphan"},
         pc'["recovery"] # pc["recovery"]
  PROVE  /\ UNCHANGED <<jr, store>>
         /\ pc'["recovery"] = "rawOrphan" => RawOrphan
         /\ pc'["recovery"] = "procOrphan" => ProcessedOrphan
<1>0. pc \in [Procs -> Stages] /\ Procs = {"importer", "recovery"} /\ R = "recovery"
  BY DEF TypeOK, Procs, R
<1> USE DEF At, Goto, disk, durable, control, others
\* The other steps leave recovery where it is, or move it elsewhere.
<1>1. ASSUME NEW stage, pc' = [pc EXCEPT !["recovery"] = stage],
             stage \notin {"rawOrphan", "procOrphan"}
      PROVE  FALSE
  BY <1>0, <1>1
<1>2. ASSUME NEW stage, pc' = pc \/ pc' = [pc EXCEPT !["importer"] = stage] PROVE FALSE
  BY <1>0, <1>2
<1>3. CASE ListHeads \/ ResumeCompaction \/ ResumeCleanup
  <2>1. \E stage : pc' = [pc EXCEPT !["recovery"] = stage]
                     /\ stage \notin {"rawOrphan", "procOrphan"}
    BY <1>0, <1>3 DEF ListHeads, ResumeCompaction, ResumeCleanup, Moves
  <2> QED BY <1>1, <2>1
<1>4. CASE RawScan
  BY <1>0, <1>4 DEF RawScan, Moves
<1>5. CASE ProcessedScan
  BY <1>0, <1>5 DEF ProcessedScan, Moves
<1>6. CASE Prepare \/ Seal \/ Refuse \/ CreateJournalDirectory \/ Genesis \/ ClearStaleLock
           \/ Exit \/ Save \/ UNCHANGED vars
  <2>1. pc' = pc \/ \E stage : pc' = [pc EXCEPT !["importer"] = stage]
    BY <1>6 DEF Prepare, CreateRaw, BeginSeal, Cancel, Commit, Seal, Creates, Refuse,
       CreateJournalDirectory, Genesis, ClearStaleLock, Exit, Save, vars
  <2> QED BY <1>2, <2>1
<1>7. CASE Execute
  <2>1. pc' = pc \/ pc' = [pc EXCEPT !["importer"] = "next"]
    <3>1. CASE RecordCommitted
      BY <3>1 DEF RecordCommitted
    <3>2. CASE Appends
      BY <3>2, AppendsKeep
    <3>3. CASE Builds \/ Puts
      BY <3>3 DEF Builds, Puts, MakeImageRoot, WriteMarker, WriteImage, Writes,
         CreateTemporary, WriteTemporary, LinkBackup, Publish, Publishes
    <3> QED BY <1>7, <3>1, <3>2, <3>3, ExecuteKinds
  <2> QED BY <1>2, <2>1
<1>8. ASSUME NEW p \in Procs, BeginNext(p) \/ Abort(p) \/ Crash(p) PROVE FALSE
  <2>1. CASE p = "recovery"
    <3>1. pc["recovery"] \in RecoveryStages
      BY DEF Turns
    <3>2. pc' = [pc EXCEPT !["recovery"] = "idle"]
      BY <1>8, <2>1, <3>1 DEF BeginNext, Abort, Crash, LeaveLocked, Rest, RecoveryStages
    <3> QED BY <1>1, <3>2
  <2>2. CASE p = "importer"
    <3>1. \E stage : pc' = [pc EXCEPT !["importer"] = stage]
      BY <1>8, <2>2 DEF BeginNext, Abort, Crash, LeaveLocked
    <3> QED BY <1>2, <3>1
  <2> QED BY <1>0, <2>1, <2>2
<1>9. CASE RecoverCommitted \/ StartRollback \/ Cleanup \/ Compaction \/ RollbackIntent
           \/ NothingToRecover \/ DeletePartialManifest \/ FailClosed \/ StartRecovery
  <2>1. pc' = pc \/ \E stage \in {"next", "rollback", "compact", "idle", "pending"} :
                        pc' = [pc EXCEPT !["recovery"] = stage]
    BY <1>0, <1>9 DEF RecoverCommitted, StartRollback, Cleanup, RemoveTarget, ReceiptTarget,
       CompleteCleanup, ReleaseProcessed, Compaction, StartCompaction, PublishManifest,
       SealOutcome, PublishPending, DeletePartialRecord, RenameForRetirement, RemoveRetirement,
       Finalize, Stores3, Writes3, RollbackIntent, NothingToRecover, DeletePartialManifest,
       FailClosed, StartRecovery, LeaveLocked, Rest
  <2> QED BY <1>1, <1>2, <2>1
<1>10. ASSUME NEW p \in Procs, RemoveUnjournaled(p) PROVE FALSE
  <2>1. pc' = pc \/ \E stage \in {"ended", "procScan", "dispatch"} :
                        pc' = [pc EXCEPT ![p] = stage]
    BY <1>10 DEF RemoveUnjournaled, LeaveLocked, Rest
  <2> QED BY <1>0, <1>1, <1>2, <2>1
<1> QED
  BY <1>0, <1>3, <1>4, <1>5, <1>6, <1>7, <1>8, <1>9, <1>10
     DEF Next, Importer, Recovering, Environment

\* The stages in which the importer may rely on its raw snapshot.
RawInUse == {"unsealed", "sealing", "preview", "genesis", "execute"}

\* Whoever may rely on the raw snapshot has just made it or had it before, and
\* nothing of it is taken away meanwhile.
LEMMA RawInUseStep ==
  ASSUME TypeOK, Turns, Phased, Decided, Ordered, Held, [Next]_vars
  PROVE  /\ pc'["importer"] \in RawInUse => RawWhole'
         /\ pc'["importer"] = "preparing" => "rawRoot" \in files'
<1> USE DEF At, Goto, disk, durable, control, others
<1>0. /\ pc \in [Procs -> Stages] /\ Procs = {"importer", "recovery"} /\ R = "recovery"
      /\ pc["importer"] \in ImporterStages /\ pc["recovery"] \in RecoveryStages
  BY DEF TypeOK, Procs, R, Turns
<1> DEFINE Safe == /\ pc'["importer"] \in RawInUse => RawWhole'
                   /\ pc'["importer"] = "preparing" => "rawRoot" \in files'
\* The three ways in which the other steps keep the promise.
<1>1. ASSUME pc'["importer"] \notin RawInUse \cup {"preparing"} PROVE Safe
  BY <1>1
<1>2. ASSUME pc'["importer"] = pc["importer"], Raw \cap files \subseteq files' PROVE Safe
  BY <1>2 DEF Held, RawWhole, RawInUse, Raw
<1>3. ASSUME pc["importer"] \in RawInUse, pc'["importer"] # "preparing",
             Raw \cap files \subseteq files'
      PROVE  Safe
  BY <1>3 DEF Held, RawWhole, RawInUse, Raw
<1>4. CASE CreateRaw
  BY <1>0, <1>4 DEF CreateRaw, Creates, Held, RawWhole, RawInUse, Raw
<1>5. CASE BeginSeal \/ Seal \/ Commit
  BY <1>0, <1>3, <1>5 DEF BeginSeal, Seal, Commit, Creates, RawInUse
<1>6. CASE Cancel \/ Refuse
  BY <1>0, <1>1, <1>6 DEF Cancel, Refuse, RawInUse
<1>7. CASE Genesis
  BY <1>0, <1>3, <1>7 DEF Genesis, RawInUse
<1>8. CASE Execute
  <2>1. CASE RecordCommitted
    BY <1>0, <1>1, <2>1 DEF RecordCommitted, RawInUse
  <2>2. CASE Appends
    BY <1>2, <2>2, AppendsKeep
  <2>3. CASE Builds \/ Puts
    <3>1. files \subseteq files'
      BY <2>3, BuildsKeep, PutsKeep
    <3>2. pc' = pc
      BY <2>3 DEF Builds, Puts, MakeImageRoot, WriteMarker, WriteImage, Writes,
         CreateTemporary, WriteTemporary, LinkBackup, Publish, Publishes
    <3> QED BY <1>2, <3>1, <3>2
  <2> QED BY <1>8, <2>1, <2>2, <2>3, ExecuteKinds
<1>9. ASSUME NEW p \in Procs, BeginNext(p) PROVE Safe
  <2>1. pc' = [pc EXCEPT ![p] = Rest(p)] /\ files' = files
    BY <1>9 DEF BeginNext, LeaveLocked
  <2>2. CASE p = "importer"
    BY <1>0, <1>1, <2>1, <2>2 DEF Rest, RawInUse
  <2>3. CASE p = "recovery"
    BY <1>0, <1>2, <2>1, <2>3
  <2> QED BY <1>0, <2>2, <2>3
<1>10. ASSUME NEW p \in Procs, RemoveUnjournaled(p) PROVE Safe
  <2>1. pc[p] \in {"cancel", "rawOrphan", "procOrphan"}
        /\ (pc' = pc \/ \E s \in {"ended", "procScan", "dispatch"} : pc' = [pc EXCEPT ![p] = s])
    BY <1>10 DEF RemoveUnjournaled, LeaveLocked, Unjournaled, Rest
  <2>2. pc["importer"] \in {"cancel", "ended"}
    BY <1>0, <2>1 DEF Turns, ImporterStages, RecoveryStages
  <2>3. pc'["importer"] \in {"cancel", "ended", "procScan", "dispatch"}
    BY <1>0, <2>1, <2>2
  <2> QED BY <1>1, <2>3 DEF RawInUse
<1>11. ASSUME NEW p \in Procs, Abort(p) \/ Crash(p) PROVE Safe
  <2>1. CASE p = "importer"
    <3>1. pc'["importer"] \in {"ended", "cancel"}
      BY <1>0, <1>11, <2>1 DEF Abort, Crash, LeaveLocked, Rest
    <3> QED BY <1>1, <3>1 DEF RawInUse
  <2>2. CASE p = "recovery"
    <3>1. pc'["importer"] = pc["importer"]
      BY <1>0, <1>11, <2>2 DEF Abort, Crash, LeaveLocked
    <3>2. files' = files
      BY <1>0, <1>11, <2>2 DEF Abort, Crash, RecoveryStages
    <3> QED BY <1>2, <3>1, <3>2
  <2> QED BY <1>0, <2>1, <2>2
<1>12. CASE RemoveTarget
  <2>1. /\ jr.phase \in {"COLLECTION_COMMITTED", "ROLLING_BACK"} /\ lock = R /\ pc' = pc
    BY <1>12, RemovalNames
  <2>2. pc["importer"] \notin RawInUse \cup {"preparing"}
    BY <2>1 DEF Phased, Before, RawInUse, Undecided
  <2> QED BY <1>1, <2>1, <2>2
<1>13. CASE CreateJournalDirectory \/ StartRecovery \/ ClearStaleLock \/ Exit \/ Save
            \/ UNCHANGED vars
  BY <1>0, <1>2, <1>13 DEF CreateJournalDirectory, StartRecovery, ClearStaleLock, Exit, Save, vars
<1>14. CASE ListHeads \/ RawScan \/ ProcessedScan \/ NothingToRecover \/ ResumeCompaction
            \/ DeletePartialManifest \/ ResumeCleanup \/ FailClosed
  BY <1>0, <1>2, <1>14 DEF ListHeads, RawScan, ProcessedScan, NothingToRecover, ResumeCompaction,
     Moves, DeletePartialManifest, ResumeCleanup, FailClosed, LeaveLocked
<1>15. CASE RecoverCommitted \/ StartRollback \/ RollbackIntent \/ ReceiptTarget
            \/ CompleteCleanup \/ ReleaseProcessed
  BY <1>0, <1>2, <1>15 DEF RecoverCommitted, StartRollback, RollbackIntent, ReceiptTarget,
     CompleteCleanup, ReleaseProcessed, LeaveLocked
<1>16. CASE Compaction
  BY <1>0, <1>2, <1>16 DEF Compaction, StartCompaction, PublishManifest, SealOutcome,
     PublishPending, DeletePartialRecord, RenameForRetirement, RemoveRetirement, Finalize,
     Stores3, Writes3, LeaveLocked
<1> QED
  BY <1>0, <1>4, <1>5, <1>6, <1>7, <1>8, <1>9, <1>10, <1>11, <1>12, <1>13, <1>14, <1>15, <1>16
     DEF Next, Prepare, Importer, Recovering, Environment, Cleanup

\* The raw snapshot outlives the reference to the processed one.
LEMMA ReferenceHeld ==
  ASSUME TypeOK, Turns, Phased, Decided, Ordered, Held, [Next]_vars, Listed', jr'.procRef
  PROVE  RawWhole'
<1>1. CASE Genesis
  <2>1. RawWhole /\ files' = files
    BY <1>1, AppendersKeep DEF Genesis, At, Held
  <2> QED BY <2>1 DEF RawWhole
<1>2. CASE ~Genesis
  <2>1. Listed /\ jr.procRef /\ jr.rawRef /\ RawWhole
    BY <1>2, References DEF Held, Ordered
  <2>2. jr.phase # "NONE"
    BY <2>1 DEF Phased
  <2>3. CASE Quiet
    <3>1. pc["importer"] \notin {"preparing", "sealing", "cancel"}
      BY <2>2 DEF Phased, Before
    <3>2. pc["recovery"] # "rawOrphan"
      BY <2>1 DEF Held
    <3>3. files' = files \/ files \ files' \subseteq Processed
      BY <2>3, <3>1, <3>2 DEF Quiet
    <3> QED BY <2>1, <3>3, Apart DEF RawWhole
  <2>4. CASE RemoveTarget
    <3>1. \E o \in jr.targets : files' = files \ {o} /\ o \notin Raw
      BY <2>1, <2>4, RemovalNames
    <3> QED BY <2>1, <3>1 DEF RawWhole
  <2>5. CASE Execute
    <3>1. files \subseteq files'
      BY <2>5, ExecuteKinds, AppendsKeep, BuildsKeep, PutsKeep, AppendersKeep DEF disk
    <3> QED BY <2>1, <3>1 DEF RawWhole
  <2>6. CASE Grows
    BY <2>1, <2>6 DEF Grows, RawWhole
  <2>7. ASSUME files' = files PROVE RawWhole'
    BY <2>1, <2>7 DEF RawWhole
  <2> QED BY <1>2, <2>3, <2>4, <2>5, <2>6, <2>7, StepKinds, AppendersKeep DEF Cleanup
<1> QED BY <1>1, <1>2

LEMMA HeldStep ==
  TypeOK /\ Turns /\ Phased /\ Decided /\ Ordered /\ Held /\ [Next]_vars => Held'
<1> SUFFICES ASSUME TypeOK, Turns, Phased, Decided, Ordered, Held, [Next]_vars PROVE Held'
  OBVIOUS
<1>1. ASSUME pc'["recovery"] \in {"rawOrphan", "procOrphan"}, pc'["recovery"] = pc["recovery"]
      PROVE  ~Genesis
  BY <1>1 DEF Turns, Genesis, At
<1>2. pc'["recovery"] = "rawOrphan" => ~(Listed' /\ jr'.rawRef)
  <2>1. CASE pc'["recovery"] = pc["recovery"]
    BY <1>1, <2>1, References DEF Held
  <2>2. CASE pc'["recovery"] # pc["recovery"]
    BY <2>2, ScanSteps DEF RawOrphan, Listed
  <2> QED BY <2>1, <2>2
<1>3. pc'["recovery"] = "procOrphan" => ~(Listed' /\ jr'.procRef)
  <2>1. CASE pc'["recovery"] = pc["recovery"]
    BY <1>1, <2>1, References DEF Held
  <2>2. CASE pc'["recovery"] # pc["recovery"]
    BY <2>2, ScanSteps DEF ProcessedOrphan, Listed
  <2> QED BY <2>1, <2>2
<1> QED BY <1>2, <1>3, RawInUseStep, ReferenceHeld DEF Held, RawInUse

-----------------------------------------------------------------------------
(* Retained: where the bytes of the old collection are.                    *)

\* The collection may be decided over only when it has been published.
LEMMA CommittedOver ==
  ASSUME RecordCommitted \/ RecoverCommitted
  PROVE  jr.phase = "COMMITTING_COLLECTION" /\ dest \in Holding
BY DEF RecordCommitted, RecoverCommitted, Committing, AtHead, ProspectiveObserved, Holding

\* A snapshot that a successful import takes away leaves nothing of the old one.
LEMMA CompactedClean ==
  ASSUME TypeOK, Ordered, Emptied, jr.status = "COMPLETE",
         jr.op \in {"SUCCESS_SNAPSHOT", "ROLLBACK_ALL"}
  PROVE  /\ temp = "none" /\ "backup" \notin files
         /\ Raw \cap files = {} /\ Processed \cap files = {}
         /\ jr.op = "ROLLBACK_ALL" => Tree \cap files = {}
<1>1. \A o \in jr.targets : ~Present(o)
  BY DEF Ordered, Emptied
<1>2. \A o \in Raw \cup Processed \cup Tree \cup {"backup"} : Present(o) <=> o \in files
  BY Apart DEF Present
<1>3. Present("temp") <=> temp # "none"
  BY DEF Present
<1>4. CASE jr.op = "SUCCESS_SNAPSHOT"
  BY <1>1, <1>2, <1>4 DEF Ordered, Emptied
<1>5. CASE jr.op = "ROLLBACK_ALL"
  <2>1. Processed \cup Raw \subseteq jr.targets
    BY <1>5 DEF Ordered
  <2>2. \A o \in Tree \cup {"temp", "backup"} : ~Present(o)
    BY <1>1, <1>5 DEF Emptied
  <2> QED BY <1>1, <1>2, <1>3, <1>5, <2>1, <2>2
<1> QED BY <1>4, <1>5

LEMMA RetainedStep ==
  TypeOK /\ Turns /\ Phased /\ Decided /\ Ordered /\ Retained /\ Emptied /\ [Next]_vars
    => Retained'
<1> SUFFICES ASSUME TypeOK, Turns, Phased, Decided, Ordered, Retained, Emptied, [Next]_vars
             PROVE  Retained'
  OBVIOUS
<1>0. jr \in Generations
  BY DEF TypeOK
\* Steps that take away at most members of the snapshots, and append nothing.
<1>1. ASSUME UNCHANGED <<world, temp, jr>>, "backup" \in files' <=> "backup" \in files,
             dest' \in Holding <=> dest \in Holding
      PROVE  Retained'
  BY <1>1 DEF Retained, Exchanging
<1>2. CASE Quiet
  <2>1. "backup" \in files' <=> "backup" \in files
    BY <1>2, Apart DEF Quiet
  <2> QED BY <1>1, <1>2, <2>1 DEF Quiet
<1>3. CASE Grows
  <2>1. "backup" \in files' <=> "backup" \in files
    BY <1>3, Apart DEF Grows
  <2> QED BY <1>1, <1>3, <2>1 DEF Grows
\* Steps that append a generation of the same phase, beyond the commit.
<1>4. ASSUME UNCHANGED <<world, temp, files, dest>>, jr'.phase = jr.phase,
             jr.phase # "COMMITTING_COLLECTION"
      PROVE  Retained'
  BY <1>4 DEF Retained, Exchanging
<1>5. CASE Genesis
  <2>1. jr.phase = "NONE" /\ UNCHANGED <<world, temp, files, dest>>
    BY <1>5, AppendersKeep DEF Genesis, At, Phased, Before
  <2>2. jr'.phase = "PREPARED"
    BY <1>5 DEF Genesis, Blank
  <2> QED BY <2>1, <2>2 DEF Retained
<1>6. CASE Execute
  <2>1. CASE Appends
    <3>1. UNCHANGED <<world, temp, files, dest>>
      BY <2>1, AppendsKeep DEF disk, others
    <3>2. Exchanging' = Exchanging
      BY <3>1 DEF Exchanging
    <3>3. CASE jr'.phase # "COMMITTING_COLLECTION"
      <4>1. jr.phase \in Undecided /\ jr'.phase \in Undecided
        BY <2>1, AppendsKeep
      <4>2. jr.phase # "COMMITTING_COLLECTION"
        BY <2>1, <3>3, AppendsFields
      <4> QED BY <3>1, <3>3, <4>1, <4>2 DEF Retained, Undecided
    <3>4. CASE jr.phase = "FILES_READY" /\ jr'.phase = "COMMITTING_COLLECTION"
      <4>1. jr'.temp = "PLANNED" /\ jr'.backup = IF world.baseline THEN "PLANNED" ELSE "NONE"
        BY <2>1, <3>4, AppendsFields
      <4>2. dest \notin Holding
        BY <3>4 DEF Decided, Undecided
      <4> QED BY <3>1, <3>4, <4>1, <4>2 DEF Retained
    <3>5. CASE jr.phase = "COMMITTING_COLLECTION" /\ jr'.phase = "COMMITTING_COLLECTION"
      <4>1. \/ /\ jr.temp \in {"PLANNED", "CREATED"} /\ jr'.temp \in {"CREATED", "VERIFIED"}
               /\ jr'.backup = jr.backup
            \/ /\ jr'.temp = jr.temp /\ "backup" \in files
               /\ jr.backup # "NONE" /\ jr'.backup \in {"CREATED", "VERIFIED"}
            \/ jr'.temp = "EXCHANGED" /\ jr'.backup = "EXCHANGED" /\ world.baseline
        BY <2>1, <3>5, AppendsFields
      <4> QED BY <3>1, <3>2, <3>5, <4>1 DEF Retained
    <3>6. jr'.phase = "COMMITTING_COLLECTION" =>
              jr.phase \in {"FILES_READY", "COMMITTING_COLLECTION"}
      BY <2>1, AppendsFields
    <3> QED BY <3>3, <3>4, <3>5, <3>6
  <2>2. CASE Builds
    <3>1. PICK o \in Tree : files' = files \cup {o}
      BY <2>2, BuildsKeep
    <3>2. "backup" \in files' <=> "backup" \in files
      BY <3>1, Apart
    <3> QED BY <1>1, <2>2, <3>2, BuildsKeep
  <2>3. CASE Puts
    <3>1. UNCHANGED <<jr, world>> /\ jr.phase = "COMMITTING_COLLECTION"
      BY <2>3, PutsKeep
    <3>2. Exchanging' = Exchanging
      BY <3>1 DEF Exchanging
    <3>3. CASE CreateTemporary \/ WriteTemporary
      <4>1. jr.temp \in {"PLANNED", "CREATED"} /\ dest' = dest /\ files' = files
        BY <3>3 DEF CreateTemporary, WriteTemporary, Publishes
      <4>2. dest \notin Holding
        BY <3>1, <4>1 DEF Retained
      <4> QED BY <3>1, <3>2, <4>1, <4>2 DEF Retained
    <3>4. CASE LinkBackup
      <4>1. /\ dest' = dest /\ temp' = temp /\ files' = files \cup {"backup"}
            /\ world.windows /\ jr.backup = "PLANNED"
        BY <3>4 DEF LinkBackup, Publishes
      <4>2. world.baseline
        BY <3>1, <4>1 DEF Retained
      <4> QED BY <3>1, <3>2, <4>1, <4>2 DEF Retained
    <3>5. CASE Publish
      <4>1. /\ jr.temp = "VERIFIED" /\ files' = files
            /\ temp' = IF Exchanging THEN "baseline" ELSE "none"
            /\ world.windows /\ world.baseline => jr.backup = "VERIFIED"
        BY <3>5 DEF Publish, Publishes
      <4>2. world.windows /\ world.baseline => "backup" \in files
        BY <3>1, <4>1 DEF Retained
      <4> QED BY <3>1, <3>2, <4>1, <4>2 DEF Retained
    <3> QED BY <2>3, <3>3, <3>4, <3>5 DEF Puts
  <2>4. CASE RecordCommitted
    <3>1. jr'.phase = "COLLECTION_COMMITTED" /\ UNCHANGED <<world, temp, files, dest>>
      BY <2>4, CommittedFields, AppendersKeep DEF RecordCommitted, Append
    <3>2. ~Exchanging => temp = "none"
      BY <2>4, CommittedOver DEF Retained
    <3> QED BY <3>1, <3>2 DEF Retained, Exchanging
  <2> QED BY <1>6, <2>1, <2>2, <2>3, <2>4, ExecuteKinds
<1>7. CASE RecoverCommitted
  <2>1. jr'.phase = "COLLECTION_COMMITTED" /\ UNCHANGED <<world, temp, files, dest>>
    BY <1>7, CommittedFields, AppendersKeep DEF RecoverCommitted, Append
  <2>2. ~Exchanging => temp = "none"
    BY <1>7, CommittedOver DEF Retained
  <2> QED BY <2>1, <2>2 DEF Retained, Exchanging
<1>8. CASE StartRollback
  <2>1. jr'.phase = "ROLLING_BACK" /\ UNCHANGED <<world, temp, files, dest>>
    BY <1>8, RollbackFields, AppendersKeep
  <2> QED BY <2>1 DEF Retained
<1>9. CASE RollbackIntent
  <2>1. jr.phase = "ROLLING_BACK"
    BY <1>9 DEF RollbackIntent, At, AtHead, Phased, R
  <2> QED BY <1>4, <1>9, <2>1, RollbackIntentFields, AppendersKeep
<1>10. ASSUME NEW p \in Procs, BeginNext(p) PROVE Retained'
  BY <1>4, <1>10, BeginNextFields, AppendersKeep DEF BeginNext
<1>11. CASE RemoveTarget
  <2>1. PICK o \in jr.targets : files' = files \ {o}
    BY <1>11, RemovalNames
  <2>2. /\ UNCHANGED <<world, jr>> /\ temp' \in {temp, "none"}
        /\ jr.phase \in {"COLLECTION_COMMITTED", "ROLLING_BACK"}
    BY <1>11, RemovalNames
  <2> QED BY <2>1, <2>2 DEF Retained, Exchanging
<1>12. CASE ReceiptTarget
  <2>1. jr.phase \in {"COLLECTION_COMMITTED", "ROLLING_BACK"} /\ jr'.phase = jr.phase
    BY <1>12, ReceiptFields DEF ReceiptTarget, Advancing, At, Phased, R
  <2> QED BY <1>4, <1>12, <2>1, AppendersKeep
<1>13. CASE CompleteCleanup \/ ReleaseProcessed
  <2>1. jr.phase \in {"COLLECTION_COMMITTED", "ROLLING_BACK"}
    BY <1>13 DEF CompleteCleanup, ReleaseProcessed, ReleasedAt, At, Phased, R
  <2>2. jr'.phase = jr.phase
    BY <1>0, <1>13 DEF CompleteCleanup, ReleaseProcessed, Append, Generations
  <2> QED BY <1>4, <1>13, <2>1, <2>2, AppendersKeep
<1>14. CASE StartCompaction
  <2>1. jr'.phase = "COMPACTING" /\ UNCHANGED <<world, temp, files, dest>>
    BY <1>0, <1>14, AppendersKeep DEF StartCompaction, Append, Generations
  <2>2. temp = "none" /\ "backup" \notin files
    BY <1>14, CompactedClean DEF StartCompaction
  <2> QED BY <2>1, <2>2 DEF Retained
<1>15. CASE SealOutcome
  <2>1. jr.phase = "COMPACTING" /\ jr'.phase = jr.phase
    BY <1>0, <1>15 DEF SealOutcome, Compacting, Phased, Append, Generations, R
  <2> QED BY <1>4, <1>15, <2>1, AppendersKeep
<1> QED
  BY <1>2, <1>3, <1>5, <1>6, <1>7, <1>8, <1>9, <1>10, <1>11, <1>12, <1>13, <1>14, <1>15,
     StepKinds DEF Cleanup

-----------------------------------------------------------------------------
(* Emptied: what each operation leaves for the next one.                   *)

LEMMA EmptiedStep ==
  TypeOK /\ Turns /\ Phased /\ Decided /\ Ordered /\ Retained /\ Emptied /\ [Next]_vars
    => Emptied'
<1> SUFFICES ASSUME TypeOK, Turns, Phased, Decided, Ordered, Retained, Emptied, [Next]_vars
             PROVE  Emptied'
  OBVIOUS
<1>0. jr \in Generations
  BY DEF TypeOK
\* Whatever only takes away keeps what is gone gone.
<1>1. ASSUME jr' = jr, files' \subseteq files, temp' \in {temp, "none"} PROVE Emptied'
  <2>1. \A o : Present(o)' => Present(o)
    BY <1>1 DEF Present
  <2> QED BY <1>1, <2>1 DEF Emptied
\* Before the decision nothing is named, so nothing can come back.
<1>2. ASSUME jr'.phase \in Undecided \cup {"NONE"}, jr'.op = "NONE", jr'.receipts = {}
      PROVE  Emptied'
  BY <1>2 DEF Emptied, Undecided
<1>3. ASSUME jr' = jr, jr.phase \in Undecided \cup {"NONE"} PROVE Emptied'
  BY <1>2, <1>3 DEF Ordered
\* Steps that append a generation with the same operation.
<1>4. ASSUME UNCHANGED <<files, temp>>, jr'.op = jr.op, jr'.targets = jr.targets,
             jr'.receipts = jr.receipts, jr.op # "NONE"
      PROVE  Emptied'
  BY <1>4 DEF Emptied, Present
<1>5. CASE Quiet
  BY <1>1, <1>5 DEF Quiet
<1>6. CASE Grows
  BY <1>3, <1>6 DEF Grows, Phased
<1>7. CASE Genesis
  <2>1. jr'.phase = "PREPARED" /\ jr'.op = "NONE" /\ jr'.receipts = {}
    BY <1>7 DEF Genesis, Blank
  <2> QED BY <1>2, <2>1 DEF Undecided
<1>8. CASE Execute
  <2>1. jr.phase \in Undecided /\ jr.op = "NONE" /\ jr.receipts = {}
    BY <1>8, ExecuteKinds DEF Phased, Ordered
  <2>2. CASE Appends
    BY <1>2, <2>1, <2>2, AppendsKeep
  <2>3. CASE Builds \/ Puts
    BY <1>3, <2>1, <2>3, BuildsKeep, PutsKeep
  <2>4. CASE RecordCommitted
    <3>1. jr'.phase = "COLLECTION_COMMITTED" /\ jr'.op = "NONE" /\ jr'.receipts = {}
      BY <2>1, <2>4, CommittedFields DEF RecordCommitted, Append
    <3> QED BY <3>1 DEF Emptied
  <2> QED BY <1>8, <2>2, <2>3, <2>4, ExecuteKinds
<1>9. CASE RecoverCommitted
  <2>1. jr.op = "NONE" /\ jr.receipts = {}
    BY <1>9 DEF RecoverCommitted, AtHead, Ordered, Undecided
  <2>2. jr'.phase = "COLLECTION_COMMITTED" /\ jr'.op = "NONE" /\ jr'.receipts = {}
    BY <1>9, <2>1, CommittedFields DEF RecoverCommitted, Append
  <2> QED BY <2>2 DEF Emptied
<1>10. CASE StartRollback
  <2>1. /\ jr.phase \in Undecided /\ jr'.op = jr.op /\ jr'.receipts = jr.receipts
        /\ jr'.temp = jr.temp /\ jr'.backup = jr.backup /\ UNCHANGED <<temp, files>>
    BY <1>10, RollbackFields, AppendersKeep
  <2>2. jr.op = "NONE" /\ jr.receipts = {}
    BY <2>1 DEF Ordered
  <2>3. /\ temp = "none" \/ jr.temp \notin {"NONE", "PLANNED"}
        /\ "backup" \in files => jr.backup \notin {"NONE", "PLANNED"}
    <3>1. CASE jr.phase = "COMMITTING_COLLECTION"
      <4>1. BaselineObserved
        BY <1>10, <3>1 DEF StartRollback, RollbackProvable
      <4> QED BY <3>1, <4>1 DEF BaselineObserved, Retained
    <3>2. CASE jr.phase # "COMMITTING_COLLECTION"
      BY <2>1, <3>2 DEF Retained, Undecided
    <3> QED BY <3>1, <3>2
  <2> QED BY <2>1, <2>2, <2>3 DEF Emptied
<1>11. CASE RollbackIntent
  <2>1. jr.phase = "ROLLING_BACK" /\ jr.op = "NONE"
    BY <1>11 DEF RollbackIntent, At, AtHead, Phased, R
  <2>2. /\ jr'.op = "ROLLBACK_ALL" /\ jr'.targets = RollbackTargets /\ jr'.receipts = {}
        /\ jr'.phase = jr.phase /\ UNCHANGED <<temp, files>>
    BY <1>11, RollbackIntentFields, AppendersKeep
  <2>3. \A o \in Tree \cup {"temp", "backup"} : Present(o) => o \in RollbackTargets
    BY <2>1, Apart DEF Emptied, RollbackTargets, Present
  <2>4. \A o : Present(o)' <=> Present(o)
    BY <2>2 DEF Present
  <2> QED BY <2>1, <2>2, <2>3, <2>4 DEF Emptied
<1>12. ASSUME NEW p \in Procs, BeginNext(p) PROVE Emptied'
  <2>1. /\ jr.phase = "COLLECTION_COMMITTED" /\ jr.status # "INTENT" /\ jr.op # "ROLLBACK_ALL"
    BY <1>12 DEF BeginNext, At, Phased, Ordered, Procs
  <2>2. /\ jr'.op = NextKind /\ jr'.receipts = {} /\ jr'.phase = jr.phase
        /\ NextKind \in {"BASELINE_BACKUP", "SUCCESS_PROCESSED_SNAPSHOT", "SUCCESS_SNAPSHOT"}
        /\ UNCHANGED <<temp, files>>
    BY <1>12, BeginNextFields, AppendersKeep
  <2>3. jr.op # "NONE" => \A o \in jr.targets : ~Present(o)
    <3>1. jr.op # "NONE" => jr.status = "COMPLETE"
      BY <1>0, <2>1 DEF Ordered, Generations
    <3> QED BY <3>1 DEF Ordered, Emptied
  <2>4. jr.op \in Kinds
    BY <1>0 DEF Generations
  <2>5. CASE jr.op = "NONE" /\ ~world.baseline
    <3>1. NextKind = "SUCCESS_PROCESSED_SNAPSHOT"
      BY <2>5 DEF NextKind
    <3>2. temp = "none" /\ "backup" \notin files
      BY <2>1, <2>5 DEF Retained, Exchanging
    <3> QED BY <2>1, <2>2, <3>1, <3>2 DEF Emptied
  <2>6. CASE jr.op = "NONE" /\ world.baseline
    <3>1. NextKind = "BASELINE_BACKUP"
      BY <2>6 DEF NextKind
    <3> QED BY <2>1, <2>2, <3>1 DEF Emptied
  <2>7. CASE jr.op = "BASELINE_BACKUP"
    <3>1. NextKind = "SUCCESS_PROCESSED_SNAPSHOT"
      BY <2>7 DEF NextKind
    <3>2. temp = "none" /\ "backup" \notin files
      <4>1. ~Present(IF world.windows THEN "backup" ELSE "temp")
        BY <2>3, <2>7 DEF Ordered
      <4>2. CASE world.windows
        BY <2>1, <4>1, <4>2 DEF Retained, Exchanging, Present
      <4>3. CASE ~world.windows
        BY <4>1, <4>3 DEF Retained, Present
      <4> QED BY <4>2, <4>3
    <3> QED BY <2>1, <2>2, <3>1, <3>2 DEF Emptied
  <2>8. CASE jr.op \in {"SUCCESS_PROCESSED_SNAPSHOT", "SUCCESS_SNAPSHOT"}
    <3>1. temp = "none" /\ "backup" \notin files
      BY <2>8 DEF Emptied
    <3>2. Processed \cap files = {}
      <4>1. CASE jr.op = "SUCCESS_PROCESSED_SNAPSHOT"
        <5>1. \A o \in Processed : ~Present(o)
          BY <2>3, <4>1 DEF Ordered
        <5> QED BY <5>1, Apart DEF Present
      <4>2. CASE jr.op = "SUCCESS_SNAPSHOT"
        BY <4>2 DEF Emptied
      <4> QED BY <2>8, <4>1, <4>2
    <3> QED BY <2>1, <2>2, <3>1, <3>2 DEF Emptied
  <2> QED BY <2>1, <2>4, <2>5, <2>6, <2>7, <2>8 DEF Kinds
<1>13. CASE RemoveTarget
  BY <1>1, <1>13, RemovalNames
<1>14. CASE ReceiptTarget
  <2>1. PICK o \in Owing :
          /\ NextTarget(o) /\ ~Present(o)
          /\ jr'.receipts = jr.receipts \cup {o}
          /\ jr'.op = jr.op /\ jr'.targets = jr.targets
    BY <1>14, ReceiptFields
  <2>2. jr.op # "NONE"
    BY <2>1 DEF Ordered, Owing
  <2>3. UNCHANGED <<temp, files>>
    BY <1>14, AppendersKeep
  <2>4. \A q : Present(q)' <=> Present(q)
    BY <2>3 DEF Present
  <2> QED BY <2>1, <2>2, <2>3, <2>4 DEF Emptied
<1>15. CASE CompleteCleanup \/ ReleaseProcessed
  <2>1. jr'.op = jr.op /\ jr'.targets = jr.targets /\ jr'.receipts = jr.receipts
    BY <1>15, PlainAppends
  <2>2. jr.op # "NONE"
    BY <1>15 DEF CompleteCleanup, ReleaseProcessed, ReleasedAt, At, Phased, Ordered, R
  <2> QED BY <1>4, <1>15, <2>1, <2>2, AppendersKeep
<1>16. CASE StartCompaction \/ SealOutcome
  <2>1. jr'.op = jr.op /\ jr'.targets = jr.targets /\ jr'.receipts = jr.receipts
    BY <1>16, PlainAppends
  <2>2. jr.op # "NONE"
    BY <1>16 DEF StartCompaction, SealOutcome, Compacting, Phased, Ordered, R
  <2> QED BY <1>4, <1>16, <2>1, <2>2, AppendersKeep
<1> QED
  BY <1>5, <1>6, <1>7, <1>8, <1>9, <1>10, <1>11, <1>12, <1>13, <1>14, <1>15, <1>16,
     StepKinds DEF Cleanup

-----------------------------------------------------------------------------
(* The theorems.                                                           *)

\* In the initial states nothing is there, nothing is decided, nobody works.
LEMMA Initially == Init => IInv
<1> SUFFICES ASSUME Init PROVE IInv
  OBVIOUS
<1> USE DEF Init, Blank
<1>1. TypeOK
  <2>1. jr \in Generations
    BY DEF Generations, Phases, ArtifactStates, Results, Kinds
  <2>2. store \in Stores /\ history \in Histories
    BY DEF Stores, Histories, Results
  <2>3. pc \in [Procs -> Stages]
    <3>1. \A p \in Procs : pc[p] \in Stages
      BY DEF Procs, Stages
    <3> QED BY <3>1 DEF Procs
  <2> QED BY <2>1, <2>2, <2>3 DEF TypeOK, Collections, TempBytes
<1>2. Turns /\ Phased
  BY DEF Turns, Phased, ImporterStages, RecoveryStages, Leasing, Before, Listed
<1>3. Decided /\ Ordered /\ Emptied
  BY DEF Decided, Ordered, Emptied, Undecided, Holding
<1>4. Imaged /\ Held /\ Retained
  BY DEF Imaged, Held, Retained, Undecided, Holding
<1> QED BY <1>1, <1>2, <1>3, <1>4 DEF IInv

\* The inductive invariant, layer by layer.
THEOREM Inductive == Spec => []IInv
<1>1. IInv /\ [Next]_vars => IInv'
  <2> SUFFICES ASSUME IInv, [Next]_vars PROVE IInv'
    OBVIOUS
  <2>1. TypeOK' /\ Turns' /\ Phased' /\ Decided' /\ Ordered'
    BY TypeOKStep, TurnsStep, PhasedStep, DecidedStep, OrderedStep DEF IInv
  <2>2. Imaged' /\ Held' /\ Retained' /\ Emptied'
    BY ImagedStep, HeldStep, RetainedStep, EmptiedStep DEF IInv
  <2> QED BY <2>1, <2>2 DEF IInv
<1> QED BY Initially, <1>1, PTL DEF Spec

\* Every variable keeps its type, in every world.
THEOREM TypeCorrect == Spec => []TypeOK
<1>1. IInv => TypeOK
  BY DEF IInv
<1> QED BY Inductive, <1>1, PTL

\* Nothing is deleted before its last use, and nothing a record calls cleaned
\* is left, whatever order crashes, passes and saves come in.
THEOREM EvidenceSafe == Spec => []EvidenceOutlivesUse
<1>1. IInv => EvidenceOutlivesUse
  <2> SUFFICES ASSUME IInv PROVE EvidenceOutlivesUse
    OBVIOUS
  <2>0. TypeOK /\ Decided /\ Ordered /\ Imaged /\ Held /\ Retained /\ Emptied
    BY DEF IInv
  <2>1. dest \in Holding => TreeWhole
    BY <2>0 DEF Imaged
  <2>2. Listed /\ jr.procRef => RawWhole
    BY <2>0 DEF Held
  <2>3. jr.phase = "COMMITTING_COLLECTION" /\ dest \in Holding /\ world.baseline =>
            IF world.windows THEN "backup" \in files ELSE temp = "baseline"
    BY <2>0 DEF Retained, Exchanging
  <2>4. ASSUME Recorded
        PROVE  /\ (Raw \cup Processed \cup {"backup"}) \cap files = {} /\ temp = "none"
               /\ dest \notin Holding => Tree \cap files = {}
    <3>1. jr.phase = "COMPACTING"
      BY <2>0, <2>4 DEF Recorded, Decided
    <3>2. jr.status = "COMPLETE" /\ jr.op \in {"SUCCESS_SNAPSHOT", "ROLLBACK_ALL"}
      BY <2>0, <3>1 DEF Ordered
    <3>3. dest \notin Holding => jr.op = "ROLLBACK_ALL"
      BY <2>0, <3>2 DEF Ordered, Decided
    <3> QED BY <2>0, <3>2, <3>3, CompactedClean
  <2> QED BY <2>1, <2>2, <2>3, <2>4 DEF EvidenceOutlivesUse
<1> QED BY Inductive, <1>1, PTL

\* Besides the three steps of the decision, none moves the outcome.
LEMMA OutcomeSteps ==
  ASSUME IInv, [Next]_vars
  PROVE  \/ Genesis \/ Publish \/ StartRollback
         \/ /\ jr'.phase = "NONE" <=> jr.phase = "NONE"
            /\ dest' \in Holding <=> dest \in Holding
            /\ jr'.audit = "ROLLED_BACK" <=> jr.audit = "ROLLED_BACK"
<1> DEFINE Kept == /\ jr'.phase = "NONE" <=> jr.phase = "NONE"
                   /\ dest' \in Holding <=> dest \in Holding
                   /\ jr'.audit = "ROLLED_BACK" <=> jr.audit = "ROLLED_BACK"
<1>0. TypeOK /\ Turns /\ Phased /\ Decided /\ Ordered /\ jr \in Generations
  BY DEF IInv, TypeOK
<1>1. ASSUME jr' = jr, dest' \in Holding <=> dest \in Holding PROVE Kept
  BY <1>1
<1>2. ASSUME UNCHANGED dest, jr'.audit = jr.audit, jr.phase # "NONE", jr'.phase # "NONE"
      PROVE  Kept
  BY <1>2
<1>3. CASE Quiet
  BY <1>1, <1>3 DEF Quiet
<1>4. CASE Grows
  BY <1>1, <1>4 DEF Grows
<1>5. CASE Execute /\ ~Publish
  <2>1. CASE Appends
    BY <1>0, <1>2, <2>1, AppendsKeep DEF disk, Undecided
  <2>2. CASE Builds
    BY <1>1, <2>2, BuildsKeep
  <2>3. CASE Puts
    <3>1. jr' = jr /\ dest' = dest
      BY <1>5, <2>3 DEF Puts, CreateTemporary, WriteTemporary, LinkBackup, Publishes, durable
    <3> QED BY <1>1, <3>1
  <2>4. CASE RecordCommitted
    <3>1. /\ jr'.phase = "COLLECTION_COMMITTED" /\ jr'.audit = "SUCCEEDED" /\ dest' = dest
          /\ jr.phase = "COMMITTING_COLLECTION"
      BY <1>0, <2>4, CommittedFields, CommittedOver, AppendersKeep DEF RecordCommitted, Append
    <3>2. jr.audit = "none"
      BY <1>0, <3>1 DEF Decided, Undecided
    <3> QED BY <3>1, <3>2
  <2> QED BY <1>5, <2>1, <2>2, <2>3, <2>4, ExecuteKinds
<1>6. CASE RecoverCommitted
  <2>1. /\ jr'.phase = "COLLECTION_COMMITTED" /\ jr'.audit = "SUCCEEDED" /\ dest' = dest
        /\ jr.phase = "COMMITTING_COLLECTION"
    BY <1>0, <1>6, CommittedFields, CommittedOver, AppendersKeep DEF RecoverCommitted, Append
  <2>2. jr.audit = "none"
    BY <1>0, <2>1 DEF Decided, Undecided
  <2> QED BY <2>1, <2>2
<1>7. CASE RollbackIntent
  <2>1. jr.phase = "ROLLING_BACK"
    BY <1>0, <1>7 DEF RollbackIntent, At, AtHead, Phased, R
  <2> QED BY <1>0, <1>2, <1>7, <2>1, RollbackIntentFields, AppendersKeep
<1>8. CASE RemoveTarget
  BY <1>0, <1>1, <1>8, RemovalNames
<1>9. CASE ReceiptTarget
  <2>1. jr.phase \in {"COLLECTION_COMMITTED", "ROLLING_BACK"} /\ jr'.phase = jr.phase
        /\ jr'.audit = jr.audit
    BY <1>0, <1>9, ReceiptFields DEF ReceiptTarget, Advancing, At, Phased, R
  <2> QED BY <1>2, <1>9, <2>1, AppendersKeep
<1>10. CASE CompleteCleanup \/ ReleaseProcessed \/ StartCompaction \/ SealOutcome
  <2>1. jr.phase # "NONE"
    BY <1>0, <1>10 DEF CompleteCleanup, ReleaseProcessed, ReleasedAt, StartCompaction, SealOutcome,
       Compacting, At, Phased, R
  <2>2. jr'.audit = jr.audit /\ jr'.phase \in {jr.phase, "COMPACTING"}
    BY <1>0, <1>10, PlainAppends
  <2> QED BY <1>2, <1>10, <2>1, <2>2, AppendersKeep
<1>11. ASSUME NEW p \in Procs, BeginNext(p) PROVE Kept
  BY <1>0, <1>2, <1>11, BeginNextFields, AppendersKeep DEF BeginNext
<1> QED
  BY <1>0, <1>3, <1>4, <1>5, <1>6, <1>7, <1>8, <1>9, <1>10, <1>11, StepKinds DEF Cleanup

\* Only the publication of the pending record makes a record.
LEMMA RecordSteps ==
  ASSUME IInv, [Next]_vars
  PROVE  \/ PublishPending
         \/ /\ Recorded' <=> Recorded
            /\ Recorded => history'.result = history.result
<1> DEFINE Kept == (Recorded' <=> Recorded) /\ (Recorded => history'.result = history.result)
<1>0. history \in Histories /\ TypeOK /\ Phased /\ Decided
  BY DEF IInv, TypeOK
<1>1. ASSUME history' = history PROVE Kept
  BY <1>1 DEF Recorded
<1>2. CASE DeletePartialRecord
  BY <1>0, <1>2 DEF DeletePartialRecord, Writes3, Recorded, Histories
<1>3. CASE Finalize
  BY <1>0, <1>3 DEF Finalize, Recorded, Histories
<1>4. ASSUME NEW p \in Procs, Abort(p) \/ Crash(p) PROVE Kept
  <2>1. Torn(p)
    BY <1>4 DEF Abort, Crash, Fails
  <2>2. CASE history' # history
    <3>1. history.state = "none" /\ history'.state \in {"partial", "complete"}
      BY <2>1, <2>2 DEF Torn, WritingPending
    <3> QED BY <3>1 DEF Recorded
  <2> QED BY <1>1, <2>2
<1>5. CASE Compaction /\ ~PublishPending /\ ~DeletePartialRecord /\ ~Finalize
  BY <1>1, <1>5, AppendersKeep DEF Compaction, PublishManifest, RenameForRetirement,
     RemoveRetirement, Stores3
<1>6. CASE Execute \/ Cleanup
  <2>1. jr.phase # "COMPACTING" \/ jr' # jr \/ history' = history
    <3>1. CASE Execute
      BY <1>0, <3>1, ExecuteKinds DEF Phased, Undecided
    <3>2. CASE Cleanup
      BY <3>2, AppendersKeep DEF Cleanup, RemoveTarget, durable
    <3> QED BY <1>6, <3>1, <3>2
  <2> QED BY <1>0, <1>1, <2>1, HistoryStep
<1>7. CASE Prepare \/ Seal \/ Refuse \/ CreateJournalDirectory \/ StartRecovery
           \/ ClearStaleLock \/ Exit \/ Save \/ UNCHANGED vars
  BY <1>1, <1>7 DEF Prepare, CreateRaw, BeginSeal, Cancel, Commit, Seal, Creates, Refuse,
     CreateJournalDirectory, StartRecovery, ClearStaleLock, Exit, Save, vars, durable
<1>8. CASE ListHeads \/ RawScan \/ ProcessedScan \/ NothingToRecover \/ ResumeCompaction
           \/ DeletePartialManifest \/ ResumeCleanup \/ FailClosed
  BY <1>1, <1>8 DEF ListHeads, RawScan, ProcessedScan, NothingToRecover, ResumeCompaction, Moves,
     DeletePartialManifest, ResumeCleanup, FailClosed, durable
<1>9. ASSUME NEW p \in Procs, RemoveUnjournaled(p) PROVE Kept
  BY <1>1, <1>9 DEF RemoveUnjournaled, durable
<1>10. CASE Genesis \/ RecoverCommitted \/ StartRollback \/ RollbackIntent
            \/ \E p \in Procs : BeginNext(p)
  BY <1>1, <1>10, AppendersKeep
<1>11. "importer" \in Procs /\ R \in Procs
  BY DEF Procs, R
<1> QED
  BY <1>2, <1>3, <1>4, <1>5, <1>6, <1>7, <1>8, <1>9, <1>10, <1>11
     DEF Next, Importer, Recovering, Environment

\* The import with two snapshots keeps the promise of the plain one: all or
\* nothing, decided once, and truthfully recorded once.
THEOREM KeepsThePromise == Spec => ImplementsPromise
<1> USE DEF Promise!Begin, Promise!Import, Promise!Abandon, Promise!Record
<1> DEFINE Record == IF Recorded THEN history.result ELSE "none"
<1>1. Init => Promise!Init
  BY DEF Init, Promise!Init, Blank, Outcome, Recorded
<1>2. ASSUME IInv, [Next]_vars
      PROVE  Promise!Next \/ UNCHANGED <<Outcome, Record>>
  <2>0. /\ TypeOK /\ jr \in Generations /\ jr.audit \in Results
        /\ Decided /\ Phased /\ Ordered
    BY <1>2 DEF IInv, TypeOK, Generations
  <2>1. CASE Genesis
    <3>1. /\ jr.phase = "NONE" /\ jr'.phase = "PREPARED" /\ jr'.audit = "none"
          /\ UNCHANGED <<dest, history>>
      BY <2>0, <2>1, AppendersKeep DEF Genesis, Blank, Phased, Before, At
    <3>2. dest \notin Holding
      BY <2>0, <3>1 DEF Decided
    <3>3. Outcome = "none" /\ Outcome' = "undecided"
      BY <3>1, <3>2 DEF Outcome
    <3>4. Record' = Record
      BY <3>1 DEF Recorded
    <3> QED BY <3>3, <3>4 DEF Promise!Next
  <2>2. CASE Publish
    <3>1. /\ jr' = jr /\ jr.phase = "COMMITTING_COLLECTION"
          /\ dest = "baseline" /\ dest' = "prospective" /\ history' = history
      BY <2>2 DEF Publish, Publishes, Committing, durable
    <3>2. jr.audit = "none"
      BY <2>0, <3>1 DEF Decided, Undecided
    <3>3. Outcome = "undecided" /\ Outcome' = "imported"
      BY <3>1, <3>2 DEF Outcome, Holding
    <3>4. Record' = Record
      BY <3>1 DEF Recorded
    <3> QED BY <3>3, <3>4 DEF Promise!Next
  <2>3. CASE StartRollback
    <3>1. /\ jr'.phase = "ROLLING_BACK" /\ jr'.audit = "ROLLED_BACK" /\ jr.phase \in Undecided
          /\ dest' = dest /\ history' = history
      BY <2>0, <2>3, RollbackFields, AppendersKeep
    <3>2. jr.audit = "none" /\ jr.phase # "NONE"
      BY <2>0, <3>1 DEF Decided, Undecided
    <3>3. dest \notin Holding
      <4>1. jr.phase = "COMMITTING_COLLECTION" => dest = "baseline"
        BY <2>3 DEF StartRollback, RollbackProvable, BaselineObserved
      <4> QED BY <2>0, <3>2, <4>1 DEF Decided, Holding
    <3>4. Outcome = "undecided" /\ Outcome' = "abandoned"
      BY <3>1, <3>2, <3>3 DEF Outcome
    <3>5. Record' = Record
      BY <3>1 DEF Recorded
    <3> QED BY <3>4, <3>5 DEF Promise!Next
  <2>4. CASE PublishPending
    <3>1. /\ jr' = jr /\ dest' = dest
          /\ history' = [state |-> "pending", result |-> jr.audit]
          /\ ~Recorded
      BY <2>4 DEF PublishPending, WritingPending, Writes3, Recorded, disk
    <3>2. jr.phase = "COMPACTING"
      BY <2>0, <2>4 DEF PublishPending, WritingPending, Compacting, At, Phased, R
    <3>3. jr.audit \in {"SUCCEEDED", "ROLLED_BACK"}
      BY <2>0, <3>2 DEF Decided, Undecided, Results
    <3>4. Outcome' = Outcome
      BY <3>1 DEF Outcome
    <3>5. Outcome = IF jr.audit = "SUCCEEDED" THEN "imported" ELSE "abandoned"
      BY <2>0, <3>2, <3>3 DEF Outcome, Decided
    <3>6. Record = "none" /\ Record' = jr.audit
      BY <3>1 DEF Recorded
    <3> QED BY <3>3, <3>4, <3>5, <3>6 DEF Promise!Next
  <2>5. CASE ~Genesis /\ ~Publish /\ ~StartRollback /\ ~PublishPending
    <3>1. Outcome' = Outcome
      BY <1>2, <2>5, OutcomeSteps DEF Outcome
    <3>2. Record' = Record
      BY <1>2, <2>5, RecordSteps
    <3> QED BY <3>1, <3>2
  <2> QED BY <2>1, <2>2, <2>3, <2>4, <2>5
<1>3. IInv /\ [Next]_vars => [Promise!Next]_(Promise!vars)
  BY <1>2 DEF Promise!vars
<1> QED BY Inductive, <1>1, <1>3, PTL DEF Spec, ImplementsPromise, Promise!Spec

-----------------------------------------------------------------------------
(* Wedged is for good.  Nine of the ten states stop a pass at a known      *)
(* point, before it has touched what makes the state what it is; each is   *)
(* kept together with the stages that a pass can reach in it.  The tenth   *)
(* is a size, which no later generation changes.                           *)

\* A snapshot that a listed head no longer names is gone.
Released ==
    /\ Listed /\ ~jr.rawRef => Raw \cap files = {}
    /\ Listed /\ ~jr.procRef => Processed \cap files = {}

\* A listed import grows no snapshot, and forgets one when it is receipted.
LEMMA ReleasedStep == IInv /\ Released /\ [Next]_vars => Released'
<1> SUFFICES ASSUME IInv, Released, [Next]_vars PROVE Released'
  OBVIOUS
<1>0. TypeOK /\ Turns /\ Phased /\ Decided /\ Ordered /\ Emptied /\ jr \in Generations
  BY DEF IInv, TypeOK
<1>1. CASE Genesis
  BY <1>1 DEF Genesis, Blank, Released, Generations, Phases
<1>2. CASE ~Genesis /\ Listed'
  <2>1. Listed /\ jr.phase # "NONE"
    BY <1>0, <1>2, References DEF Phased
  <2>2. \A o \in jr.receipts : o \in Raw \cup Processed => o \notin files
    BY <1>0, Apart DEF Emptied, Present
  <2>3. ASSUME files' \subseteq files, jr'.rawRef = jr.rawRef, jr'.procRef = jr.procRef
        PROVE  Released'
    BY <1>2, <2>1, <2>3 DEF Released
  <2>4. CASE Quiet
    BY <2>3, <2>4 DEF Quiet
  <2>5. ~Grows
    BY <1>0, <2>1 DEF Grows, Phased
  <2>6. CASE Execute
    <3>1. CASE Appends
      BY <1>0, <2>3, <3>1, AppendsKeep DEF disk
    <3>2. CASE Builds
      <4>1. jr' = jr /\ \E o \in Tree : files' = files \cup {o}
        BY <3>2 DEF Builds, MakeImageRoot, WriteMarker, WriteImage, Writes, Tree, durable
      <4> QED BY <1>2, <2>1, <4>1, Apart DEF Released
    <3>3. CASE Puts
      <4>1. jr' = jr /\ files' \subseteq files \cup {"backup"}
        BY <3>3 DEF Puts, CreateTemporary, WriteTemporary, LinkBackup, Publish, Publishes, durable
      <4> QED BY <1>2, <2>1, <4>1, Apart DEF Released
    <3>4. CASE RecordCommitted
      BY <1>0, <2>3, <3>4, CommittedFields DEF RecordCommitted, Append, disk
    <3> QED BY <2>6, <3>1, <3>2, <3>3, <3>4, ExecuteKinds
  <2>7. CASE RecoverCommitted
    BY <1>0, <2>3, <2>7, CommittedFields DEF RecoverCommitted, Append, disk
  <2>8. CASE StartRollback
    BY <1>0, <2>3, <2>8, RollbackFields, AppendersKeep
  <2>9. CASE RollbackIntent
    BY <1>0, <2>3, <2>9, RollbackIntentFields, AppendersKeep
  <2>10. CASE \E p \in Procs : BeginNext(p)
    BY <1>0, <2>3, <2>10, BeginNextFields, AppendersKeep
  <2>11. CASE (StartCompaction \/ SealOutcome \/ CompleteCleanup) /\ ~ReleaseProcessed
    BY <1>0, <2>3, <2>11, PlainAppends DEF disk
  <2>12. CASE ReleaseProcessed
    <3>1. Processed \subseteq jr.receipts
      BY <1>0, <2>12 DEF ReleaseProcessed, ReleasedAt, Ordered
    <3>2. Processed \cap files = {} /\ files' = files /\ jr'.rawRef = jr.rawRef
      BY <1>0, <2>2, <2>12, <3>1, PlainAppends DEF disk
    <3> QED BY <2>1, <3>2 DEF Released
  <2>13. CASE RemoveTarget
    BY <1>0, <2>3, <2>13, RemovalNames
  <2>14. CASE ReceiptTarget
    <3>1. PICK o \in Owing :
            /\ ~Present(o) /\ jr'.procRef = jr.procRef
            /\ jr'.rawRef = (jr.rawRef /\ ~(o \in Raw /\ Owing \cap Raw = {o}))
      BY <1>0, <2>14, ReceiptFields
    <3>2. files' = files
      BY <2>14, AppendersKeep
    <3>3. ASSUME o \in Raw, Owing \cap Raw = {o} PROVE Raw \cap files = {}
      <4>1. Raw \subseteq jr.targets
        BY <1>0, <3>3, Apart DEF Ordered, Owing, Generations, Kinds
      <4> QED BY <2>2, <3>1, <3>3, <4>1, Apart DEF Owing, Present
    <3>4. ~jr'.rawRef => Raw \cap files = {}
      BY <2>1, <3>1, <3>3 DEF Released
    <3> QED BY <2>1, <3>1, <3>2, <3>4 DEF Released
  <2> QED
    BY <1>0, <1>2, <2>4, <2>5, <2>6, <2>7, <2>8, <2>9, <2>10, <2>11, <2>12, <2>13, <2>14,
       StepKinds DEF Cleanup
<1> QED BY <1>1, <1>2 DEF Released

LEMMA ReleasedAlways == Spec => []Released
<1>1. Init => Released
  BY DEF Init, Released, Listed
<1> QED BY Inductive, ReleasedStep, <1>1, PTL DEF Spec

\* A pass before it has taken up the import it found.
Heads == {"idle", "pending", "scan", "rawOrphan", "procScan", "procOrphan", "dispatch"}

StuckIn(state, stages) == At("importer", "ended") /\ state /\ pc[R] \in stages

Stuck ==
    \/ StuckIn(ForeignCollection, Heads)
    \/ StuckIn(TornRawOrphan, Heads \ {"rawOrphan"})
    \/ StuckIn(TornProcessedOrphan, Heads \ {"procOrphan", "dispatch"})
    \/ StuckIn(NoGenesis, {"idle", "pending"})
    \/ StuckIn(UnmarkedTree, Heads)
    \/ StuckIn(UnrecordedTemporary, Heads)
    \/ StuckIn(UnrecordedBackup, Heads)
    \/ StuckIn(UnrecordedExchange, Heads)
    \/ StuckIn(RollbackTooWide, RecoveryStages)
    \/ StuckIn(RetirementTorn, {"idle", "pending"})

\* Who is left once the importer has ended.
LEMMA Passes ==
  ASSUME IInv, At("importer", "ended"), [Next]_vars
  PROVE  /\ At("importer", "ended")'
         /\ \/ StartRecovery \/ Recovering \/ ClearStaleLock \/ Save \/ Exit
            \/ Abort(R) \/ Crash(R) \/ UNCHANGED vars
<1>1. /\ pc["importer"] = "ended" /\ pc \in [Procs -> Stages]
      /\ pc["recovery"] \in RecoveryStages /\ R = "recovery"
      /\ Procs = {"importer", "recovery"}
  BY DEF At, IInv, TypeOK, Turns, R, Procs
<1>2. ~Prepare /\ ~Seal /\ ~RemoveUnjournaled("importer") /\ ~Refuse /\ ~CreateJournalDirectory
      /\ ~Genesis /\ ~Execute /\ ~BeginNext("importer")
  BY <1>1, ExecuteKinds DEF Prepare, CreateRaw, BeginSeal, Cancel, Commit, Seal, RemoveUnjournaled,
     Unjournaled, Refuse, CreateJournalDirectory, Genesis, BeginNext, At
<1>3. ~Abort("importer") /\ ~Crash("importer")
  BY <1>1 DEF Abort, Crash, Fails, At, Rest
<1>4. \/ StartRecovery \/ Recovering \/ ClearStaleLock \/ Save \/ Exit
      \/ Abort(R) \/ Crash(R) \/ UNCHANGED vars
  BY <1>1, <1>2, <1>3 DEF Next, Importer, Environment
<1>5. pc' = pc \/ \E s : pc' = [pc EXCEPT !["recovery"] = s]
  BY <1>1, <1>4 DEF StartRecovery, Recovering, ClearStaleLock, Save, Exit, Abort, Crash, LeaveLocked,
     Goto, At, RecoveryStages, ListHeads, RawScan, ProcessedScan, Moves, RemoveUnjournaled,
     NothingToRecover, ResumeCompaction, DeletePartialManifest, ResumeCleanup, RecoverCommitted,
     StartRollback, RollbackIntent, Cleanup, RemoveTarget, ReceiptTarget, CompleteCleanup,
     ReleaseProcessed, BeginNext, Compaction, StartCompaction, PublishManifest, SealOutcome,
     PublishPending, DeletePartialRecord, RenameForRetirement, RemoveRetirement, Finalize, Stores3,
     Writes3, FailClosed, vars, control
<1> QED BY <1>1, <1>4, <1>5 DEF At

\* A step that leaves a pass at its head, or ends it there.
Headed ==
    /\ UNCHANGED <<world, temp, jr, store, history>>
    /\ dest' \in {dest, IF dest \in Holding THEN "prospective+" ELSE "baseline+"}
    /\ \/ files' = files
       \/ pc[R] = "rawOrphan" /\ \E o \in Raw : files' = files \ {o}
       \/ pc[R] = "procOrphan" /\ \E o \in Processed : files' = files \ {o}
    /\ pc'[R] \in Heads
    /\ pc[R] \in {"idle", "pending"} /\ pc'[R] \notin {"idle", "pending"} => ~ListBlocked
    /\ pc'[R] = "rawOrphan" /\ pc[R] # "rawOrphan" => RawWhole
    /\ pc'[R] \in {"procOrphan", "dispatch"} /\ pc[R] \notin {"procOrphan", "dispatch"} =>
            ~TornProcessedOrphan

\* Otherwise it takes up the import: a compaction, a cleanup, or a decision.
LEMMA HeadSteps ==
  ASSUME IInv, At("importer", "ended"), pc[R] \in Heads, [Next]_vars
  PROVE  \/ Headed
         \/ pc[R] = "pending" /\ ~ListBlocked /\ history.state = "pending"
         \/ ResumeCompaction \/ ResumeCleanup
         \/ RecoverCommitted \/ StartRollback \/ (AtHead({"ROLLING_BACK"}) /\ RollbackProvable)
<1>0. pc \in [Procs -> Stages] /\ R \in Procs /\ pc["recovery"] \in RecoveryStages
  BY DEF IInv, TypeOK, Turns, Procs, R
<1>1. ASSUME UNCHANGED <<world, temp, jr, store, history>>, files' = files,
             dest' \in {dest, IF dest \in Holding THEN "prospective+" ELSE "baseline+"},
             pc'[R] \in {pc[R], "idle"}
      PROVE  Headed
  BY <1>1 DEF Headed, Heads
<1>2. CASE StartRecovery
  BY <1>0, <1>2 DEF StartRecovery, Goto, At, Headed, Heads, disk, durable, others
<1>3. CASE Recovering
  <2> USE DEF disk, durable, control, others
  <2>1. CASE ListHeads
    BY <1>0, <2>1 DEF ListHeads, Moves, Goto, At, Headed, Heads
  <2>2. CASE RawScan
    BY <1>0, <2>2 DEF RawScan, RawScanBlocked, Moves, Goto, At, Headed, Heads
  <2>3. CASE ProcessedScan
    BY <1>0, <2>3 DEF ProcessedScan, ProcessedScanBlocked, TornProcessedOrphan, Moves, Goto, At,
       Headed, Heads
  <2>4. CASE RemoveUnjournaled(R)
    <3>1. PICK o \in Unjournaled(R) :
            /\ files' = files \ {o}
            /\ \/ o = "rawRoot" /\ Goto(R, "procScan")
               \/ o = "procRoot" /\ Goto(R, "dispatch")
               \/ pc' = pc
      BY <2>4 DEF RemoveUnjournaled, R
    <3>2. \/ pc[R] = "rawOrphan" /\ Unjournaled(R) = Raw
          \/ pc[R] = "procOrphan" /\ Unjournaled(R) = Processed
      BY <3>1 DEF Unjournaled, At, Heads
    <3>3. UNCHANGED <<world, dest, temp, jr, store, history>>
      BY <2>4 DEF RemoveUnjournaled
    <3> QED BY <1>0, <3>1, <3>2, <3>3 DEF Goto, Headed, Heads, Raw, Processed
  <2>5. CASE NothingToRecover \/ FailClosed
    BY <1>0, <1>1, <2>5 DEF NothingToRecover, FailClosed, LeaveLocked, Rest, Goto, R
  <2>6. CASE RollbackIntent
    BY <2>6 DEF RollbackIntent, At, Heads
  <2>7. ~DeletePartialManifest /\ ~Cleanup /\ ~BeginNext(R) /\ ~Compaction
    BY DEF DeletePartialManifest, Cleanup, RemoveTarget, ReceiptTarget, Advancing, CompleteCleanup,
       ReleaseProcessed, ReleasedAt, BeginNext, Compaction, StartCompaction, PublishManifest,
       WritingManifest, SealOutcome, PublishPending, WritingPending, DeletePartialRecord,
       RenameForRetirement, RemoveRetirement, Finalize, Compacting, At, Heads
  <2> QED BY <1>3, <2>1, <2>2, <2>3, <2>4, <2>5, <2>6, <2>7 DEF Recovering
<1>4. CASE Save
  BY <1>1, <1>4 DEF Save, durable, control
<1>5. CASE ClearStaleLock \/ Exit \/ UNCHANGED vars
  BY <1>1, <1>5 DEF ClearStaleLock, Exit, vars, disk, durable, control, others
<1>6. CASE Abort(R) \/ Crash(R)
  <2>1. UNCHANGED <<store, history>>
    BY <1>6 DEF Abort, Crash, Fails, Torn, WritingManifest, WritingPending, Compacting, Heads
  <2>2. UNCHANGED <<world, dest, temp, jr, files>>
    BY <1>0, <1>6 DEF Abort, Crash, Fails, At, R, RecoveryStages, Heads
  <2>3. pc'[R] = "idle"
    BY <1>0, <1>6 DEF Abort, Crash, LeaveLocked, Goto, At, Rest, R, RecoveryStages, Heads
  <2> QED BY <1>1, <2>1, <2>2, <2>3
<1> QED BY <1>2, <1>3, <1>4, <1>5, <1>6, Passes

\* An undecided import that can be proved neither published nor untouched stays
\* undecided.
LEMMA UndecidedStays ==
  ASSUME IInv, At("importer", "ended"), pc[R] \in Heads, [Next]_vars,
         jr.phase \in Undecided, ~RollbackProvable,
         jr.phase = "COMMITTING_COLLECTION" => ~ProspectiveObserved
  PROVE  Headed
<1>1. history.state = "none"
  BY DEF IInv, Decided, Undecided
<1>2. ~ResumeCompaction /\ ~ResumeCleanup
  BY DEF ResumeCompaction, ResumeCleanup, AtHead, Undecided
<1>3. ~RecoverCommitted /\ ~StartRollback
  BY DEF RecoverCommitted, StartRollback, AtHead
<1> QED BY <1>1, <1>2, <1>3, HeadSteps

\* Nor does a pass find anything to take up where no head is listed.
LEMMA UnlistedStays ==
  ASSUME IInv, At("importer", "ended"), pc[R] \in Heads, [Next]_vars, ~Listed
  PROVE  Headed
<1>1. history.state = "pending" => ListBlocked
  BY DEF ListBlocked
<1> QED BY <1>1, HeadSteps DEF ResumeCompaction, ResumeCleanup, RecoverCommitted, StartRollback,
           AtHead

LEMMA ForeignStays ==
  ASSUME IInv, [Next]_vars, StuckIn(ForeignCollection, Heads)
  PROVE  StuckIn(ForeignCollection, Heads)'
<1>1. ~RollbackProvable /\ ~ProspectiveObserved /\ jr.phase \in Undecided
  BY DEF StuckIn, ForeignCollection, RollbackProvable, BaselineObserved, ProspectiveObserved,
     Undecided
<1>2. Headed
  BY <1>1, UndecidedStays DEF StuckIn
<1> QED BY <1>2, Passes DEF StuckIn, ForeignCollection, Headed, Holding, R

LEMMA TornRawStays ==
  ASSUME IInv, Released, [Next]_vars, StuckIn(TornRawOrphan, Heads \ {"rawOrphan"})
  PROVE  StuckIn(TornRawOrphan, Heads \ {"rawOrphan"})'
<1>1. ~Listed /\ ~RawWhole
  BY DEF StuckIn, TornRawOrphan, RawOrphan, Released, Raw
<1>2. Headed /\ ~Listed'
  BY <1>1, UnlistedStays DEF StuckIn, Headed, Listed
<1>3. Raw \cap files' = Raw \cap files /\ pc'[R] # "rawOrphan"
  BY <1>1, <1>2, Apart DEF Headed, StuckIn
<1> QED BY <1>1, <1>2, <1>3, Passes
        DEF StuckIn, TornRawOrphan, RawOrphan, RawWhole, Raw, Headed, R

LEMMA TornProcessedStays ==
  ASSUME IInv, Released, [Next]_vars,
         StuckIn(TornProcessedOrphan, Heads \ {"procOrphan", "dispatch"})
  PROVE  StuckIn(TornProcessedOrphan, Heads \ {"procOrphan", "dispatch"})'
<1>1. ~Listed
  BY DEF StuckIn, TornProcessedOrphan, ProcessedOrphan, Released, Processed
<1>2. Headed /\ ~Listed'
  BY <1>1, UnlistedStays DEF StuckIn, Headed, Listed
<1>3. Processed \cap files' = Processed \cap files /\ pc'[R] \notin {"procOrphan", "dispatch"}
  BY <1>2, Apart DEF Headed, StuckIn
<1> QED BY <1>1, <1>2, <1>3, Passes
        DEF StuckIn, TornProcessedOrphan, ProcessedOrphan, ProcessedWhole, Incomplete, Processed,
            Headed, R

LEMMA NoGenesisStays ==
  ASSUME IInv, [Next]_vars, StuckIn(NoGenesis, {"idle", "pending"})
  PROVE  StuckIn(NoGenesis, {"idle", "pending"})'
<1>1. ListBlocked /\ ~Listed /\ pc[R] \in Heads
  BY DEF StuckIn, NoGenesis, ListBlocked, Listed, Heads
<1>2. Headed
  BY <1>1, UnlistedStays DEF StuckIn
<1> QED BY <1>1, <1>2, Passes DEF StuckIn, NoGenesis, Headed, R

LEMMA RetirementTornStays ==
  ASSUME IInv, [Next]_vars, StuckIn(RetirementTorn, {"idle", "pending"})
  PROVE  StuckIn(RetirementTorn, {"idle", "pending"})'
<1>1. ListBlocked /\ ~Listed /\ pc[R] \in Heads
  BY DEF StuckIn, RetirementTorn, ListBlocked, Heads
<1>2. Headed
  BY <1>1, UnlistedStays DEF StuckIn
<1> QED BY <1>1, <1>2, Passes DEF StuckIn, RetirementTorn, Listed, Headed, R

LEMMA UnmarkedTreeStays ==
  ASSUME IInv, [Next]_vars, StuckIn(UnmarkedTree, Heads)
  PROVE  StuckIn(UnmarkedTree, Heads)'
<1>1. ~RollbackProvable /\ jr.phase \in Undecided /\ jr.phase # "COMMITTING_COLLECTION"
  BY DEF StuckIn, UnmarkedTree, RollbackProvable, Undecided
<1>2. Headed
  BY <1>1, UndecidedStays DEF StuckIn
<1>3. Tree \cap files' = Tree \cap files
  BY <1>2, Apart DEF Headed
<1> QED BY <1>2, <1>3, Passes DEF StuckIn, UnmarkedTree, Tree, Headed, R

LEMMA UnrecordedTemporaryStays ==
  ASSUME IInv, [Next]_vars, StuckIn(UnrecordedTemporary, Heads)
  PROVE  StuckIn(UnrecordedTemporary, Heads)'
<1>1. ~RollbackProvable /\ ~ProspectiveObserved /\ jr.phase \in Undecided
  BY DEF StuckIn, UnrecordedTemporary, RollbackProvable, BaselineObserved, ProspectiveObserved,
     Undecided
<1>2. Headed
  BY <1>1, UndecidedStays DEF StuckIn
<1> QED BY <1>2, Passes DEF StuckIn, UnrecordedTemporary, Headed, R

LEMMA UnrecordedBackupStays ==
  ASSUME IInv, [Next]_vars, StuckIn(UnrecordedBackup, Heads)
  PROVE  StuckIn(UnrecordedBackup, Heads)'
<1>1. world.windows /\ world.baseline
  BY DEF StuckIn, UnrecordedBackup, IInv, Retained
<1>2. ~RollbackProvable /\ ~ProspectiveObserved /\ jr.phase \in Undecided
  BY <1>1 DEF StuckIn, UnrecordedBackup, RollbackProvable, BaselineObserved, ProspectiveObserved,
     Undecided
<1>3. Headed
  BY <1>2, UndecidedStays DEF StuckIn
<1>4. "backup" \in files'
  BY <1>3, Apart DEF Headed, StuckIn, UnrecordedBackup
<1> QED BY <1>3, <1>4, Passes DEF StuckIn, UnrecordedBackup, Headed, R

LEMMA UnrecordedExchangeStays ==
  ASSUME IInv, [Next]_vars, StuckIn(UnrecordedExchange, Heads)
  PROVE  StuckIn(UnrecordedExchange, Heads)'
<1>1. ~RollbackProvable /\ ~ProspectiveObserved /\ jr.phase \in Undecided
  BY DEF StuckIn, UnrecordedExchange, RollbackProvable, BaselineObserved, ProspectiveObserved,
     Undecided
<1>2. Headed
  BY <1>1, UndecidedStays DEF StuckIn
<1> QED BY <1>2, Passes DEF StuckIn, UnrecordedExchange, Headed, R

\* A rollback's targets are named once.
LEMMA TooWideStays ==
  ASSUME IInv, [Next]_vars, StuckIn(RollbackTooWide, RecoveryStages)
  PROVE  StuckIn(RollbackTooWide, RecoveryStages)'
<1>0. /\ TypeOK /\ Turns /\ Phased /\ Decided /\ Ordered
      /\ jr.op = "ROLLBACK_ALL" /\ pc["importer"] = "ended"
  BY DEF IInv, StuckIn, RollbackTooWide, At
<1>1. jr.phase \notin Undecided \cup {"NONE", "COLLECTION_COMMITTED"}
  BY <1>0 DEF Ordered
<1>2. jr'.op = jr.op /\ jr'.targets = jr.targets
  <2>1. ~Genesis /\ ~Execute
    BY <1>0, ExecuteKinds DEF Genesis, At
  <2>2. ~RecoverCommitted /\ ~StartRollback /\ ~RollbackIntent
    BY <1>0, <1>1 DEF RecoverCommitted, StartRollback, RollbackIntent, AtHead, Undecided
  <2>3. ~\E p \in Procs : BeginNext(p)
    BY <1>1 DEF BeginNext
  <2>4. CASE Quiet \/ Grows
    BY <2>4 DEF Quiet, Grows
  <2>5. CASE Cleanup \/ StartCompaction \/ SealOutcome
    BY <1>0, <2>5, ReceiptFields, PlainAppends, RemovalNames DEF Cleanup
  <2> QED BY <1>0, <2>1, <2>2, <2>3, <2>4, <2>5, StepKinds
<1>3. pc'[R] \in RecoveryStages
  BY <1>0, TurnsStep DEF Turns, R
<1> QED BY <1>2, <1>3, Passes DEF StuckIn, RollbackTooWide, Narrow

LEMMA StuckStep == IInv /\ Released /\ Stuck /\ [Next]_vars => Stuck'
BY ForeignStays, TornRawStays, TornProcessedStays, NoGenesisStays, UnmarkedTreeStays,
   UnrecordedTemporaryStays, UnrecordedBackupStays, UnrecordedExchangeStays, TooWideStays,
   RetirementTornStays DEF Stuck

\* Each of the ten states is one that no later pass, save, crash or exit gets
\* out of: what the collector sees then needs a repair outside the program.
THEOREM WedgedStays == Spec => WedgedForGood
<1>1. AtRest /\ Wedged => Stuck
  BY DEF AtRest, Wedged, Stuck, StuckIn, Heads, RecoveryStages, At
<1>2. Stuck => Wedged
  BY DEF Stuck, StuckIn, Wedged
<1> QED BY Inductive, ReleasedAlways, StuckStep, <1>1, <1>2, PTL DEF Spec, WedgedForGood
=============================================================================
