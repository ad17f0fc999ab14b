# Coin Analyzer: a verification project

Coin Analyzer is a desktop application for coin collectors. Most of its code is
sequential computation and presentation: recognition, grading, market scoring, Tk
dialogs. The part that is not is what happens to the collector's files. There is no
database and no server: the collection, the photos, the intake of phone photos, the
import journals and the backups are plain files, replaced by any number of application
windows, by a phone service and by a restore, any of which may die or fail at any call.
What the program promises about them is what is modelled here:

- the **durable desktop importer** (`capture_import/`) takes a capture package, copies
  its images into a managed directory, publishes a new collection file, and promises that
  whatever dies in between, the import ends in one of two outcomes, recorded once and
  truthfully, and that nothing is deleted without a durable intent. It exists twice: for
  packages as they come (journal schema 2) and for packages whose photos were processed
  first (schema 3);
- the **ordinary writers** of the collection hold all of it in memory and must not
  overwrite what another window saved;
- the **import dialog** in front of the importer prepares and commits in threads, and can
  be closed while they run;
- the **phone entry** turns two photos into one coin through three files that nothing
  ties together but the order of the calls;
- the **restore** puts a backup over live files while others go on saving.

The models are translated from the Python sources. `docs/` is used only as the other side
of a comparison: three runs check a sentence of it and find it violated (section 5).
`PROJECT.json` maps each definition to the lines it stands for.

## 1. Inventory

| Component | State it keeps | Operations | Status |
|---|---|---|---|
| Transaction and recovery, Schema 2 (`schema2_runtime.py`) | none but files: everything is re-read from the journal and the disk | `commit`, `execute`, `reconcile_pending_imports`, `_recover_committing`, `_finish_success`, `_finish_rollback`, `_resume_cleanup` | modelled |
| Unified recovery, Schema 3 transaction, processed snapshots (`recovery.py`, `schema3_runtime.py`, `processed_snapshot.py`, `coordinator.py`, `transaction.py`) | a second snapshot beside the raw one | `prepare`, seal, `execute_genesis`, both orphan scans, the dispatch of a pass, one deletion per pass | partly |
| Collection publication (`collection_persistence.py`) | D (collection file), T (candidate under a planned name), B (Windows backup) | `create_temporary`, `create_windows_backup`, `publish`, `observe_planned` | partly |
| Cleanup executor (`cleanup_persistence.py`) | the objects named by a cleanup operation | `remove`; `verify_operation`, `begin`, `advance`, `release` | modelled |
| Package snapshots (`snapshot.py`) | a directory with owner marker, lease and package copy | `create_snapshot`, `resume_snapshot`, `preserve_snapshot`, `cleanup_snapshot`, `cleanup_orphaned_snapshots` | partly |
| Managed images (`image_store.py`) | an image tree with an owner marker | `copy`, `verify`, `ownership_descriptors` | partly |
| Operational journal (`durable_repository.py`) | a directory with an owner and an immutable chain of generations | `create`, `append`, `load`, `list_heads` | partly |
| Terminal compaction and history (`terminal_persistence.py`) | manifest, pending record, history record | `compact`, `resume_compaction`, `resume_pending`, `_retire` | modelled |
| Import lock (`lock.py`) | a lock file with an owner identity | `acquire`, `release` | partly |
| Collection model and its writers (`coin_collection.py`, `numista_importer.py`, `managed_media.py`, `atomic_json.py`) | the collection file; per window the coins in memory and the baseline they were loaded from; photo copies | load, add, CSV and Numista import, update, update with photos, delete, `mutate_fields_conditionally` | partly |
| Phone intake and phone entry (`phone_intake.py`, `phone_entry_service.py`, `phone_intake_dialog.py`) | pairs of photos with save intents; an audit of drafts | confirm, swap, release, reserve, complete, clear, reconcile; create, verify, save, reconcile | modelled |
| Backup packages and session state (`backup_manager.py`, `persistence_manager.py`) | the session state file, its copies, the backup archives | `restore_from_backup_package` with its pre-restore backup, `save_state`, `clear_state` | partly |
| Schema 1 (`transaction.py`, `journal.py`) | one mutable journal file | not composed by the application | not modelled |
| Import dialog and its workers (`ui.py`, `standalone_image_intake.py`) | per dialog: flags `_closed`, `_committing`, the queue, the prepared import; a preparing and a committing thread; the temporary package adapted from two images | `_start_prepare`, `_poll`, `commit`, `cancel`, `_finish_success`, `_show_error`, `release` | modelled |
| Workspace, prepared artifacts, import workflow (`workflow_workspace.py`, `workflow_models.py`, `workflow_execution.py`) | a directory per worker; open files of it, leased or claimed | `close`, `claim`, `close_if_unclaimed`, `execute` with its cancellation checks | partly |
| Package validation, duplicate preview | none | pure functions of one immutable file | not modelled |
| OCR review, event bus, recognition, grading, deal hunting, market, cloud, GUI, benchmarks | computation and presentation | | not modelled |

**How they interact.** The import dialog (`ui.py`) starts a worker that runs a recovery
pass, processes the photos in a workspace, makes the snapshots and queues them; the dialog
polls the queue and shows a preview without any lock, or is closed, which the worker learns
from a flag. The user's confirmation takes the
import lock; the transaction appends a generation to the journal before and after each
effect on disk. A pass takes the same lock, lists the journal heads, finishes a pending
history record, scans for orphaned snapshots and then resumes the heads from their
phases. Ordinary saves of the collection, those of the phone service included, take the
import lock for the time of the save and compare the file with the bytes their window
loaded. The phone intake and its audit have locks of their own. A restore takes no lock:
it recognises files by their identity. Processes share nothing but these files and the
operating system's advisory lock on a snapshot's lease.

**What is hard.** A crash between any two durable effects; an operation that raises where
its caller or a later pass must cope with what it left; a second window whose recovery
meets a live preview; an ordinary save between preview and commit, or after a crash; a
recovery that is itself interrupted; a save that is published and then ends in an error,
so that nobody knows whether it happened; a pair of photos swapped between the review and
the save; a collection read under one lock and what was found written under it later, while
another window changes the collection under another; a saver that replaces a file between
the looks of a restore; a dialog closed between a worker's last look at the flag and its
answer, or while the worker still reads the package the application deletes. `PROJECT.json`
lists each as a hazard at its line, with the properties that guard it.

**What makes each part correct.**

- publication: the collection holds all the new coins or none, and the old bytes survive
  until the decision is durable (`BaselineKept`, `ImagesOutliveTheCoins`,
  `EvidenceOutlivesUse`);
- the decision: made once, in the journal, and never revised (`DecisionIsFinal`, and
  `ImplementsPromise` for both schemas);
- cleanup: nothing goes without a durable intent naming it (`DeletesUnderAuthority`), and
  all of it goes before history is written (`CleanupPrecedesHistory`);
- snapshots: the evidence recovery needs is not mistaken for an orphan (`EvidenceKept`);
- journal and history: the import is always under one authority (`OneAuthority`), history
  is true (`HistoryIsTrue`), the journal is the log it is taken for (`ImplementsLog`);
- lock: one worker at a time (`Serialized`);
- recovery: an interrupted import settles (`SettlesOrWedges`);
- the dialog: what a worker makes has one owner at a time, whoever closes the window
  (`WorkerLeavesNothing`, `CommitIsUndisturbed`, `PreviewIsBacked`), the files a worker or
  a review still uses are there, unless the user has closed the dialog
  (`FilesOutliveTheirUse`), the application learns of what was published
  (`ApplicationLearnsOfImport`), and no dialog waits for ever (`EveryDialogIsAnswered`);
- ordinary writers: together they are a collection that is edited atomically
  (`AtomicCollection`), a window's memory is what it may replace (`MemoryIsBaseline`), a
  coin's photo is never removed (`PhotosKept`), a damaged file is not saved over
  (`DamagedFileIsKept`);
- phone entry: two photos make at most one coin (`OneCoinPerPhoto`), an intent is only
  withdrawn when the coin is known not to be there (`IntentStands`), and the three files
  agree (`AuditAgrees`, `CoinsHavePhotos`), SAVED being written on evidence only, though
  the evidence may be out of date by then (`SavedOnEvidence`);
- restore: no version of the collection is lost (`VersionsKept`), and the result it
  reports is true (`AllOrNothing`).

## 2. Modules

| Module | What it is |
|---|---|
| `AtomicImport` | the abstract promise: an outcome decided once, a record that agrees with it |
| `PackageImport` | the Schema 2 importer and its recovery: one import, two processes, the whole protocol |
| `JournalRules` | the rules by which `append` and `load` judge a generation, over `PackageImport` |
| `ProcessedImport` | the Schema 3 importer and the unified recovery pass |
| `AppendOnlyLog` | the abstract journal: a log that grows by one entry at its newest head |
| `GenerationJournal` | the journal directory: candidates, renames, reconciliation; implements `AppendOnlyLog` |
| `ImportBudget` | one import in numbers, with the limits of the code |
| `CollectionEdits` | the collection as data, and what each edit makes of it |
| `AtomicCollection` | the abstract collection: every edit at one moment or not at all |
| `CollectionWriters` | windows that load, edit and save the collection; implements `AtomicCollection` |
| `PhoneEntry` | photo pairs, save intents, drafts, and the save of their coin |
| `BackupRestore` | a restore over live files, and the savers beside it |
| `ImportDialog` | import dialogs, their two workers, and what passes between them |
| `MC...` | instances of these for TLC: sample edits, orders, symmetry sets |
| `PackageImport_proofs`, `GenerationJournal_proofs`, `ImportBudget_proofs`, `CollectionWriters_proofs`, `ProcessedImport_proofs`, `ImportDialog_proofs`, `PhoneEntry_proofs`, `BackupRestore_proofs` | invariants and theorems |

`PackageImport` takes an append as one step and its rules for granted. `GenerationJournal`
is the level below, and its refinement is why one step is enough; `JournalRules` checks
the rules against every generation `PackageImport` builds. `ImportBudget` is the same
import with the interleaving left out and the numbers put in. `ProcessedImport` keeps the
same `AtomicImport`. `CollectionWriters` sees an import as the one step its publication
is, and `PackageImport` sees the ordinary writers as one action, `Save`: each is what the
other promises. `ImportDialog` is the level above the importers: one process with several dialogs, where a
journaled import is one step and a crash does not happen. `PhoneEntry` and `BackupRestore`
take a save of the collection as the
short sequence that other processes can get in between.

### PackageImport: state

| Variable | In the code |
|---|---|
| `dest` | whose bytes the collection file D holds: `baseline` (as previewed), `prospective` (with the new coins), and `+` for either one edited and saved afterwards. With `HasBaseline = FALSE`, `baseline` stands for "no such file" |
| `temp` | what is under T's planned name: nothing, a candidate cut short, the prospective bytes, or (after a POSIX exchange) the baseline |
| `files` | the other owned objects on disk: the snapshot's directory, owner, lease and package; the image root, its marker and the images; the Windows backup |
| `jr` | the newest generation: phase, verified images, artifact states, whether the snapshot is referenced, the audit, the last cleanup operation (`op`, `targets`, `receipts`, `status`) and the compaction stage |
| `store` | the journal directory: under its active name, its `.retire-` name or gone; how many generation files it holds; owner; manifest |
| `history` | the terminal record: absent, cut short or complete under its temporary name, pending, final |
| `pc` | where the importer and the recovery process stand; the names are stages of `commit`/`execute` and of `reconcile_pending_imports` |
| `lock`, `lease`, `alive` | the lock file (free, held, stale after a crash), the holder of the advisory lock on the lease, whether the snapshot's maker still runs |
| `failures`, `saves` | counters of the environment's steps, bounded by `MaxFailures` and `MaxSaves` |

### PackageImport: actions

One action is one durable effect, because a crash can fall between any two.

- **Preparing**: `CreateSnapshot`, `Cancel`, `Commit`, `RemoveUnjournaled`
  (`snapshot.py`, coordinator).
- **Transaction** (`execute`): `CollectionChanged`, `CreateJournalDirectory`,
  `WriteJournalOwner`, `Genesis`, then in `Execute` the copying (`StartCopying`,
  `MakeImageRoot`, `WriteMarker`, `WriteImage`, `RecordImage`, `FilesReady`) and the
  publication (`DeclareCommit`, `CreateTemporary`, `RecordTemporary`, `WriteTemporary`,
  `LinkBackup`, `RecordBackup`, `Publish`, `RecordExchange`, `RecordCommitted`).
- **Cleanup** (both processes): `BackupIntent`, `SnapshotIntent`, `RollbackIntent`,
  `RemoveTarget`, `ReceiptTarget`, `CompleteCleanup`.
- **Compaction and retirement** (both): `StartCompaction`, `PublishManifest`,
  `SealOutcome`, `PublishPending`, `DeletePartialRecord`, `RenameForRetirement`,
  `DeleteRetired`, `RemoveRetirement`, `Finalize`.
- **Recovery**: `StartRecovery`, `ResumePending`, `Scan`, `CollectOrphan`,
  `NothingToRecover`, `ResumeCompaction`, `DeletePartialManifest`, `OutcomeRefused`,
  `RecoverCommitted`, `FinishSuccess`, `StartRollback`, `ResumeRollback`, and
  `FailClosed` for every check that raises (`Blocked` collects them).
- **Environment**: `Abort` (an operation raises), `Crash` (a process dies; `Torn` says
  what a write cut short leaves), `Exit`, `ClearStaleLock` (the operator), `Save`.

Abstractions, besides those listed at the head of the module: objects carry no digests or
identities, only whose bytes they hold, so an object replaced by a stranger's with the
same name is not modelled; time stamps, generation digests and file permissions are left
out; verification steps that change nothing are guards.

### JournalRules

`Valid` is what `OperationalJournalGeneration.validate` and `CleanupOperation.validate`
ask of one generation, `Legal` what `_validate_transition` asks of two, clause by clause.
The runtime builds generations with `replace` and the repository judges them; nothing ties
the two together but tests of single steps. `AppendsAreLegal` says that a generation built
in any reachable state, whatever crashes and passes led to it, is accepted: a refused one
would strand an import that has already changed the disk.

### GenerationJournal

| Variable | In the code |
|---|---|
| `dir` | the import's directory: absent, without a whole `owner.json`, or owned |
| `files` | the generation files in the order of their sorted names, each with the number in its name |
| `cand` | the `.next` file: number and body, cut short (`Partial`) until written and synced |
| `known` | how many generations lie before and at the head a client last read or wrote |
| `call` | the call in progress: `create`, `append` or `load`, and how far it is |
| `failures` | crashes and raised errors, bounded by `MaxFailures` |

`Create`, `WriteOwner`; `AppendGeneration`, `Load`, then `Refuse`, `PublishFound`,
`DeletePartial`, `Answer` or `Admit` (what `_load_chain_bound` makes of the directory);
`OpenCandidate`, `FillCandidate`, `Publish`, `Return` (`_write_and_publish`); `Raise` and
`Crash` at any point. The lock serializes calls, not clients: a head may be old by the time
it is appended to, and a candidate may belong to a call that died, so an append can take
effect without its caller hearing of it. `Sorted` puts a file where its name sorts; that it
always lands at the end is a consequence, not an assumption.

### ImportBudget

Counts only: objects of the image tree, verified images, generations about T and B,
targets and receipts of the last cleanup, and the number of the head. The actions are
those of `PackageImport` that write a generation or an image object. The constants are
those of `limits.py` and `durable_models.py`, unscaled; an import is a number of coins and
of photos within them, on one of the platforms.

### ProcessedImport

| Variable | In the code |
|---|---|
| `world` | the platform, and whether there was a collection at preview: four worlds in one run |
| `dest`, `temp`, `jr`, `history`, `lock`, `alive` | as in `PackageImport`; `jr` names two snapshots (`rawRef`, `procRef`) |
| `files` | the raw snapshot (`package`, `rawRoot`), the processed one (`contents`, owner file, `procComplete` receipt, `procRoot`), the image tree, the backup |
| `store` | the journal directory (without a chain, with one, under its `.retire-` name, gone) and its manifest |
| `pc`, `lease` | the stages of coordinator, transaction and unified pass; whether the importer has its leases |

- **Preparing**: `CreateRaw`, `BeginSeal`, `Seal`, `Cancel`, `Commit`,
  `RemoveUnjournaled`, `Refuse` (`prepare`, `seal`, `cancel`, `execute_genesis`).
- **Foreground** (`schema3_runtime.py`): `CreateJournalDirectory`, `Genesis`, the
  actions of `Execute`, which are those of `PackageImport` in Schema 3's order, and
  `BeginNext`, the first deletion intent of a success.
- **Unified pass** (`recovery.py`): `ListHeads`, `RawScan`, `ProcessedScan`,
  `NothingToRecover`; then by the head's phase `ResumeCleanup`, `RecoverCommitted`,
  `StartRollback`, `RollbackIntent`, `ResumeCompaction`; `FailClosed` for every check
  that raises, which `Blocked` collects.
- **Deletion**: `RemoveTarget`, `ReceiptTarget`, `CompleteCleanup`, `ReleaseProcessed`.
  A pass deletes one object and ends, so an import is finished by as many passes as it
  has targets, and the collector may work between any two.
- **Compaction and retirement**, **environment**: as in `PackageImport`.

A rollback looks at the collection only while it is being published, and no later pass looks
at it before it deletes an image, which is why `EvidenceOutlivesUse` relates the two.

### CollectionEdits, AtomicCollection, CollectionWriters

A coin is its identity text, field by field with an absent field apart from an empty one
(`from_dict` turns the first into the second, `mutate_fields_conditionally` does not), and
the managed photo it refers to.

| Variable of `CollectionWriters` | In the code |
|---|---|
| `file` | `collection.json`: coins, `Missing` or `Corrupt` |
| `lock` | the import lock file: its holder, `"stale"` after a crash or a failed release |
| `media` | the managed photo copies |
| `load`, `items`, `baseline` | `load_state`, `items` and the loaded baseline of each window |
| `stage`, `edit`, `expected`, `payload`, `answer` | the call of each window: how far, for what, over which bytes, to write what, and how it ended |
| `unsettled` | windows whose last save ended in an unexpected error |
| `edits`, `faults` | counters of the bounds |

`Load`; `Ask` with any of the edits; `Acquire` or `CannotAcquire`; `Compare` (a save) or
`CompareFields` (the three-way comparison of a conditional mutation); `Publish` or
`CannotWrite`; `Adopt`, `Release`, `CannotVerify`, `CannotRelease`; `Close` at any point, a
crash among them; `ClearStaleLock`, the operator. A call that fails restores memory and
media as its own `except` clauses do, which is not the same for every edit (section 5).

### PhoneEntry

| Variable | In the code |
|---|---|
| `collection` | the coins saved with an intent: the roles of their photos, and whether edited since |
| `fresh` | whose memory still has the bytes of the file |
| `importLock`, `intakeLock`, `auditLock` | the three lock files |
| `media` | the managed copies of each coin's photos |
| `published` | the roles each coin was saved with: a history no step reads, for `SavedOnEvidence` |
| `pairs` | the two intake files: store, roles, state (`READY`, `SAVING`, `SAVED`, released), reserved coin |
| `seen` | the pair whose coin an actor has found on disk, inside `complete`, where it holds the intake's lock and is about to write SAVED |
| `audit` | the phone service's drafts |
| `pc`, `job` | what each window and the service are doing, and with what |

`ConfirmPair`, `Swap`, `ReleasePair` are the dialog's operations, one locked
edit each; `Review`, `Recheck`, `Cancel` the visual review; `Reserve` and
`ReserveUnidentified` write the intent; `Lock`, `Copy`, `Publish`, `RollBack`, `Unlock` are
the save; `Look` and `Complete`, or `Clear`, what its caller does with the outcome, as
`AfterVisual`, `AfterUnidentified` and `AfterPhone` have it. `complete` reads the collection
and writes the intake under the intake's lock alone, so it is two steps (for Reconcile Save:
`Seek` and `Reconcile`), between which another window may edit or delete the coin. An edit
of the intake or the audit that fails ends the call when the lock is to blame; any other
error goes where the caller sends it, which for the phone service is `Mark`. `Draft`, `Verify`,
`BeginSave`, `CreateEntry`, `Pack`, `RecordPersisted`, `Reopen`, `Finalize`, `Mark` and
`ReconcileEntry` are the phone service. `EditCoin` is another edit of a saved coin, `Load`
a reload, `ClearLocks` the removal of lock files left behind.

### BackupRestore

| Variable | In the code |
|---|---|
| `live`, `data` | the file object at each name (its identity), the bytes of each object in the order they were made |
| `temp`, `old`, `kept` | the objects under the `.new` and `.old` names of a running restore, and those left there by one that is over |
| `plan`, `at`, `pc` | the restore's plans, file by file: original, new file, displaced, published, ambiguous |
| `pre`, `zips` | the pre-restore backup: checksum and bytes, and those whose two agree |
| `result` | what the restore reports: complete, failed, or rollback incomplete |
| `seen`, `saver`, `writing`, `copies` | the savers: what a window loaded, who has the lock, who has truncated the session file, and its copies |

Forward: `Stage`, `Hash`, `Archive`, `Open`, `Check`, then per file `Displace`,
`Displaced`, `Publish`, `Published`, then `Clean`. Backward, from the last plan to the
first: `Undo`, `Unpublish`, `Unpublished`, `PutBack`, `Discard`. Beside it `CheckSave`,
`Replace`, `Reload` of the collection, and `BackUpState`, `Truncate`, `Write`, `Clear` of
the session. Each rename of a restore lies between two looks at identities, and each of
the three is a step of its own, because a saver can come between them.

### ImportDialog

| Variable | In the code |
|---|---|
| `worker` | the thread of `_start_prepare`: where it stands, how its preparation came out, its workspace, what it holds open there |
| `package` | the two snapshots on disk (`snap`), the lease (a live handle), `PreparedPackageImport.closed` (`spent`), and whether a removal of theirs raised |
| `commit` | the thread of `commit`: where it stands, whether the collection was published, and whether it was loaded again or the load failed |
| `window` | `_closed`, `_committing`, `_prepared`, whether an `after(50, _poll)` is pending, what is shown (the review of OCR among it), whether an error was |
| `source` | the package the worker reads: one the user chose, one adapted from two images, or that one deleted |
| `queue` | the answers of both workers |
| `lock` | the dialog whose worker holds the import lock |

Every variable but the last is a function of the dialogs: windows are modal, so one is open
at a time, but the worker of a closed one goes on, and its snapshots, its lease and the lock
meet the next dialog's recovery.

`Prepare` is the first worker: `Reconcile`, `Recovered`, `MakeWorkspace`, `RunStages`,
`HandOver`, `BeginSnapshot`, `CopyPackage`, `BeginSeal`, `Seal`, `Deliver`,
`LeaveWorkspace`, `Report`, `ReleaseSource`. A look at the flag, an operation that raises
and the clean-up each of them causes belong to the action in which they happen. `Commit` is
the second: `BeginCommit`, `TakeLock`, `Genesis`, `Publish`, `EndCommit`. The window has
`Open`, `Poll`, `Import`, `EndReview`, `Cancel`; `Collect` is Python's collector, which closes
the lease of a handle nobody holds.

The application passes `on_close=source.release` for what it adapted
(`coin_collection_gui.py:745`), not `on_source_released`. So `ReleaseSource`, the worker's
call of `_release_source_once`, deletes nothing, and `Destroys` deletes the source with the
window, whether or not the worker still reads it. `Finishes` loads the collection again
before it closes; the load may fail, which `load_collection` records and does not raise.

## 3. What TLC checks

| Run | Instance | Distinct states | Shows |
|---|---|---|---|
| `import` | 2 images, POSIX exchange, baseline, 2 failures, 1 save | 18,836 | all safety invariants and action properties of `PackageImport`, the refinement of `AtomicImport`, the journal's rules (`AppendsAreLegal`), and which imports recovery finishes |
| `windows` | 1 image, hard link and `ReplaceFileW` | 15,876 | `SettlesOrWedges` for the other publication protocol; its safety is proved (section 4) |
| `generation_journal` | 2 clients, 3 bodies of which 1 final, generations 0 to 3, 3 failures | 32,043 | the directory stays readable, implements `AppendOnlyLog`, and settles its candidates |
| `import_budget` | 1, 98 and 85 coins with 2, 196 and 255 photos, both platforms, with and without baseline | 1,874,289 | `WithinBudget` |
| `processed_import` | 2 images, four worlds, 3 failures, 2 saves, the width of an operation 10 | 196,064 | `EvidenceOutlivesUse`, the refinement of `AtomicImport`, and which imports the unified pass finishes |
| `writers` | 2 windows, 2 coins, 2 fields, 1 photo, 8 requests, 3 of them in a behaviour, 2 faults; no file, a damaged one, a legacy record | 146,514 | `MemoryIsBaseline`, `PhotosKept`, `DamagedFileIsKept`, the refinement of `AtomicCollection` |
| `phone` | 2 windows and the phone service, 2 photos each, 2 pairs, 2 coins, 1 fault | 730,245 | `OneCoinPerPhoto`, `IntentStands`, `CoinsHavePhotos`, `AuditAgrees`, `SavedOnEvidence` |
| `restore` | 2 windows, session and collection, 1 restore, 2 saves, 1 fault | 1,193,834 | `VersionsKept`, `AllOrNothing` |
| `dialog` | 2 dialogs one after the other, each in either mode, 2 failures | 186,604 | `FilesOutliveTheirUse`, `WorkerLeavesNothing`, `CommitIsUndisturbed`, `CanBeCancelled`, `PreviewIsBacked`, `EveryDialogIsAnswered`, `ApplicationLearnsOfImport` |
| `rollback_fits`, `retirement_resumes`, `writes_fail_closed` | the instances of `import_budget`, `processed_import`, `writers` | | a sentence of the documentation, violated (section 5) |

Types are proved (section 4) for the modules that have proofs, so their `TypeOK` is in no
run; that of `BackupRestore` documents the variables.

**Bounds.** Two failures are what it takes to reach every branch of the importers: the
first interrupts the importer, the second the recovery pass that resumes it; a third adds
no combination of durable state that the second cannot leave, since all recovery state is
on disk and each pass starts from it. `processed_import` has a third all the same, for it
is a snapshot's removal, an import and its recovery that can each be interrupted. Two
images give the copying a middle and the evidence a proper subset. One save puts foreign
bytes into the collection at any point, two put them there before and after publication.
Recovery passes are not bounded. `MaxTargets = 10` stands for the 301 of the code: with two
images a rollback has ten targets once all of them are copied and twelve with T and the
backup, so both sides of the limit are met. Two clients and four generations give the journal an old head, a
newer one and a closed one; three failures let a candidate be abandoned, found by a load
that also fails, and found again. In `ImportBudget` failures are not bounded, and the sizes
are the extremes: 98 coins with two photos are the most whose rollback fits, and 255 photos
the most an archive holds.

Three requests let a window save over what another saved over what it had loaded; two
faults let a published save fail in its release and the lock it left be cleared and failed
again. Two pairs may compete for photos, for an intake and for a coin's identity; one fault
is enough to end any of the saves in doubt, and the other window and the service go on. Two
files let a restore fail with one published and one not; the session comes first because it
is the one nothing protects. One fault interrupts the forward or the backward part, and a
second only stops the backward part earlier than the first could. In these two the bounded
inputs run out, so deadlock is not checked: a collector may simply stop.

Two dialogs are what it takes for a worker to meet the recovery, the lock and the snapshots
of another; windows being modal, a third would only repeat the meeting. Two failures let an
operation fail and the clean-up that follows it too, in one dialog or in both, or a commit
be published, raise, and the user's Cancel fail; the dialogs
come to an end, so deadlock is not checked there either.

**Fairness.** Weak fairness of the importer (`execute` is one call that runs to its end or
raises), of the recovery pass (likewise), of `StartRecovery` (the dialog, or for Schema 3
the application's start, comes again while something may be left) and of `ClearStaleLock`
(the operator removes a dead lock, as the error message asks). None for the user's choice
to commit or cancel, nor for failures, saves or closing the window. `GenerationJournal`
assumes the same of a call in progress and of a later load (recovery loads every journal it
lists). `ImportDialog` assumes that a started worker runs on, each of its calls returning
or raising, and that the event loop calls a pending `_poll`; it does not assume that anybody
presses a button. That is all `ApplicationLearnsOfImport` needs: a published commit answers,
and its window polls, unless a Cancel that failed before Import has set the flag
(`CancelReturns`, section 5), which the property excepts. The last two of the importer's assumptions are about people: without them an
interrupted import simply waits, and nothing could be said about recovery. The other
modules claim no liveness: their callers may give up at any point.

**The liveness claim.** "Every interrupted import is finished" is false in this code, and
`SettlesOrWedges` says exactly how far it goes: a journaled import reaches final history
*unless* it comes to rest in one of the durable states of `Wedged`, and `WedgedForGood`
says that from those no recovery pass escapes, so the list is both complete and minimal
for these instances. Some of the states are deliberate. For Schema 2:

| State | Why recovery stops |
|---|---|
| `ForeignCollection` | the collection was edited by the application after a crash, before the decision: by design |
| `UnprovableSnapshot` | a half-made or half-deleted unjournaled snapshot: its ownership cannot be proved |
| `NoGenesis` | a journal directory without a first generation |
| `RollbackWithoutIntent` | the rollback phase is durable, its deletion intent is not |
| `PartialTemporary` | the candidate was cut short after its identity was recorded |
| `BackupReceiptOnly` | the backup's receipt is durable, the operation's completion is not |
| `SnapshotCollected` | the snapshot directory is gone while members of it still lack receipts: its parent cannot be opened |
| `OutcomeLost` | a rollback interrupted in compaction, before its record |
| `RetirementTorn` | the manifest or the retirement directory is gone, the record still pending |

`AwaitsExit` is not final: a snapshot given up by a process that still runs is refused
until that process exits.

For Schema 3, where the claim covers the snapshots of imports that were never journaled
as well:

| State | Why the pass stops |
|---|---|
| `ForeignCollection` | the collection was edited by the application after a crash, before the decision: by design |
| `TornRawOrphan` | an unjournaled raw snapshot was half made or half removed: its ownership cannot be proved, by design |
| `TornProcessedOrphan` | a cancelled preview, or an earlier scan, was interrupted while it removed a processed snapshot: the receipt is still there, what it counts is not |
| `NoGenesis` | a journal directory without a first generation |
| `UnmarkedTree` | the image root was made, its ownership marker was not |
| `UnrecordedTemporary` | the candidate was created, or cut short, and its identity or completion not recorded |
| `UnrecordedBackup` | the hard link was made and not recorded |
| `UnrecordedExchange` | the POSIX exchange was made and not recorded: T holds the baseline |
| `RollbackTooWide` | a rollback with more than 301 targets: its operation is accepted, its compacting generation is not (58 coins with two photos on the way have 302) |
| `RetirementTorn` | the journal directory is under its retirement name or gone, the record still pending |

`AwaitsExit` here is a stray snapshot whose maker still runs: it includes another window's
open preview, so while a preview is open elsewhere no pass gets past its processed
snapshot, and one undecidable head or orphan blocks the recovery of every other import.

Safety never depends on any of this: in each of these states the invariants hold, nothing
is lost, and the importer refuses to begin another import.

## 4. What is proved

The theorems hold for every value of the constants: any set of images, both platforms, with
and without a baseline, any number of failures and saves; any clients, bodies, windows,
coins, fields and edits. They use the modules' named assumptions only, which TLC evaluates
on every run: names that stand for different things are different, there is at least one
image, the platform constants are Boolean.

| Theorem | Property |
|---|---|
| `Inductive`, `TypeCorrect` (`PackageImport_proofs`) | the invariant `IInv`, and `TypeOK` |
| `HistoryTrue`, `ImagesOutlive`, `Authority`, `Serial` | `HistoryIsTrue`, `ImagesOutliveTheCoins`, `OneAuthority`, `Serialized` |
| `DecisionFinal` | `DecisionIsFinal` |
| `KeepsThePromise` | `ImplementsPromise`: the refinement of `AtomicImport` |
| `CleanupInductive` | the invariant `CInv` |
| `BaselineSurvives`, `EvidenceSurvives`, `CleanupFirst` | `BaselineKept`, `EvidenceKept`, `CleanupPrecedesHistory` |
| `DeletesAuthorized` | `DeletesUnderAuthority` |
| `RulesKept`, `WedgedStays` | `AppendsAreLegal`, `WedgedForGood` |
| `JournalInductive`, `JournalTypes` (`GenerationJournal_proofs`) | its invariant, and `TypeOK` |
| `AlwaysReadable`, `JournalImplementsLog` | `StaysReadable`, and the refinement of `AppendOnlyLog` |
| `ImportStaysWithinBudget` (`ImportBudget_proofs`) | `WithinBudget` |
| `WritersTyped`, `WritersExclude` (`CollectionWriters_proofs`) | `TypeOK`, and that two windows never compare and write together |
| `MemoryIsKept`, `DamageIsKept`, `PhotosStay` | `MemoryIsBaseline`, `DamagedFileIsKept`, `PhotosKept` |
| `WritersKeepPromise` | the refinement of `AtomicCollection` |
| `Inductive`, `TypeCorrect` (`ProcessedImport_proofs`) | its invariant `IInv`, and `TypeOK` |
| `EvidenceSafe`, `WedgedStays` | `EvidenceOutlivesUse`, `WedgedForGood` |
| `KeepsThePromise` | `ImplementsPromise`: the refinement of `AtomicImport` |
| `Invariant`, `TypeCorrect` (`ImportDialog_proofs`) | its invariant `IInv`, and `TypeOK` |
| `UsedFilesStay`, `WorkersLeaveNothing` | `FilesOutliveTheirUse`, `WorkerLeavesNothing` |
| `CommitsAreUndisturbed`, `DialogsCanBeCancelled` | `CommitIsUndisturbed`, `CanBeCancelled` |
| `PreviewsAreBacked` | `PreviewIsBacked` |
| `Inductive`, `TypeCorrect` (`PhoneEntry_proofs`) | its invariants `IInv` and `EInv`, and `TypeOK` |
| `PhotosMakeOneCoin`, `IntentsStand` | `OneCoinPerPhoto`, `IntentStands` |
| `CoinsKeepPhotos`, `AuditTrue` | `CoinsHavePhotos`, `AuditAgrees` |
| `EvidencedSaves` | `SavedOnEvidence` |
| `Inductive`, `TypeCorrect` (`BackupRestore_proofs`) | its invariant `IInv`, and `TypeOK` |
| `VersionsStay`, `AllOrNothingHolds` | `VersionsKept`, `AllOrNothing` |

**The argument for the import.** None of the properties is inductive alone. Whether history may say
SUCCEEDED depends on who may still move the collection, that on the phase, the phase on
which process works, and that on the lock. `IInv` stacks these facts, and each layer is
preserved by a step that starts with the layers before it:

1. `Turns`: whoever is in a working stage holds the lock, so importer and recovery exclude
   each other, and an orphan is only collected after its maker's death.
2. `Phased`: a stage is entered with its phase, and by `Turns` nobody else appends.
3. `Decided`: the audit is set exactly when the phase leaves the undecided ones; SUCCEEDED
   goes with a collection that holds the coins, ROLLED_BACK with one that does not;
   publication happens only in COMMITTING_COLLECTION, hence before any decision; a record
   carries the audit.
4. `Placed`: until a record exists the journal is whole under its active name; a record
   needs the sealed generation, which needs the manifest.
5. `Imaged`: a cleanup that may touch images belongs to a rollback, hence to a collection
   without the coins; and the tree is complete from FILES_READY on.
6. `Held`: until its journal is in cleanup, an importer in or past its preview has a whole
   snapshot and the lease.

The refinement maps the phase, the audit and the collection to `outcome` and the record to
`record`. `OutcomeSteps` and `RecordSteps` show that only `Genesis`, `Publish`,
`StartRollback` and `PublishPending` move them; everything else is a stutter. Note where
the commit point lies: at `Publish`, the namespace operation, and not at the generation
that records it.

**The argument for the deletions.** Why is the old collection still there when a rollback
needs it, and nothing else when history is written? `CInv` adds to `IInv` what the journal
says of the objects on disk:

1. `Orphaning`: recovery collects only a snapshot that no head names.
2. `Ordered`: what each cleanup operation names, and when; a rollback names the snapshot,
   the success operations only the backup and the snapshot.
3. `Emptied`: what is receipted is gone; what a rollback will not delete was never there
   (all but an empty candidate); a compacting import has nothing left that its outcome
   does not keep.
4. `Retained`: once D holds the coins, the baseline is in B or under T's name, as the
   platform has it, until its deletion is intended.

`EvidenceKept` is inductive beside them: the snapshot a generation names is whole until
its own cleanup begins. `CleanupPrecedesHistory` is `Emptied` at the moment the record is
written, and stays true because nothing is created after compaction has begun. An action
property is then a case for each action that deletes: either the intent names the object,
or the object is an orphan and no head names it.

**The argument for the wedged states.** `WedgedForGood` says that no pass, crash, fault or
ordinary save ever leaves one of the states of section 3. Each stops a pass at a known
point: `Stuck` keeps a state together with the stages a pass can reach in it, and is
preserved one state at a time (`HeadSteps` lists what a pass can do up to its dispatch).
`Placed` has what this needs of the rename to the retirement name; the processed importer
needs `Released`, that a snapshot its head no longer names is gone, or a pass could still
find it and take it for an orphan. A rollback too wide for an operation stays so because
its targets are chosen once, for all its passes.

**The argument for the journal.** Readability depends on every file having landed at its
place, and that on the writer being the one client whose head is newest. `Sound` says the
directory is a chain with at most the candidate its head authorizes; `Working` says what a
call in progress relies on: from `Admit` on its client knows the whole log, no candidate is
there but its own, and a call waiting in `load` is not yet entitled to anything. The lemma
`SortedLast` shows that in a chain the next number sorts to the end, `PublishChain` that a
rename extends the chain, and `PublishKeepsLog` that it does not change the log. So an
append takes effect in `FillCandidate`, when its bytes are synced, and not at the rename:
from there on every load publishes it. All other steps but `Tell` and `Crash` are stutters.

**The argument for the budget.** `Accounted` charges every generation to what the journal
shows for it (phase, verified images, artifact states, receipts), so that repeated attempts
are seen to cost nothing: a restarted pass resumes the same operation. The largest total is
an import interrupted at the brink of publication on Windows and rolled back:
2 * images + coins + 20, at most 630 of the 3583 generations of the normal budget. The
documented check against the reserve, which the code does not make, is not needed.

**The argument for the ordinary writers.** `IInv` of `CollectionWriters_proofs` says that a
window in a stage that holds the lock is its holder (`WritersExclude`), that between
comparison and release the file is what was compared, and that memory is the decoded
baseline of every window that is at rest and not unsettled. The refinement then has one
step that takes effect: `Publish`, or for a conditional mutation that finds its fields
already applied, `CompareFields`. The data lemmas (`NormalType`, `AfterType`) say that
decoding and editing a collection give a collection. For the photos, `PhotosInv` follows
the names: a name is used once, so until the edit that copied a photo has published,
neither the file nor another window, nor a payload on its way, refers to it, and its
rollback takes nothing a saved coin needs.

**The argument for the processed import.** The shape is that of the plain one, with two
snapshots, one deletion per pass, and a collector that runs between any two of them, so
that what one pass relies on was left to it by another, perhaps long before:

1. `Turns`, `Phased`, `Decided` as above; a stage of recovery has the phase it supposes
   because every pass dispatches on the head again.
2. `Ordered`: what each operation names, that a completed one has a receipt for every
   target, and that the raw snapshot is receipted only after the processed one has been
   released. That comes from the order of targets (`SnapshotRanks`, `AdvancingTarget`): an
   advancing rollback that still names the processed snapshot owes a part of it, and that
   part comes before any of the raw one.
3. `Imaged` and `Held`: a target is an image only in a rollback, hence in a collection
   without the coins; the raw snapshot is whole as long as the importer, or a head that
   names the processed one, needs it; the scans collect what no head names.
4. `Retained` and `Emptied`: T and B hold the baseline until the decision, and each operation
   begins when the one before has left nothing: a rollback names T unless nothing can be
   there, a success takes B or T first, the processed snapshot next, the raw one last.

`EvidenceOutlivesUse` is then read off the layers: `CompactedClean` shows that a completed
last operation, with `Ordered` and `Emptied`, leaves none of what a record calls cleaned.
Every constant is arbitrary, and so is the number of passes: in particular the width of an
operation and the number of images, which the run fixes, play no part.

**The argument for the dialog.** Each property is about one dialog, and `IInv` says of one
dialog what its threads may find of one another's work: `WorkerInv` the workspace at each
stage of the worker, `SnapInv` the snapshots it has made so far, `QueueInv` that at most one
answer of an import waits, and that a waiting preview has whole, leased snapshots,
`WindowInv` and `CommitInv` that Import is possible only before a commit and Cancel not
during one, so that window, queue and commit never have the same snapshots. What ties
dialogs together is the lock, and the orphan scan of `Recovered`: as it refuses what is
leased, a step of one dialog leaves the others as they were (`Others`), for any number of
dialogs behind the open one. `DialogsCanBeCancelled` says that a window whose
commit is over can be closed unless a removal already failed. For `UsedFilesStay` the
invariant has that an open review's source is not deleted and that a deleted one has a
closed dialog or a review that ended, hence a worker that reads no more: an answer of OCR
is queued only when the worker is past its last read. The effect lemmas say of each assignment what it does to the
fields of one record; the steps are proved from them.

**The argument for the phone entry.** That no photo is in two coins is a statement about the
collection, but nothing in the code compares coins: it follows from the intake. `PairInv`
says that two pairs of one intake that are not released share no photo, that a released
pair has no coin, and that no coin ID is in two intents; `CoinInv` that every coin on disk
has the pair it was saved for, with its photos (in either role: a swap may get in between,
section 5), and its copies. What keeps both while calls interleave is `Intents` and
`OneJob`: from the reservation until the save, or its undoing, is over, the pair carries the
intent of this call and of no other, because reserving asks for a READY pair and an intent
is dropped only by the call that has it. `AuditInv` follows the service: at which of its
steps the draft is SAVING and the pair READY, so that a draft finished as SAVED is a SAVED
pair with that coin. Releasing a pair is safe for a window that reviews another, as READY
means that no call has reserved it. Three lemmas carry the steps that do most, `Reserving`,
`Completing` and `Leaving`, for whoever makes them and whichever of the two edits' errors
follows.

`EInv` adds what survives the gap in `complete`. `PublishedInv`: a coin on disk has the roles
it was `published` with, whether or not it was edited since, and the coin of a save that has
yet to publish never was. `SeenInv`: the pair an actor has seen is SAVING or SAVED, with an
intent whose coin was published with the pair's own roles. The coin may go meanwhile; the
pair keeps all of this, because the actor has the lock of the intake, without which no pair
is swapped, released, cleared or reserved.
`SavedOnEvidence` is `SeenInv` at the moment of the write.

**The argument for the restore.** Nothing locks a restore against savers or against another
restore, so what it looked at may have changed by its next step. `IInv` therefore separates
what a restore knows of its own names from what it only hopes of the live ones:

1. `Flow`: the `.new` and `.old` names of a window, its plans and its place are its own, so
   for them a restore is a sequential program. On the way forward the files before the one
   at hand are replaced and those after it untouched; on the way back those before it can
   still be undone, and, as long as nothing was left, those after it are undone.
2. `Distinct` and `InPlace`: a rename moves an object and never copies or overwrites one,
   so an object has one name, and the object of a collection is never written to again:
   its bytes can be spoken of without the state. Only the session state is rewritten in
   place.
3. `BackingUp`, `BackedUp`: while an original is still in its place, the backup's checksum
   and its bytes are those of that very object; when the two agree, the finished backup
   has it. If the object went meanwhile, the later look at its identity fails.
4. `AsideSafe`: an original is moved aside after that look, but another object may be moved
   in its stead. Recognising it afterwards is what makes it one that is backed up; what is
   not recognised is ambiguous, and then never deleted. So `Clean` removes only what is
   safe, and `PutBack` brings back only what is.
5. `Replacing`: between a saver's comparison and its replacement a restore may publish,
   put back or move aside. Each of them makes live what is safe, or nothing.

`VersionsKept` is then a case for each way a name can be lost (`Moves` lists what a step
does to the names): most lose none, as the name written to is free, `Discard` loses the
package's file, `Clean` a safe one, and `Replace` one that is safe or was seen. For
`AllOrNothing`, `Gone` carries through a rollback that a deleted new file has no name left.
Identities are never reused in this model, and the proof depends on it (section 6).

**Only model-checked**: the liveness properties
(`SettlesOrWedges`, `CandidateSettles`, `EveryDialogIsAnswered`,
`ApplicationLearnsOfImport`) are out of the proof
system's reach, as is the ENABLED in their fairness.

## 5. Where code and documentation part

Three runs check a sentence of the documentation and find it violated; the quotations are
in the modules and in `PROJECT.json`.

- `RollbackFits` (`ImportBudget`): an interrupted import of 99 coins with two photos each,
  or of 74 with three, is within every limit of a package, and its rollback has more than
  the 301 targets an operation may name. The operation is refused after ROLLING_BACK is
  durable, and from there on the import is in `RollbackWithoutIntent`.
- `RetirementResumes` (`ProcessedImport`): the recovery matrix (PA-RM-31) wants the
  retirement of a Schema 3 journal resumed. The unified pass lists the heads first, and
  both the `.retire-` name and the absence of a head under a pending record raise there
  (`recovery.py:567-581`), so `resume_pending` and `_finalize_late_pending`, which would
  finish it, are not reached.
- `WritesFailClosed` (`CollectionWriters`): a CSV or Numista import puts its memory back on
  any exception, also when the save was published and only the release of the lock raised.
  The baseline is then the new file, memory the old coins, and the next save writes them
  over the imported ones.

Six more sentences are stated in the modules and do not hold there, each of them at the
instance of its module's run; no run of its own repeats them.

- `RoleChangeInvalidatesSave` (`PhoneEntry`; `PHONE_INTAKE.md:16`): a swap between the recheck of the reviewed
  roles and the reservation goes unseen; the coin is saved with the reviewed roles, and
  `complete` and Reconcile Save refuse the swapped pair for good.
- `CancelLeavesNothing` (`ImportDialog`; `DESKTOP_PACKAGE_IMPORT_ARCHITECTURE.md:173`): between the worker's last look at `_closed` and the
  poll of its answer, a Cancel finds nothing to remove and takes the poll with it; the sealed
  snapshots stay, and recovery refuses them for as long as the process lives.
- `CancelReturns` (`ImportDialog`; the message of `ui.py:506`): a Cancel that cannot remove the snapshots leaves the
  window open, its flag set and Import enabled. Import then starts a commit whose answer
  nobody polls: `_committing` stays set, and the modal window can no longer be closed. The
  import itself is whole, but the application never hears of it, which is why
  `ApplicationLearnsOfImport` leaves such a window out.
- `SourceOutlivesWorker` (`ImportDialog`; `ui.py:348`, "after the worker stops using it",
  and `SPRINT_20_END_TO_END_DESKTOP_OCR_WORKFLOW.md:103-104`): Cancel closes the window and
  so deletes the adapted package while the worker may be reading it. The worker then fails
  behind a window that is gone. `FilesOutliveTheirUse` says that this is the only way a
  worker loses its source, and that a review never loses its photos.
- `FailedReloadIsTold` (`ImportDialog`; `DESKTOP_PACKAGE_IMPORT_ARCHITECTURE.md:733`): a load
  that fails after the import leaves an empty list and the state FAILED with a print; the
  window says "Imported successfully" and goes. Nothing is lost, as a collection that was
  not loaded refuses every save (`DamagedFileIsKept`), but the user is not told why.
- `CleanupFailureIsShown` (`ImportDialog`; `workflow_workspace.py:51`): with OCR the answer is queued inside the
  workspace; if removing it then fails, the error comes second and is never polled.

**The recovery tables of `docs/architecture/durable-persistence.md`.** The wedged states of
Schema 2 (section 3) contradict several of its sentences. They are shown by the runs
`import` and `windows`: `SettlesOrWedges` would fail without each of the states, and
`WedgedForGood` shows that no pass leaves it.

- `RetirementTorn`: the pending record is final authority, but `resume_pending` wants the
  retirement directory and its manifest, which `_retire` deletes before the last rename.
- `RollbackWithoutIntent`: a crash between ROLLING_BACK and its intent; the next pass
  appends the phase again and the transition is refused.
- `OutcomeLost`: a resumed compaction of a rollback rebuilds its payload without the error
  category, which compaction has cleared.
- `BackupReceiptOnly`: the backup's receipt changes the state its resumption asks for.
- `SnapshotCollected`: the first receipt drops the snapshot reference, and the orphan scan,
  which runs before any head is resumed, then refuses the remains.
- `NoGenesis`: line 620 wants an owner without a genesis removed; it is refused.
- Line 332 wants a candidate whose identity was not yet recorded examined and removed; a
  rollback passes over it and leaves an empty file (`CleanupPrecedesHistory` says that it
  is never more). Line 1040 wants one cut short afterwards removed too; it blocks its
  rollback (`PartialTemporary`).

**Smaller observations, met while modelling.**

- Unified recovery deletes one object per pass, and a pass runs when the dialog opens or
  the application starts: an interrupted import of many photos takes as many of those.
- `update_collection_item` rolls back the managed photos of a save that was committed when
  the release of the lock raises (`coin_collection.py:1862-1870`), so a saved coin can lose
  its photo: `PhotosKept` has to except a window that is unsettled. Add, update and delete
  keep the refused edit in memory in the same case.
- `PHONE_ENTRY_REVIEWED_SAVE_SERVICE.md` has every ambiguous save become
  RECOVERY_REQUIRED; a lock error escapes the service's handlers and leaves SAVING, and the
  visual review does not catch it either (`coin_collection_gui.py:1071`). The intent stands,
  and Reconcile settles it. The phone service never calls `clean_save_failure`.
- `complete` reads the collection under the intake's lock and writes SAVED after it. Another
  window may edit or delete the coin in between, so a pair can become SAVED when its coin is
  no longer on disk, or no longer matches: with "the coin matches at the moment of the
  write" as a property the run `phone` fails. It does no harm to the pair, whose photos did
  become a coin, and the same is true of a coin deleted a moment later.
- The docstrings of `save_state` and `clear_state` (`persistence_manager.py:166`, `:202`)
  promise a backup first; the failure of `backup_state` is ignored, its copies of one second
  have one name, and the state is then truncated in place. A restore that recognises a file
  by its identity does not see it rewritten.
- A restore takes no lock: a window that reloads while the collection is displaced sees none
  (`MISSING`) and may save into the gap, and a save compared before the displacement can
  replace the restored collection. Neither loses a version (`VersionsKept`): the first makes
  the restore fail or report itself incomplete, the second had seen what it replaced.

None of the wedges costs the collection a coin or an image (the safety theorems hold in the
same model); they cost an import its completion, and block later ones, until someone
intervenes.

## 6. Not modelled

- **Schema 1** (`transaction.py`, `journal.py`): the application composes the Schema 2 and 3
  services only (`ui.py`); of Schema 1 nothing runs but readers of finished records.
- **Power loss**: directory entries that are not yet synced may come back after a restart in
  any combination. Every crash here is a process's. `PROJECT.json` has the hazard.
- **Several imports at once**: the lock allows one transaction, and the models have one
  import; that one undecidable import or orphan blocks the pass for all of them follows
  from the order of the pass and is not a property of a run. So are the contradictions
  between the records of the three schemas that `recovery.py` refuses, which no code
  produces.
- **Substitution of objects**: names carry whose bytes they hold and no digests; a stranger's
  object under an owned name is not modelled, except in `BackupRestore`, where identities
  are what it is about. POSIX's reuse of an inode is not.
- **`cancel_locked`** of the coordinator has no caller, and the cleanups that only the Schema
  1 importer calls are left out with it.
- **Proposals and treatments** of the phone entry annotate a draft and decide nothing.
- **Archive verification, export and import of session states**: functions of one file.
- **Package validation and duplicate preview**: pure functions of one immutable file.
- **OCR review sessions**: one file per session, written whole, without a recovery protocol.
- **Cloud, device linking, offline companion**: planners and reports; nothing is sent.
- **Recognition, grading, deal hunting, market** (numeric computation), **the GUI** beyond
  the calls it makes, **event bus** (synchronous callbacks), **benchmarks, evaluations and
  governance tooling** (offline).
