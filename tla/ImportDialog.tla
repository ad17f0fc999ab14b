---------------------------- MODULE ImportDialog ----------------------------
(***************************************************************************)
(* The import dialog: two worker threads, the window that waits for them,  *)
(* and what they pass from hand to hand.  The first worker recovers what   *)
(* is pending, processes the photos in a workspace of its own and seals    *)
(* the snapshots of the preview; the second, started by Import, commits.   *)
(* Workers answer through a queue the window polls; the window answers     *)
(* only by a flag, closed, the first worker looks at now and then.  The    *)
(* window is modal, but a cancelled worker goes on behind it: the next     *)
(* dialog meets it.  Two images are imported through a temporary package   *)
(* the application adapts them to, and deletes: its directory is the       *)
(* worker's source, and that of the photos saved by the review of OCR.     *)
(*                                                                         *)
(* Translated from capture_import/ui.py (CapturePackageImportDialog),      *)
(* coin_collection_gui.py (the launch of the dialog and its OCR review),   *)
(* coin_collection.py (load_collection), standalone_image_intake.py,       *)
(* workflow_execution.py (ImportWorkflow.execute), workflow_workspace.py,  *)
(* workflow_models.py (PreparedArtifactSet), coordinator.py and            *)
(* schema2_runtime.py (prepare and commit), processed_snapshot.py (seal)   *)
(* and transaction.py (execute_genesis).                                   *)
(*                                                                         *)
(* Simplifications:                                                        *)
(*  - one process; what a crash leaves behind is in ProcessedImport, and   *)
(*    so is the journaled import, here one step to "journaled" and one to  *)
(*    "published";                                                         *)
(*  - the stages between two looks at closed are one step, and the flag    *)
(*    ImportWorkflow looks at is the one the worker looks at;              *)
(*  - the decisions of the preview are valid, and showing a window, a      *)
(*    message box or a list does not raise;                                *)
(*  - the reviews of OCR are one window, and its end, a save or not, is    *)
(*    one step: the message boxes of it are modal, and what it saves is in *)
(*    PhoneEntry;                                                          *)
(*  - _preserve_for_recovery is left out: after a commit that raised, the  *)
(*    prepared import is closed and there is nothing for it to preserve.   *)
(***************************************************************************)
EXTENDS Naturals, Sequences

CONSTANTS
    Dialogs,        \* the import dialogs opened while the application runs
    Free,           \* the import lock is not held
    MaxFailures     \* bound: operations that raise in a behaviour

ASSUME DialogAssumption == MaxFailures \in Nat /\ Free \notin Dialogs

VARIABLES
    worker,     \* the thread of _start_prepare, its workspace and its source
    package,    \* the snapshots, and the PreparedPackageImport that owns them
    commit,     \* the thread of commit, and what it did to the collection
    window,     \* the dialog itself, and the review that is its child
    source,     \* the package the worker reads
    queue,      \* the answers of the workers
    lock,       \* the dialog whose worker holds the import lock, or Free
    failures    \* counter of the bound

vars == <<worker, package, commit, window, source, queue, lock, failures>>

Reading == {"stages", "outcome", "assembled", "copying", "raw", "sealing"}
Inside == Reading \cup {"sealed", "exit"}       \* of "with workspace"
Outcomes == {"none", "prepared", "ocr", "cancelled", "error"}
Answers == {"prepared", "ocr", "error", "committed"}

\* dir is the workspace, artifacts what is held open in it.
Workers == [at : Inside \cup {"none", "start", "recovering", "workspace", "report",
                              "release", "ended"},
            out : Outcomes,
            dir : {"none", "live", "removed", "left"},
            artifacts : {"none", "open", "claimed", "closed"}]

\* A snapshot is half made, raw (the package only), both, partly deleted, or
\* named by a journal.  leased: a live handle holds it; spent: there is nothing
\* to cancel any more; botched: its removal raised.
Packages == [snap : {"none", "half", "raw", "both", "torn", "journaled"},
             leased : BOOLEAN, spent : BOOLEAN, botched : BOOLEAN]

Commits == [at : {"none", "called", "begun", "locked", "executing", "published", "ended"},
            published : BOOLEAN, reloaded : {"none", "loaded", "failed"}]

\* With the view "ocr" the review is open; it was answered if "reviewed".
Windows == [state : {"none", "open", "gone"}, ocr : BOOLEAN,
            view : {"busy", "preview", "ocr", "reviewed", "error"},
            closed : BOOLEAN, committing : BOOLEAN, polling : BOOLEAN,
            prepared : BOOLEAN, told : BOOLEAN]

\* A package the user chose, one adapted from two images, or that one deleted.
Sources == {"chosen", "adapted", "deleted"}

TypeOK ==
    /\ worker \in [Dialogs -> Workers]
    /\ package \in [Dialogs -> Packages]
    /\ commit \in [Dialogs -> Commits]
    /\ window \in [Dialogs -> Windows]
    /\ source \in [Dialogs -> Sources]
    /\ queue \in [Dialogs -> Seq(Answers)]
    /\ lock \in Dialogs \cup {Free}
    /\ failures \in 0..MaxFailures

Init ==
    /\ worker = [d \in Dialogs |-> [at |-> "none", out |-> "none", dir |-> "none",
                                    artifacts |-> "none"]]
    /\ package = [d \in Dialogs |-> [snap |-> "none", leased |-> FALSE,
                                     spent |-> FALSE, botched |-> FALSE]]
    /\ commit = [d \in Dialogs |-> [at |-> "none", published |-> FALSE,
                                    reloaded |-> "none"]]
    /\ window = [d \in Dialogs |-> [state |-> "none", ocr |-> FALSE, view |-> "busy",
                                    closed |-> FALSE, committing |-> FALSE,
                                    polling |-> FALSE, prepared |-> FALSE,
                                    told |-> FALSE]]
    /\ source = [d \in Dialogs |-> "chosen"]
    /\ queue = [d \in Dialogs |-> <<>>]
    /\ lock = Free
    /\ failures = 0

Fail == failures < MaxFailures /\ failures' = failures + 1

Closed(d) == window[d].closed
At(d, stage) == worker[d].at = stage
Put(d, answer) == queue' = [queue EXCEPT ![d] = Append(@, answer)]

-----------------------------------------------------------------------------
(* The removal of snapshots: PreparedPackageImport.cancel, and the clean-up *)
(* of a prepare or a commit that raises.                                    *)

Becomes(d, snap) == package' = [package EXCEPT ![d].snap = snap]
Unleased(d) == package' = [package EXCEPT ![d].leased = FALSE]

Gone(p) == [p EXCEPT !.snap = "none", !.leased = FALSE, !.spent = TRUE]

\* The processed snapshot goes first; one that lost a file validates no more.
Botched(p) ==
    {[p EXCEPT !.snap = s, !.botched = TRUE] :
        s \in CASE p.snap = "both" -> {"both", "raw", "torn"}
                [] p.snap = "raw" -> {"raw", "torn"}
                [] OTHER -> {"torn"}}           \* of a snapshot half made

Removable(d) == package[d].snap \in {"raw", "both"} /\ package[d].leased

CleansUp(d) ==
    /\ Removable(d)
    /\ package' = [package EXCEPT ![d] = Gone(@)]
    /\ UNCHANGED failures

CleanUpFails(d) ==
    /\ Removable(d) /\ Fail
    /\ \E p \in Botched(package[d]) : package' = [package EXCEPT ![d] = p]

\* What a failed cancellation left need not validate any more.
CleanUpRaises(d) ==
    \/ CleanUpFails(d)
    \/ /\ ~Removable(d)
       /\ package' = [package EXCEPT ![d].botched = TRUE]
       /\ UNCHANGED failures

\* An operation raises, and the clean-up it causes may meet the same fault.
RaisesOver(d) ==
    /\ Fail
    /\ \E p \in {Gone(package[d])} \cup Botched(package[d]) :
           package' = [package EXCEPT ![d] = p]

-----------------------------------------------------------------------------
(* The preparing worker.                                                   *)

Goes(d, stage) == worker' = [worker EXCEPT ![d].at = stage]

\* The worker leaves "with workspace", and what it held open there is closed:
\* by close_if_unclaimed, or by the seal that claimed it.
Leaves(d, outcome) ==
    worker' = [worker EXCEPT ![d].at = "exit", ![d].out = outcome,
                             ![d].artifacts = "closed"]

Raised(d) == worker' = [worker EXCEPT ![d].at = "report", ![d].out = "error"]

Holds(d, stage, artifacts) ==
    worker' = [worker EXCEPT ![d].at = stage, ![d].artifacts = artifacts]

Passes(d, stage, dir, outcome) ==       \* the door of the workspace
    worker' = [worker EXCEPT ![d].at = stage, ![d].dir = dir, ![d].out = outcome]

dialog == <<window, source>>
others == <<commit, dialog>>

Reconcile(d) ==
    /\ At(d, "start")
    /\ IF lock = Free
         THEN Goes(d, "recovering") /\ lock' = d
         ELSE Raised(d) /\ UNCHANGED lock
    /\ UNCHANGED <<package, queue, failures, others>>

\* The orphan scans refuse what they can neither skip nor prove abandoned: an
\* incomplete snapshot, one of a living process, and a leased processed one.
Refused(e) ==
    \/ package[e].snap \in {"half", "torn", "both"}
    \/ package[e].snap = "raw" /\ ~package[e].leased

Journaled == {e \in Dialogs : package[e].snap = "journaled"}

RecoveredOverLeases(d) ==               \* mutant: a leased orphan is removed too
    /\ At(d, "recovering") /\ lock = d
    /\ lock' = Free
    /\ package' = [e \in Dialogs |-> IF package[e].snap = "both"
                                       THEN Gone(package[e]) ELSE package[e]]
    /\ Goes(d, "workspace")
    /\ UNCHANGED <<failures, queue, others>>

Recovered(d) ==
    /\ At(d, "recovering") /\ lock = d
    /\ lock' = Free
    /\ \/ /\ \A e \in Dialogs : ~Refused(e)
          /\ \E settled \in SUBSET Journaled :
                 package' = [e \in Dialogs |->
                               IF e \in settled THEN Gone(package[e]) ELSE package[e]]
          /\ Goes(d, "workspace") /\ UNCHANGED failures
       \/ /\ \/ (\E e \in Dialogs : Refused(e)) /\ UNCHANGED failures
             \/ Fail
          /\ Raised(d) /\ UNCHANGED package
    /\ UNCHANGED <<queue, others>>

MakeWorkspace(d) ==
    /\ At(d, "workspace")
    /\ \/ Passes(d, "stages", "live", worker[d].out) /\ UNCHANGED failures
       \/ Fail /\ Raised(d)
    /\ UNCHANGED <<package, queue, lock, others>>

\* ImportWorkflow.execute looks at the flag around every stage; whether it was
\* cancelled or a stage raised, the worker has an error to report.
RunStages(d) ==
    /\ At(d, "stages")
    /\ \/ ~Closed(d) /\ Goes(d, "outcome") /\ UNCHANGED failures
       \/ Closed(d) /\ Leaves(d, "error") /\ UNCHANGED failures
       \/ Fail /\ Leaves(d, "error")
    /\ UNCHANGED <<package, queue, lock, others>>

\* With OCR the outcome itself is the answer; without, it becomes the prepared
\* artifacts, a lease on open files of the workspace.
HandOver(d) ==
    /\ At(d, "outcome")
    /\ \/ /\ Closed(d) /\ Leaves(d, "cancelled")
          /\ UNCHANGED <<queue, failures>>
       \/ /\ ~Closed(d) /\ window[d].ocr
          /\ Put(d, "ocr") /\ Leaves(d, "ocr") /\ UNCHANGED failures
       \/ /\ ~Closed(d) /\ ~window[d].ocr
          /\ Holds(d, "assembled", "open")
          /\ UNCHANGED <<queue, failures>>
       \/ ~Closed(d) /\ Fail /\ Leaves(d, "error") /\ UNCHANGED queue
    /\ UNCHANGED <<package, lock, others>>

\* create_snapshot makes the directory, its owner and its lease ...
BeginSnapshot(d) ==
    /\ At(d, "assembled")
    /\ \/ /\ Closed(d) /\ Leaves(d, "cancelled")
          /\ UNCHANGED <<package, failures>>
       \/ /\ ~Closed(d)
          /\ Becomes(d, "half")
          /\ Goes(d, "copying") /\ UNCHANGED failures
       \/ ~Closed(d) /\ Fail /\ Leaves(d, "error") /\ UNCHANGED package
    /\ UNCHANGED <<queue, lock, others>>

\* ... and copies the package from the source.
CopyPackage(d) ==
    /\ At(d, "copying")
    /\ \/ /\ package' = [package EXCEPT ![d].snap = "raw", ![d].leased = TRUE]
          /\ Goes(d, "raw") /\ UNCHANGED failures
       \/ RaisesOver(d) /\ Leaves(d, "error")
    /\ UNCHANGED <<queue, lock, others>>

\* The preview is built and the lock taken, for the seal to claim the artifacts.
BeginSeal(d) ==
    /\ At(d, "raw")
    /\ \/ /\ lock = Free /\ lock' = d
          /\ Holds(d, "sealing", "claimed")
          /\ UNCHANGED <<package, failures>>
       \/ /\ \/ lock # Free /\ (CleansUp(d) \/ CleanUpFails(d))
             \/ RaisesOver(d)
          /\ Leaves(d, "error") /\ UNCHANGED lock
    /\ UNCHANGED <<queue, others>>

Seal(d) ==
    /\ At(d, "sealing") /\ lock = d
    /\ lock' = Free
    /\ \/ Becomes(d, "both") /\ Holds(d, "sealed", "closed") /\ UNCHANGED failures
       \/ RaisesOver(d) /\ Leaves(d, "error")
    /\ UNCHANGED <<queue, others>>

DeliverOrDrop(d) ==                     \* mutant: the unwanted is not cancelled
    /\ At(d, "sealed")
    /\ Leaves(d, IF Closed(d) THEN "cancelled" ELSE "prepared")
    /\ UNCHANGED <<package, failures, queue, lock, others>>

\* The last look at the flag: who closed the window wants no preview.
Deliver(d) ==
    /\ At(d, "sealed")
    /\ \/ ~Closed(d) /\ Leaves(d, "prepared") /\ UNCHANGED <<package, failures>>
       \/ Closed(d) /\ CleansUp(d) /\ Leaves(d, "cancelled")
       \/ Closed(d) /\ CleanUpFails(d) /\ Leaves(d, "error")
    /\ UNCHANGED <<queue, lock, others>>

\* WorkflowWorkspace.__exit__.  If the workspace stays, there is an error to
\* report, and a result that needs cleanup is cancelled.
LeaveWorkspace(d) ==
    /\ At(d, "exit")
    /\ \/ /\ Passes(d, IF worker[d].out \in {"prepared", "error"}
                          THEN "report" ELSE "release", "removed", worker[d].out)
          /\ UNCHANGED <<package, failures>>
       \/ /\ Passes(d, "report", "left", "error")
          /\ IF worker[d].out = "prepared" THEN RaisesOver(d)
                                           ELSE Fail /\ UNCHANGED package
    /\ UNCHANGED <<queue, lock, others>>

ReportResult(d) ==                      \* mutant: an error is not reported
    /\ At(d, "report")
    /\ IF worker[d].out = "error" THEN UNCHANGED queue ELSE Put(d, worker[d].out)
    /\ Goes(d, "release")
    /\ UNCHANGED <<package, lock, failures, others>>

Report(d) ==
    /\ At(d, "report")
    /\ Put(d, worker[d].out)
    /\ Goes(d, "release")
    /\ UNCHANGED <<package, lock, failures, others>>

\* TemporaryCapturePackage.release: what was adapted is deleted, once.
Releases(d) == source' = [source EXCEPT ![d] = IF @ = "adapted" THEN "deleted" ELSE @]

ReleaseAdapted(d) ==                    \* mutant: on_source_released=source.release
    /\ At(d, "release")
    /\ Goes(d, "ended") /\ Releases(d)
    /\ UNCHANGED <<package, queue, lock, failures, commit, window>>

\* _release_source_once calls who asked to be told that the source is read no
\* more; the application asks to be told that the dialog closes instead.
ReleaseSource(d) ==
    /\ At(d, "release")
    /\ Goes(d, "ended")
    /\ UNCHANGED <<package, queue, lock, failures, others>>

Prepare(d) ==
    \/ Reconcile(d) \/ Recovered(d) \/ MakeWorkspace(d) \/ RunStages(d)
    \/ HandOver(d) \/ BeginSnapshot(d) \/ CopyPackage(d) \/ BeginSeal(d)
    \/ Seal(d) \/ Deliver(d) \/ LeaveWorkspace(d) \/ Report(d)
    \/ ReleaseSource(d)

-----------------------------------------------------------------------------
(* The committing worker: coordinator.commit and execute_genesis.          *)

CommitAt(d, stage) == commit[d].at = stage
CommitGoes(d, stage) == commit' = [commit EXCEPT ![d].at = stage]
Ends(d, answer) == CommitGoes(d, "ended") /\ Put(d, answer)

BeginCommitUnclosed(d) ==               \* mutant: the prepared import stays open
    /\ CommitAt(d, "called") /\ CommitGoes(d, "begun")
    /\ UNCHANGED <<worker, package, queue, lock, dialog, failures>>

\* The prepared import is closed first: from here on its snapshots are the
\* transaction's to remove.
BeginCommit(d) ==
    /\ CommitAt(d, "called")
    /\ CommitGoes(d, "begun")
    /\ package' = [package EXCEPT ![d].spent = TRUE]
    /\ UNCHANGED <<worker, queue, lock, dialog, failures>>

TakeLock(d) ==
    /\ CommitAt(d, "begun")
    /\ IF lock = Free
         THEN /\ lock' = d
              /\ CommitGoes(d, "locked")
              /\ UNCHANGED <<package, queue, failures>>
         ELSE /\ CleansUp(d) \/ CleanUpRaises(d)
              /\ Ends(d, "error") /\ UNCHANGED lock
    /\ UNCHANGED <<worker, dialog>>

\* Both snapshots are validated again.  All coins may be skipped.
Genesis(d) ==
    /\ CommitAt(d, "locked") /\ lock = d
    /\ \/ /\ package[d].snap = "both" /\ package[d].leased
          /\ Becomes(d, "journaled") /\ CommitGoes(d, "executing")
          /\ UNCHANGED <<queue, lock, failures>>
       \/ /\ package[d].snap = "both" /\ lock' = Free
          /\ \/ CleansUp(d) /\ Ends(d, "committed")
             \/ CleanUpFails(d) /\ Ends(d, "error")
       \/ /\ package[d].snap # "both" /\ lock' = Free
          /\ CleansUp(d) \/ CleanUpRaises(d)
          /\ Ends(d, "error")
       \/ RaisesOver(d) /\ lock' = Free /\ Ends(d, "error")
    /\ UNCHANGED <<worker, dialog>>

Publish(d) ==
    /\ CommitAt(d, "executing") /\ lock = d
    /\ commit' = [commit EXCEPT ![d].at = "published", ![d].published = TRUE]
    /\ UNCHANGED <<worker, package, queue, lock, dialog, failures>>

\* Whether it succeeds or raises, the leases are given up and the journal
\* keeps the snapshots for recovery to remove.
EndCommit(d) ==
    /\ commit[d].at \in {"executing", "published"} /\ lock = d
    /\ \/ CommitAt(d, "published") /\ Ends(d, "committed") /\ UNCHANGED failures
       \/ Fail /\ Ends(d, "error")
    /\ Unleased(d)
    /\ lock' = Free
    /\ UNCHANGED <<worker, dialog>>

Commit(d) ==
    BeginCommit(d) \/ TakeLock(d) \/ Genesis(d) \/ Publish(d) \/ EndCommit(d)

-----------------------------------------------------------------------------
(* The window.                                                             *)

threads == <<worker, lock>>

Opens(d, ocr) ==
    window' = [window EXCEPT ![d].state = "open", ![d].ocr = ocr, ![d].polling = TRUE]

\* It is modal: another is opened once the last one is gone.  Two images are
\* adapted for OCR only.
Open(d, ocr, from) ==
    /\ window[d].state = "none"
    /\ \A e \in Dialogs : window[e].state # "open"
    /\ from = "adapted" => ocr
    /\ Opens(d, ocr)
    /\ source' = [source EXCEPT ![d] = from]
    /\ Goes(d, "start")
    /\ UNCHANGED <<package, commit, queue, lock, failures>>

Shows(d, view) == window' = [window EXCEPT ![d].view = view, ![d].polling = FALSE]

\* _show_preview: the window has the prepared import from here on.
ShowsPreview(d) ==
    window' = [window EXCEPT ![d].view = "preview", ![d].polling = FALSE,
                             ![d].prepared = TRUE]

\* _show_error: whatever was under way is over, and Cancel is possible again.
ShowsError(d) ==
    window' = [window EXCEPT ![d].view = "error", ![d].polling = FALSE,
                             ![d].committing = FALSE, ![d].told = TRUE]

\* A destroyed window takes its pending callbacks with it, and its review; then
\* _notify_close_once has the application delete the source it adapted.
Closes(d) ==
    window' = [window EXCEPT ![d].state = "gone", ![d].closed = TRUE,
                             ![d].polling = FALSE]
Destroys(d) == Closes(d) /\ Releases(d)

FinishesUnloaded(d) ==                  \* mutant: no reload
    Destroys(d) /\ UNCHANGED <<commit, failures>>

Reloads(d, outcome) == commit' = [commit EXCEPT ![d].reloaded = outcome]

\* _finish_success: the collection is loaded again before the window goes.  An
\* error of load_collection ends there: it leaves no coins, and no baseline to
\* save against, and the user is told of the success all the same.
Finishes(d) ==
    /\ \/ Reloads(d, "loaded") /\ UNCHANGED failures
       \/ Reloads(d, "failed") /\ Fail
    /\ Destroys(d)

kept == <<commit, source, failures>>

\* _poll takes one answer, and is armed again only while there is none.  Once
\* the dialog is closed it drops them (none is a preview: the dialog has it).
Poll(d) ==
    /\ window[d].state = "open" /\ window[d].polling
    /\ \/ /\ Closed(d)
          /\ queue' = [queue EXCEPT ![d] = <<>>]
          /\ window' = [window EXCEPT ![d].polling = FALSE]
          /\ UNCHANGED kept
       \/ /\ ~Closed(d) /\ queue[d] # <<>>
          /\ queue' = [queue EXCEPT ![d] = Tail(@)]
          /\ \/ Head(queue[d]) = "prepared" /\ ShowsPreview(d) /\ UNCHANGED kept
             \/ Head(queue[d]) = "ocr" /\ Shows(d, "ocr") /\ UNCHANGED kept
             \/ Head(queue[d]) = "error" /\ ShowsError(d) /\ UNCHANGED kept
             \/ Head(queue[d]) = "committed" /\ Finishes(d)
    /\ UNCHANGED <<threads, package>>

\* Whoever closes the review ends it: the coin is saved with the photos of the
\* adapted source, or not, and in every case the source is released.
EndReview(d) ==
    /\ window[d].state = "open" /\ window[d].view = "ocr"
    /\ window' = [window EXCEPT ![d].view = "reviewed"]
    /\ Releases(d)
    /\ UNCHANGED <<threads, package, commit, queue, failures>>

Commences(d) ==
    window' = [window EXCEPT ![d].committing = TRUE, ![d].view = "busy",
                             ![d].polling = TRUE]

\* Import can be pressed on a preview, once.
Import(d) ==
    /\ window[d].state = "open" /\ window[d].view = "preview"
    /\ ~window[d].committing
    /\ Commences(d) /\ CommitGoes(d, "called")
    /\ UNCHANGED <<threads, source, package, queue, failures>>

CancelAnyTime(d) ==                     \* mutant: cancel does not look at committing
    /\ window[d].state = "open"
    /\ Destroys(d)
    /\ IF window[d].prepared /\ ~package[d].spent
         THEN CleansUp(d) ELSE UNCHANGED <<package, failures>>
    /\ UNCHANGED <<threads, commit, queue>>

\* Closing comes first; if the snapshots cannot be removed the window stays.  It
\* does not wait for the worker, which may be reading the source it deletes.
Cancel(d) ==
    /\ window[d].state = "open" /\ ~window[d].committing
    /\ \/ /\ ~window[d].prepared \/ package[d].spent
          /\ Destroys(d) /\ UNCHANGED <<package, failures>>
       \/ /\ window[d].prepared /\ ~package[d].spent
          /\ CleansUp(d) /\ Destroys(d)
       \/ /\ window[d].prepared /\ ~package[d].spent
          /\ CleanUpRaises(d)
          /\ window' = [window EXCEPT ![d].closed = TRUE]
          /\ UNCHANGED source
    /\ UNCHANGED <<threads, commit, queue>>

\* A handle nobody holds is collected, and its lease with it.
Held(d) ==
    \/ worker[d].at \notin {"none", "ended"}
    \/ commit[d].at \notin {"none", "ended"}
    \/ window[d].state = "open" /\ (window[d].prepared \/ queue[d] # <<>>)

Collect(d) ==
    /\ ~Held(d) /\ package[d].leased
    /\ Unleased(d)
    /\ UNCHANGED <<worker, others, queue, lock, failures>>

Next ==
    \E d \in Dialogs :
        \/ Prepare(d) \/ Commit(d)
        \/ Poll(d) \/ Import(d) \/ EndReview(d) \/ Cancel(d) \/ Collect(d)
        \/ \E ocr \in BOOLEAN, from \in {"chosen", "adapted"} : Open(d, ocr, from)

Spec == Init /\ [][Next]_vars

\* A started thread runs on, and the window goes on polling.
FairSpec ==
    /\ Spec
    /\ \A d \in Dialogs :
           WF_vars(Prepare(d)) /\ WF_vars(Commit(d)) /\ WF_vars(Poll(d))

-----------------------------------------------------------------------------
(* Properties.                                                             *)

\* What is used is still there.  The files a worker holds open in its workspace
\* are closed before the workspace goes, whichever way the worker leaves it.  The
\* source adapted for a dialog is deleted by the end of its review and by its
\* Cancel: a review that is open will find the photos it saves, and a worker
\* loses what it reads only behind a window the user has closed.
FilesOutliveTheirUse ==
    \A d \in Dialogs :
        /\ worker[d].artifacts \in {"open", "claimed"} => worker[d].dir = "live"
        /\ window[d].state = "open" /\ window[d].view = "ocr" => source[d] # "deleted"
        /\ source[d] = "deleted" /\ worker[d].at \in Reading => Closed(d)

\* A worker that ended leaves no snapshot behind but one it passed on, and one
\* that could not be removed.
Unjournaled == {"half", "raw", "both", "torn"}
WorkerLeavesNothing ==
    \A d \in Dialogs :
        worker[d].at = "ended" /\ package[d].snap \in Unjournaled =>
            \/ package[d].botched \/ window[d].prepared
            \/ \E i \in DOMAIN queue[d] : queue[d][i] = "prepared"

\* While a commit runs its window stays, and nobody else removes its snapshots:
\* the hand-over from dialog to transaction leaves them one owner.
Committing(d) == commit[d].at \notin {"none", "ended"}
CommitIsUndisturbed ==
    /\ \A d \in Dialogs : Committing(d) => window[d].state = "open"
    /\ \A d \in Dialogs : commit[d].at \in {"executing", "published"} =>
           package[d].snap = "journaled" /\ package[d].leased

\* A failed commit leaves a window that can be closed: its Cancel has nothing
\* to remove, or can remove it.
CanBeCancelled ==
    \A d \in Dialogs :
        window[d].state = "open" /\ window[d].prepared /\ ~window[d].committing =>
            package[d].spent \/ Removable(d) \/ package[d].botched

\* The preview on the screen is that of snapshots which exist and are leased,
\* whatever workers of cancelled dialogs still do.
PreviewIsBacked ==
    \A d \in Dialogs :
        window[d].state = "open" /\ window[d].view = "preview" /\ ~Closed(d) =>
            package[d].snap = "both" /\ package[d].leased

\* Who waits for an answer gets one, or closes the dialog.
Waiting(d) == window[d].state = "open" /\ window[d].view = "busy" /\ ~Closed(d)
EveryDialogIsAnswered == \A d \in Dialogs : Waiting(d) ~> ~Waiting(d)

\* An import that reached the collection file reaches the application: though
\* its thread may raise after the publication, and whatever the user presses
\* meanwhile, the user is told of an error or the collection is loaded again,
\* even if the load may fail.  A window whose Cancel had failed before Import was
\* pressed is left out: it polls every answer away (CancelReturns).
ApplicationLearnsOfImport ==
    \A d \in Dialogs :
        commit[d].published /\ ~Closed(d) ~>
            (window[d].told \/ commit[d].reloaded # "none")

\* docs/DESKTOP_PACKAGE_IMPORT_ARCHITECTURE.md:733 has the GUI refreshed from
\* the committed collection; the load that fails leaves it empty, in silence.
FailedReloadIsTold ==
    \A d \in Dialogs : commit[d].reloaded = "failed" => window[d].told

\* ui.py:348 releases the source after the worker stops using it; but the
\* application deletes it when the dialog closes, and the worker reads on.
SourceOutlivesWorker ==
    \A d \in Dialogs : source[d] = "deleted" => worker[d].at \notin Reading

\* docs/DESKTOP_PACKAGE_IMPORT_ARCHITECTURE.md:173 says that cancellation
\* removes the snapshot; a Cancel after the worker's last look leaves it.
CancelLeavesNothing ==
    \A d \in Dialogs :
        window[d].state = "gone" /\ worker[d].at = "ended" =>
            package[d].snap \notin Unjournaled \/ package[d].botched

\* ui.py:506 tells the user that Cancel is unavailable until the import
\* finishes; after a Cancel that failed it never comes back.
CancelReturns == \A d \in Dialogs : window[d].committing ~>
                    (~window[d].committing \/ window[d].state = "gone")

\* workflow_workspace.py:51 says that a cleanup failure is never ignored;
\* that of a workspace with OCR is queued behind the one answer polled for.
CleanupFailureIsShown ==
    \A d \in Dialogs :
        worker[d].at = "ended" /\ worker[d].dir = "left" /\ ~Closed(d) =>
            window[d].told \/ window[d].polling
=============================================================================
