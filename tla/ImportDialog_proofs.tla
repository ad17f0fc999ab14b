------------------------ MODULE ImportDialog_proofs -------------------------
(***************************************************************************)
(* The safety properties of ImportDialog hold for every number of dialogs  *)
(* and of failures.  All of them are about who owns what at which stage of *)
(* which thread, so the invariant says, for one dialog at a time, what its *)
(* worker, its queue, its window and its commit allow one another; only    *)
(* the lock ties dialogs together.                                         *)
(***************************************************************************)
EXTENDS ImportDialog, SequenceTheorems, TLAPS

\* The stages before there is a snapshot, and those at which a result exists.
Early == {"none", "start", "recovering", "workspace", "stages", "outcome", "assembled"}
Late == {"release", "ended"}
Alone(answer) == <<answer>>
OcrAnswers == Seq({"ocr", "error"})
Fresh(d) == ~package[d].spent /\ ~package[d].botched
Backed(d) == package[d].snap = "both" /\ package[d].leased /\ ~package[d].spent

\* The worker, its workspace and what it holds open there.
WorkerInv(d) ==
    /\ worker[d].at \in Inside <=> worker[d].dir = "live"
    /\ worker[d].artifacts \in {"open", "claimed"} =>
           worker[d].at \in {"assembled", "copying", "raw", "sealing"}
    /\ worker[d].at \in Early => worker[d].out = "none"
    /\ worker[d].at = "report" => worker[d].out \in {"prepared", "error"}
    /\ worker[d].at = "none" <=> window[d].state = "none"
    /\ window[d].ocr => /\ worker[d].at \notin {"assembled", "copying", "raw",
                                                "sealing", "sealed"}
                        /\ worker[d].out # "prepared"

\* The snapshots, while the worker makes them and once it has them.
SnapInv(d) ==
    /\ worker[d].at \in Early => package[d].snap = "none" /\ ~package[d].leased /\ Fresh(d)
    /\ worker[d].at = "copying" => package[d].snap = "half" /\ ~package[d].leased /\ Fresh(d)
    /\ worker[d].at \in {"raw", "sealing"} =>
           package[d].snap = "raw" /\ package[d].leased /\ Fresh(d)
    /\ worker[d].at = "sealed" => Backed(d)
    /\ worker[d].at \in {"exit", "report"} /\ worker[d].out = "prepared" => Backed(d)
    /\ \/ worker[d].at \in {"exit", "report"} /\ worker[d].out # "prepared"
       \/ worker[d].at \in Late
       => \/ package[d].snap \notin Unjournaled \/ package[d].botched
          \/ window[d].prepared \/ queue[d] = Alone("prepared")

\* The answers: one of each worker, in their order.
QueueInv(d) ==
    /\ worker[d].at \in Early => queue[d] = <<>> /\ window[d].view = "busy"
    /\ window[d].ocr => queue[d] \in OcrAnswers /\ ~window[d].prepared
    /\ ~window[d].ocr =>
           /\ worker[d].at \notin Late => queue[d] = <<>> /\ ~window[d].prepared
           /\ queue[d] \in {<<>>, Alone("prepared"), Alone("error"), Alone("committed")}
           /\ window[d].prepared /\ commit[d].at # "ended" => queue[d] = <<>>
           /\ commit[d].at = "ended" => queue[d] # Alone("prepared")
           /\ commit[d].at # "ended" => queue[d] # Alone("committed")
    /\ queue[d] = Alone("prepared") /\ window[d].state = "open" => Backed(d) /\ ~Closed(d)

\* The window, and the commit it starts.
WindowInv(d) ==
    /\ window[d].state = "none" => ~Closed(d) /\ ~window[d].ocr
    /\ window[d].state = "open" /\ Closed(d) => window[d].prepared
    /\ window[d].view = "preview" => window[d].prepared /\ commit[d].at = "none"
    /\ window[d].prepared /\ commit[d].at = "none" /\ window[d].state = "open" =>
           IF Closed(d) THEN package[d].spent \/ package[d].botched ELSE Backed(d)

\* The source: while the review is open it has not been deleted, and when it has
\* been, nobody reads it but behind a window that is gone.
SourceInv(d) ==
    /\ window[d].state = "gone" => Closed(d)
    /\ window[d].view \in {"ocr", "reviewed"} =>
           window[d].ocr /\ ~window[d].polling /\ worker[d].at \notin Reading
    /\ source[d] = "deleted" => window[d].state = "gone" \/ window[d].view = "reviewed"

CommitInv(d) ==
    /\ window[d].committing => commit[d].at # "none"
    /\ commit[d].at # "none" =>
           /\ window[d].prepared
           /\ \/ window[d].state = "open" /\ window[d].committing
              \/ window[d].told \/ commit[d].reloaded # "none"
    /\ commit[d].at \notin {"none", "called"} => package[d].spent
    /\ Committing(d) => window[d].state = "open" /\ window[d].committing
    /\ commit[d].published => commit[d].at \in {"published", "ended"}
    /\ commit[d].at \in {"executing", "published"} =>
           package[d].snap = "journaled" /\ package[d].leased

LockInv(d) ==
    \/ worker[d].at \in {"recovering", "sealing"}
    \/ commit[d].at \in {"locked", "executing", "published"}
    => lock = d

DialogInv(d) ==
    /\ WorkerInv(d) /\ SnapInv(d) /\ QueueInv(d) /\ WindowInv(d)
    /\ SourceInv(d) /\ CommitInv(d) /\ LockInv(d)

IInv == TypeOK /\ \A d \in Dialogs : DialogInv(d)
-----------------------------------------------------------------------------
(* Effects.  What each assignment does to the record of one dialog, field  *)
(* by field: the steps below are proved from these facts alone.            *)

WorkerStages == Inside \cup {"none", "start", "recovering", "workspace", "report",
                             "release", "ended"}

WorkerIs(d, at, out, dir, artifacts) ==
    /\ worker' \in [Dialogs -> Workers]
    /\ worker'[d].at = at /\ worker'[d].out = out /\ worker'[d].dir = dir
    /\ worker'[d].artifacts = artifacts
    /\ \A e \in Dialogs : e # d => worker'[e] = worker[e]

PackageIs(d, snap, leased, spent, botched) ==
    /\ package' \in [Dialogs -> Packages]
    /\ package'[d].snap = snap /\ package'[d].leased = leased /\ package'[d].spent = spent
    /\ package'[d].botched = botched
    /\ \A e \in Dialogs : e # d => package'[e] = package[e]

CommitIs(d, at, published, reloaded) ==
    /\ commit' \in [Dialogs -> Commits]
    /\ commit'[d].at = at /\ commit'[d].published = published /\ commit'[d].reloaded = reloaded
    /\ \A e \in Dialogs : e # d => commit'[e] = commit[e]

WindowIs(d, state, ocr, view, closed, committing, polling, prepared, told) ==
    /\ window' \in [Dialogs -> Windows]
    /\ window'[d].state = state /\ window'[d].ocr = ocr /\ window'[d].view = view
    /\ window'[d].closed = closed /\ window'[d].committing = committing
    /\ window'[d].polling = polling
    /\ window'[d].prepared = prepared /\ window'[d].told = told
    /\ \A e \in Dialogs : e # d => window'[e] = window[e]

SourceIs(d, s) ==
    /\ source' \in [Dialogs -> Sources]
    /\ source'[d] = s
    /\ \A e \in Dialogs : e # d => source'[e] = source[e]

\* What a release makes of the source.
Released(s) == IF s = "adapted" THEN "deleted" ELSE s

QueueIs(d, q) ==
    /\ queue' \in [Dialogs -> Seq(Answers)]
    /\ queue'[d] = q
    /\ \A e \in Dialogs : e # d => queue'[e] = queue[e]

\* The worker goes to a stage.
LEMMA GoesEffect ==
    ASSUME TypeOK, NEW d \in Dialogs, NEW s \in WorkerStages,
           Goes(d, s)
    PROVE  WorkerIs(d, s, worker[d].out, worker[d].dir, worker[d].artifacts)
<1>1. worker' \in [Dialogs -> Workers]
  BY Zenon DEF TypeOK, Goes, Workers, WorkerStages
<1>2. /\ worker'[d].at = s
      /\ worker'[d].out = worker[d].out
      /\ worker'[d].dir = worker[d].dir
      /\ worker'[d].artifacts = worker[d].artifacts
  BY SMT DEF TypeOK, Goes, Workers
<1>3. \A e \in Dialogs : e # d => worker'[e] = worker[e]
  BY SMT DEF TypeOK, Goes
<1>. QED
  BY <1>1, <1>2, <1>3 DEF WorkerIs

\* The worker leaves its workspace.
LEMMA LeavesEffect ==
    ASSUME TypeOK, NEW d \in Dialogs, NEW o \in Outcomes,
           Leaves(d, o)
    PROVE  WorkerIs(d, "exit", o, worker[d].dir, "closed")
<1>1. worker' \in [Dialogs -> Workers]
  <2>1. \A r \in Workers :
            [r EXCEPT !.at = "exit", !.out = o, !.artifacts = "closed"] \in Workers
    BY ZenonT(30) DEF Workers, Inside
  <2>2. worker' = [worker EXCEPT ![d] =
            [@ EXCEPT !.at = "exit", !.out = o, !.artifacts = "closed"]]
    BY Zenon DEF TypeOK, Leaves
  <2>3. worker \in [Dialogs -> Workers]
    BY DEF TypeOK
  <2>. QED
    BY <2>1, <2>2, <2>3, Zenon
<1>2. /\ worker'[d].at = "exit"
      /\ worker'[d].out = o
      /\ worker'[d].dir = worker[d].dir
      /\ worker'[d].artifacts = "closed"
  BY SMT DEF TypeOK, Leaves, Workers
<1>3. \A e \in Dialogs : e # d => worker'[e] = worker[e]
  BY SMT DEF TypeOK, Leaves
<1>. QED
  BY <1>1, <1>2, <1>3 DEF WorkerIs

\* The worker raises outside of its workspace.
LEMMA RaisedEffect ==
    ASSUME TypeOK, NEW d \in Dialogs,
           Raised(d)
    PROVE  WorkerIs(d, "report", "error", worker[d].dir, worker[d].artifacts)
<1>1. worker' \in [Dialogs -> Workers]
  <2>1. \A r \in Workers :
            [r EXCEPT !.at = "report", !.out = "error"] \in Workers
    BY ZenonT(30) DEF Workers, Outcomes
  <2>2. worker' = [worker EXCEPT ![d] =
            [@ EXCEPT !.at = "report", !.out = "error"]]
    BY Zenon DEF TypeOK, Raised
  <2>3. worker \in [Dialogs -> Workers]
    BY DEF TypeOK
  <2>. QED
    BY <2>1, <2>2, <2>3, Zenon
<1>2. /\ worker'[d].at = "report"
      /\ worker'[d].out = "error"
      /\ worker'[d].dir = worker[d].dir
      /\ worker'[d].artifacts = worker[d].artifacts
  BY SMT DEF TypeOK, Raised, Workers
<1>3. \A e \in Dialogs : e # d => worker'[e] = worker[e]
  BY SMT DEF TypeOK, Raised
<1>. QED
  BY <1>1, <1>2, <1>3 DEF WorkerIs

\* The worker opens, claims or closes artifacts.
LEMMA HoldsEffect ==
    ASSUME TypeOK, NEW d \in Dialogs, NEW s \in WorkerStages, NEW a \in {"open", "claimed",
           "closed"},
           Holds(d, s, a)
    PROVE  WorkerIs(d, s, worker[d].out, worker[d].dir, a)
<1>1. worker' \in [Dialogs -> Workers]
  <2>1. \A r \in Workers :
            [r EXCEPT !.at = s, !.artifacts = a] \in Workers
    BY ZenonT(30) DEF Workers, WorkerStages
  <2>2. worker' = [worker EXCEPT ![d] =
            [@ EXCEPT !.at = s, !.artifacts = a]]
    BY Zenon DEF TypeOK, Holds
  <2>3. worker \in [Dialogs -> Workers]
    BY DEF TypeOK
  <2>. QED
    BY <2>1, <2>2, <2>3, Zenon
<1>2. /\ worker'[d].at = s
      /\ worker'[d].out = worker[d].out
      /\ worker'[d].dir = worker[d].dir
      /\ worker'[d].artifacts = a
  BY SMT DEF TypeOK, Holds, Workers
<1>3. \A e \in Dialogs : e # d => worker'[e] = worker[e]
  BY SMT DEF TypeOK, Holds
<1>. QED
  BY <1>1, <1>2, <1>3 DEF WorkerIs

\* The worker goes in or out.
LEMMA PassesEffect ==
    ASSUME TypeOK, NEW d \in Dialogs, NEW s \in WorkerStages, NEW dir \in {"live", "removed",
           "left"}, NEW o \in Outcomes,
           Passes(d, s, dir, o)
    PROVE  WorkerIs(d, s, o, dir, worker[d].artifacts)
<1>1. worker' \in [Dialogs -> Workers]
  <2>1. \A r \in Workers :
            [r EXCEPT !.at = s, !.out = o, !.dir = dir] \in Workers
    BY ZenonT(30) DEF Workers, WorkerStages
  <2>2. worker' = [worker EXCEPT ![d] =
            [@ EXCEPT !.at = s, !.out = o, !.dir = dir]]
    BY Zenon DEF TypeOK, Passes
  <2>3. worker \in [Dialogs -> Workers]
    BY DEF TypeOK
  <2>. QED
    BY <2>1, <2>2, <2>3, Zenon
<1>2. /\ worker'[d].at = s
      /\ worker'[d].out = o
      /\ worker'[d].dir = dir
      /\ worker'[d].artifacts = worker[d].artifacts
  BY SMT DEF TypeOK, Passes, Workers
<1>3. \A e \in Dialogs : e # d => worker'[e] = worker[e]
  BY SMT DEF TypeOK, Passes
<1>. QED
  BY <1>1, <1>2, <1>3 DEF WorkerIs

\* A snapshot reaches another state.
LEMMA BecomesEffect ==
    ASSUME TypeOK, NEW d \in Dialogs, NEW s \in {"half", "both", "journaled"},
           Becomes(d, s)
    PROVE  PackageIs(d, s, package[d].leased, package[d].spent,
                  package[d].botched)
<1>1. package' \in [Dialogs -> Packages]
  BY Zenon DEF TypeOK, Becomes, Packages
<1>2. /\ package'[d].snap = s
      /\ package'[d].leased = package[d].leased
      /\ package'[d].spent = package[d].spent
      /\ package'[d].botched = package[d].botched
  BY SMT DEF TypeOK, Becomes, Packages
<1>3. \A e \in Dialogs : e # d => package'[e] = package[e]
  BY SMT DEF TypeOK, Becomes
<1>. QED
  BY <1>1, <1>2, <1>3 DEF PackageIs

\* The package is copied, and leased.
LEMMA CopiedEffect ==
    ASSUME TypeOK, NEW d \in Dialogs,
           package' = [package EXCEPT ![d].snap = "raw", ![d].leased = TRUE]
    PROVE  PackageIs(d, "raw", TRUE, package[d].spent, package[d].botched)
<1>1. package' \in [Dialogs -> Packages]
  BY Zenon DEF TypeOK, Packages, Packages
<1>2. /\ package'[d].snap = "raw"
      /\ package'[d].leased = TRUE
      /\ package'[d].spent = package[d].spent
      /\ package'[d].botched = package[d].botched
  BY SMT DEF TypeOK, Packages, Packages
<1>3. \A e \in Dialogs : e # d => package'[e] = package[e]
  BY SMT DEF TypeOK, Packages
<1>. QED
  BY <1>1, <1>2, <1>3 DEF PackageIs

\* A lease is given up.
LEMMA UnleasedEffect ==
    ASSUME TypeOK, NEW d \in Dialogs,
           Unleased(d)
    PROVE  PackageIs(d, package[d].snap, FALSE, package[d].spent,
                  package[d].botched)
<1>1. package' \in [Dialogs -> Packages]
  BY Zenon DEF TypeOK, Unleased, Packages
<1>2. /\ package'[d].snap = package[d].snap
      /\ package'[d].leased = FALSE
      /\ package'[d].spent = package[d].spent
      /\ package'[d].botched = package[d].botched
  BY SMT DEF TypeOK, Unleased, Packages
<1>3. \A e \in Dialogs : e # d => package'[e] = package[e]
  BY SMT DEF TypeOK, Unleased
<1>. QED
  BY <1>1, <1>2, <1>3 DEF PackageIs

\* There is nothing to cancel any more.
LEMMA SpentEffect ==
    ASSUME TypeOK, NEW d \in Dialogs,
           package' = [package EXCEPT ![d].spent = TRUE]
    PROVE  PackageIs(d, package[d].snap, package[d].leased, TRUE,
                  package[d].botched)
<1>1. package' \in [Dialogs -> Packages]
  BY Zenon DEF TypeOK, Packages, Packages
<1>2. /\ package'[d].snap = package[d].snap
      /\ package'[d].leased = package[d].leased
      /\ package'[d].spent = TRUE
      /\ package'[d].botched = package[d].botched
  BY SMT DEF TypeOK, Packages, Packages
<1>3. \A e \in Dialogs : e # d => package'[e] = package[e]
  BY SMT DEF TypeOK, Packages
<1>. QED
  BY <1>1, <1>2, <1>3 DEF PackageIs

\* A removal raises at once.
LEMMA BotchedEffect ==
    ASSUME TypeOK, NEW d \in Dialogs,
           package' = [package EXCEPT ![d].botched = TRUE]
    PROVE  PackageIs(d, package[d].snap, package[d].leased, package[d].spent,
                  TRUE)
<1>1. package' \in [Dialogs -> Packages]
  BY Zenon DEF TypeOK, Packages, Packages
<1>2. /\ package'[d].snap = package[d].snap
      /\ package'[d].leased = package[d].leased
      /\ package'[d].spent = package[d].spent
      /\ package'[d].botched = TRUE
  BY SMT DEF TypeOK, Packages, Packages
<1>3. \A e \in Dialogs : e # d => package'[e] = package[e]
  BY SMT DEF TypeOK, Packages
<1>. QED
  BY <1>1, <1>2, <1>3 DEF PackageIs

\* A snapshot is removed.
LEMMA GoneEffect ==
    ASSUME TypeOK, NEW d \in Dialogs,
           package' = [package EXCEPT ![d] = Gone(@)]
    PROVE  PackageIs(d, "none", FALSE, TRUE, package[d].botched)
<1>1. package' \in [Dialogs -> Packages]
  BY Zenon DEF TypeOK, Gone, Packages
<1>2. /\ package'[d].snap = "none"
      /\ package'[d].leased = FALSE
      /\ package'[d].spent = TRUE
      /\ package'[d].botched = package[d].botched
  BY SMT DEF TypeOK, Gone, Packages
<1>3. \A e \in Dialogs : e # d => package'[e] = package[e]
  BY SMT DEF TypeOK, Gone
<1>. QED
  BY <1>1, <1>2, <1>3 DEF PackageIs

\* The commit goes to a stage.
LEMMA CommitGoesEffect ==
    ASSUME TypeOK, NEW d \in Dialogs, NEW s \in {"called", "begun", "locked", "executing",
           "ended"},
           CommitGoes(d, s)
    PROVE  CommitIs(d, s, commit[d].published, commit[d].reloaded)
<1>1. commit' \in [Dialogs -> Commits]
  BY Zenon DEF TypeOK, CommitGoes, Commits
<1>2. /\ commit'[d].at = s
      /\ commit'[d].published = commit[d].published
      /\ commit'[d].reloaded = commit[d].reloaded
  BY SMT DEF TypeOK, CommitGoes, Commits
<1>3. \A e \in Dialogs : e # d => commit'[e] = commit[e]
  BY SMT DEF TypeOK, CommitGoes
<1>. QED
  BY <1>1, <1>2, <1>3 DEF CommitIs

\* The commit publishes.
LEMMA PublishedEffect ==
    ASSUME TypeOK, NEW d \in Dialogs,
           commit' = [commit EXCEPT ![d].at = "published", ![d].published = TRUE]
    PROVE  CommitIs(d, "published", TRUE, commit[d].reloaded)
<1>1. commit' \in [Dialogs -> Commits]
  BY Zenon DEF TypeOK, Commits, Commits
<1>2. /\ commit'[d].at = "published"
      /\ commit'[d].published = TRUE
      /\ commit'[d].reloaded = commit[d].reloaded
  BY SMT DEF TypeOK, Commits, Commits
<1>3. \A e \in Dialogs : e # d => commit'[e] = commit[e]
  BY SMT DEF TypeOK, Commits
<1>. QED
  BY <1>1, <1>2, <1>3 DEF CommitIs

\* The collection is loaded again.
LEMMA ReloadedEffect ==
    ASSUME TypeOK, NEW d \in Dialogs, NEW o \in {"loaded", "failed"},
           Reloads(d, o)
    PROVE  CommitIs(d, commit[d].at, commit[d].published, o)
<1>1. commit' \in [Dialogs -> Commits]
  BY Zenon DEF TypeOK, Reloads, Commits
<1>2. /\ commit'[d].at = commit[d].at
      /\ commit'[d].published = commit[d].published
      /\ commit'[d].reloaded = o
  BY SMT DEF TypeOK, Reloads, Commits
<1>3. \A e \in Dialogs : e # d => commit'[e] = commit[e]
  BY SMT DEF TypeOK, Reloads
<1>. QED
  BY <1>1, <1>2, <1>3 DEF CommitIs

\* A window opens.
LEMMA OpenEffect ==
    ASSUME TypeOK, NEW d \in Dialogs, NEW o \in BOOLEAN,
           Opens(d, o)
    PROVE  WindowIs(d, "open", o, window[d].view, window[d].closed,
                  window[d].committing, TRUE, window[d].prepared,
                  window[d].told)
<1>1. window' \in [Dialogs -> Windows]
  <2>1. \A r \in Windows :
            [r EXCEPT !.state = "open", !.ocr = o, !.polling = TRUE] \in Windows
    BY ZenonT(30) DEF Windows
  <2>2. window' = [window EXCEPT ![d] =
            [@ EXCEPT !.state = "open", !.ocr = o, !.polling = TRUE]]
    BY Zenon DEF TypeOK, Opens
  <2>3. window \in [Dialogs -> Windows]
    BY DEF TypeOK
  <2>. QED
    BY <2>1, <2>2, <2>3, Zenon
<1>2. /\ window'[d].state = "open"
      /\ window'[d].ocr = o
      /\ window'[d].view = window[d].view
      /\ window'[d].closed = window[d].closed
      /\ window'[d].committing = window[d].committing
      /\ window'[d].polling = TRUE
      /\ window'[d].prepared = window[d].prepared
      /\ window'[d].told = window[d].told
  BY SMT DEF TypeOK, Opens, Windows
<1>3. \A e \in Dialogs : e # d => window'[e] = window[e]
  BY SMT DEF TypeOK, Opens
<1>. QED
  BY <1>1, <1>2, <1>3 DEF WindowIs

\* A window shows a view.
LEMMA ShowsEffect ==
    ASSUME TypeOK, NEW d \in Dialogs, NEW v \in {"preview", "ocr"},
           Shows(d, v)
    PROVE  WindowIs(d, window[d].state, window[d].ocr, v, window[d].closed,
                  window[d].committing, FALSE, window[d].prepared,
                  window[d].told)
<1>1. window' \in [Dialogs -> Windows]
  <2>1. \A r \in Windows :
            [r EXCEPT !.view = v, !.polling = FALSE] \in Windows
    BY ZenonT(30) DEF Windows
  <2>2. window' = [window EXCEPT ![d] =
            [@ EXCEPT !.view = v, !.polling = FALSE]]
    BY Zenon DEF TypeOK, Shows
  <2>3. window \in [Dialogs -> Windows]
    BY DEF TypeOK
  <2>. QED
    BY <2>1, <2>2, <2>3, Zenon
<1>2. /\ window'[d].state = window[d].state
      /\ window'[d].ocr = window[d].ocr
      /\ window'[d].view = v
      /\ window'[d].closed = window[d].closed
      /\ window'[d].committing = window[d].committing
      /\ window'[d].polling = FALSE
      /\ window'[d].prepared = window[d].prepared
      /\ window'[d].told = window[d].told
  BY SMT DEF TypeOK, Shows, Windows
<1>3. \A e \in Dialogs : e # d => window'[e] = window[e]
  BY SMT DEF TypeOK, Shows
<1>. QED
  BY <1>1, <1>2, <1>3 DEF WindowIs

\* A window shows an error.
LEMMA ShowsErrorEffect ==
    ASSUME TypeOK, NEW d \in Dialogs,
           ShowsError(d)
    PROVE  WindowIs(d, window[d].state, window[d].ocr, "error",
                  window[d].closed, FALSE, FALSE, window[d].prepared, TRUE)
<1>1. window' \in [Dialogs -> Windows]
  <2>1. \A r \in Windows :
            [r EXCEPT !.view = "error", !.committing = FALSE, !.polling = FALSE,
               !.told = TRUE] \in Windows
    BY ZenonT(30) DEF Windows
  <2>2. window' = [window EXCEPT ![d] =
            [@ EXCEPT !.view = "error", !.committing = FALSE, !.polling = FALSE, !.told = TRUE]]
    BY Zenon DEF TypeOK, ShowsError
  <2>3. window \in [Dialogs -> Windows]
    BY DEF TypeOK
  <2>. QED
    BY <2>1, <2>2, <2>3, Zenon
<1>2. /\ window'[d].state = window[d].state
      /\ window'[d].ocr = window[d].ocr
      /\ window'[d].view = "error"
      /\ window'[d].closed = window[d].closed
      /\ window'[d].committing = FALSE
      /\ window'[d].polling = FALSE
      /\ window'[d].prepared = window[d].prepared
      /\ window'[d].told = TRUE
  BY SMT DEF TypeOK, ShowsError, Windows
<1>3. \A e \in Dialogs : e # d => window'[e] = window[e]
  BY SMT DEF TypeOK, ShowsError
<1>. QED
  BY <1>1, <1>2, <1>3 DEF WindowIs

\* A window shows the preview.
LEMMA PreviewEffect ==
    ASSUME TypeOK, NEW d \in Dialogs,
           ShowsPreview(d)
    PROVE  WindowIs(d, window[d].state, window[d].ocr, "preview",
                  window[d].closed, window[d].committing, FALSE, TRUE,
                  window[d].told)
<1>1. window' \in [Dialogs -> Windows]
  <2>1. \A r \in Windows :
            [r EXCEPT !.view = "preview", !.polling = FALSE, !.prepared = TRUE] \in Windows
    BY ZenonT(30) DEF Windows
  <2>2. window' = [window EXCEPT ![d] =
            [@ EXCEPT !.view = "preview", !.polling = FALSE, !.prepared = TRUE]]
    BY Zenon DEF TypeOK, ShowsPreview
  <2>3. window \in [Dialogs -> Windows]
    BY DEF TypeOK
  <2>. QED
    BY <2>1, <2>2, <2>3, Zenon
<1>2. /\ window'[d].state = window[d].state
      /\ window'[d].ocr = window[d].ocr
      /\ window'[d].view = "preview"
      /\ window'[d].closed = window[d].closed
      /\ window'[d].committing = window[d].committing
      /\ window'[d].polling = FALSE
      /\ window'[d].prepared = TRUE
      /\ window'[d].told = window[d].told
  BY SMT DEF TypeOK, ShowsPreview, Windows
<1>3. \A e \in Dialogs : e # d => window'[e] = window[e]
  BY SMT DEF TypeOK, ShowsPreview
<1>. QED
  BY <1>1, <1>2, <1>3 DEF WindowIs

\* A window goes.
LEMMA DestroysEffect ==
    ASSUME TypeOK, NEW d \in Dialogs,
           Closes(d)
    PROVE  WindowIs(d, "gone", window[d].ocr, window[d].view, TRUE,
                  window[d].committing, FALSE, window[d].prepared,
                  window[d].told)
<1>1. window' \in [Dialogs -> Windows]
  <2>1. \A r \in Windows :
            [r EXCEPT !.state = "gone", !.closed = TRUE, !.polling = FALSE] \in Windows
    BY ZenonT(30) DEF Windows
  <2>2. window' = [window EXCEPT ![d] =
            [@ EXCEPT !.state = "gone", !.closed = TRUE, !.polling = FALSE]]
    BY Zenon DEF TypeOK, Closes
  <2>3. window \in [Dialogs -> Windows]
    BY DEF TypeOK
  <2>. QED
    BY <2>1, <2>2, <2>3, Zenon
<1>2. /\ window'[d].state = "gone"
      /\ window'[d].ocr = window[d].ocr
      /\ window'[d].view = window[d].view
      /\ window'[d].closed = TRUE
      /\ window'[d].committing = window[d].committing
      /\ window'[d].polling = FALSE
      /\ window'[d].prepared = window[d].prepared
      /\ window'[d].told = window[d].told
  BY SMT DEF TypeOK, Closes, Windows
<1>3. \A e \in Dialogs : e # d => window'[e] = window[e]
  BY SMT DEF TypeOK, Closes
<1>. QED
  BY <1>1, <1>2, <1>3 DEF WindowIs

\* A window stops polling.
LEMMA PollStopsEffect ==
    ASSUME TypeOK, NEW d \in Dialogs,
           window' = [window EXCEPT ![d].polling = FALSE]
    PROVE  WindowIs(d, window[d].state, window[d].ocr, window[d].view,
                  window[d].closed, window[d].committing, FALSE,
                  window[d].prepared, window[d].told)
<1>1. window' \in [Dialogs -> Windows]
  BY Zenon DEF TypeOK, Windows, Windows
<1>2. /\ window'[d].state = window[d].state
      /\ window'[d].ocr = window[d].ocr
      /\ window'[d].view = window[d].view
      /\ window'[d].closed = window[d].closed
      /\ window'[d].committing = window[d].committing
      /\ window'[d].polling = FALSE
      /\ window'[d].prepared = window[d].prepared
      /\ window'[d].told = window[d].told
  BY SMT DEF TypeOK, Windows, Windows
<1>3. \A e \in Dialogs : e # d => window'[e] = window[e]
  BY SMT DEF TypeOK, Windows
<1>. QED
  BY <1>1, <1>2, <1>3 DEF WindowIs

\* A window is closed, and stays.
LEMMA ClosedEffect ==
    ASSUME TypeOK, NEW d \in Dialogs,
           window' = [window EXCEPT ![d].closed = TRUE]
    PROVE  WindowIs(d, window[d].state, window[d].ocr, window[d].view, TRUE,
                  window[d].committing, window[d].polling,
                  window[d].prepared, window[d].told)
<1>1. window' \in [Dialogs -> Windows]
  BY Zenon DEF TypeOK, Windows, Windows
<1>2. /\ window'[d].state = window[d].state
      /\ window'[d].ocr = window[d].ocr
      /\ window'[d].view = window[d].view
      /\ window'[d].closed = TRUE
      /\ window'[d].committing = window[d].committing
      /\ window'[d].polling = window[d].polling
      /\ window'[d].prepared = window[d].prepared
      /\ window'[d].told = window[d].told
  BY SMT DEF TypeOK, Windows, Windows
<1>3. \A e \in Dialogs : e # d => window'[e] = window[e]
  BY SMT DEF TypeOK, Windows
<1>. QED
  BY <1>1, <1>2, <1>3 DEF WindowIs

\* A review is answered.
LEMMA ReviewedEffect ==
    ASSUME TypeOK, NEW d \in Dialogs,
           window' = [window EXCEPT ![d].view = "reviewed"]
    PROVE  WindowIs(d, window[d].state, window[d].ocr, "reviewed",
                  window[d].closed, window[d].committing, window[d].polling,
                  window[d].prepared, window[d].told)
<1>1. window' \in [Dialogs -> Windows]
  BY Zenon DEF TypeOK, Windows, Windows
<1>2. /\ window'[d].state = window[d].state
      /\ window'[d].ocr = window[d].ocr
      /\ window'[d].view = "reviewed"
      /\ window'[d].closed = window[d].closed
      /\ window'[d].committing = window[d].committing
      /\ window'[d].polling = window[d].polling
      /\ window'[d].prepared = window[d].prepared
      /\ window'[d].told = window[d].told
  BY SMT DEF TypeOK, Windows, Windows
<1>3. \A e \in Dialogs : e # d => window'[e] = window[e]
  BY SMT DEF TypeOK, Windows
<1>. QED
  BY <1>1, <1>2, <1>3 DEF WindowIs

\* Import is pressed.
LEMMA ImportEffect ==
    ASSUME TypeOK, NEW d \in Dialogs,
           Commences(d)
    PROVE  WindowIs(d, window[d].state, window[d].ocr, "busy",
                  window[d].closed, TRUE, TRUE, window[d].prepared,
                  window[d].told)
<1>1. window' \in [Dialogs -> Windows]
  <2>1. \A r \in Windows :
            [r EXCEPT !.committing = TRUE, !.view = "busy", !.polling = TRUE] \in Windows
    BY ZenonT(30) DEF Windows
  <2>2. window' = [window EXCEPT ![d] =
            [@ EXCEPT !.committing = TRUE, !.view = "busy", !.polling = TRUE]]
    BY Zenon DEF TypeOK, Commences
  <2>3. window \in [Dialogs -> Windows]
    BY DEF TypeOK
  <2>. QED
    BY <2>1, <2>2, <2>3, Zenon
<1>2. /\ window'[d].state = window[d].state
      /\ window'[d].ocr = window[d].ocr
      /\ window'[d].view = "busy"
      /\ window'[d].closed = window[d].closed
      /\ window'[d].committing = TRUE
      /\ window'[d].polling = TRUE
      /\ window'[d].prepared = window[d].prepared
      /\ window'[d].told = window[d].told
  BY SMT DEF TypeOK, Commences, Windows
<1>3. \A e \in Dialogs : e # d => window'[e] = window[e]
  BY SMT DEF TypeOK, Commences
<1>. QED
  BY <1>1, <1>2, <1>3 DEF WindowIs

\* An adapted source is deleted, another is left alone.
LEMMA ReleasesEffect ==
    ASSUME TypeOK, NEW d \in Dialogs, Releases(d)
    PROVE  SourceIs(d, Released(source[d]))
  BY DEF TypeOK, Releases, Released, Sources, SourceIs

\* The removal of a snapshot, failed or not, leaves a record of a package.
LEMMA Removed ==
    ASSUME NEW p \in Packages
    PROVE  /\ Gone(p) \in Packages
           /\ Botched(p) \subseteq Packages
           /\ \A q \in Botched(p) : q.botched /\ q.spent = p.spent
  BY DEF Packages, Gone, Botched

\* An answer is queued.
LEMMA PutEffect ==
    ASSUME TypeOK, NEW d \in Dialogs, NEW a \in Answers, Put(d, a)
    PROVE  QueueIs(d, Append(queue[d], a))
<1>1. queue[d] \in Seq(Answers)
    BY DEF TypeOK
<1>2. Append(queue[d], a) \in Seq(Answers)
    BY <1>1, AppendProperties
<1>. QED
    BY <1>2 DEF TypeOK, Put, QueueIs

\* An answer is taken.
LEMMA TakeEffect ==
    ASSUME TypeOK, NEW d \in Dialogs, queue[d] # <<>>,
           queue' = [queue EXCEPT ![d] = Tail(@)]
    PROVE  QueueIs(d, Tail(queue[d]))
<1>1. queue[d] \in Seq(Answers)
    BY DEF TypeOK
<1>2. Tail(queue[d]) \in Seq(Answers)
    BY <1>1, HeadTailProperties
<1>. QED
    BY <1>2 DEF TypeOK, QueueIs

\* All answers are dropped.
LEMMA DropEffect ==
    ASSUME TypeOK, NEW d \in Dialogs, queue' = [queue EXCEPT ![d] = <<>>]
    PROVE  QueueIs(d, <<>>)
  BY DEF TypeOK, QueueIs

\* One answer alone, and the answers an OCR import can have.
LEMMA AnswerFacts ==
    /\ \A a \in Answers :
           /\ Alone(a) # <<>> /\ Append(<<>>, a) = Alone(a)
           /\ Head(Alone(a)) = a /\ Tail(Alone(a)) = <<>>
           /\ \A b \in Answers : Alone(a) = Alone(b) => a = b
    /\ <<>> \in OcrAnswers /\ Alone("prepared") \notin OcrAnswers
    /\ \A q \in OcrAnswers :
           /\ \A a \in {"ocr", "error"} : Append(q, a) \in OcrAnswers
           /\ q # <<>> => Head(q) \in {"ocr", "error"} /\ Tail(q) \in OcrAnswers
<1>1. \A a \in Answers :
          /\ Alone(a) # <<>> /\ Append(<<>>, a) = Alone(a)
          /\ Head(Alone(a)) = a /\ Tail(Alone(a)) = <<>>
          /\ \A b \in Answers : Alone(a) = Alone(b) => a = b
    BY DEF Alone
<1>2. <<>> \in OcrAnswers
    BY DEF OcrAnswers
<1>3. Alone("prepared") \notin OcrAnswers
    BY DEF OcrAnswers, Alone
<1>4. ASSUME NEW q \in OcrAnswers
      PROVE  /\ \A a \in {"ocr", "error"} : Append(q, a) \in OcrAnswers
             /\ q # <<>> => Head(q) \in {"ocr", "error"} /\ Tail(q) \in OcrAnswers
    BY <1>4, AppendProperties, HeadTailProperties DEF OcrAnswers
<1>. QED
    BY <1>1, <1>2, <1>3, <1>4

\* What the worker carries is of the types of its fields.
LEMMA WorkersTyped ==
    ASSUME TypeOK, NEW d \in Dialogs
    PROVE  worker[d].out \in Outcomes
  BY DEF TypeOK, Workers

\* A removal that failed or not: the snapshot is gone, or its removal raised.
CleanedUp(d) ==
    /\ package' \in [Dialogs -> Packages]
    /\ package'[d].snap = "none" \/ package'[d].botched
    /\ package'[d].spent \/ package'[d].botched
    /\ package[d].spent => package'[d].spent
    /\ \A e \in Dialogs : e # d => package'[e] = package[e]

\* A removal that does not raise leaves nothing.
LEMMA CleansUpEffect ==
    ASSUME TypeOK, NEW d \in Dialogs, CleansUp(d)
    PROVE  CleanedUp(d) /\ package'[d].snap = "none" /\ package'[d].spent
    /\ failures' = failures
<1>1. PackageIs(d, "none", FALSE, TRUE, package[d].botched)
    BY GoneEffect DEF CleansUp
<1>. QED
    BY <1>1 DEF PackageIs, CleanedUp, CleansUp

\* A removal that raises leaves something that is known to be left.
LEMMA BotchedRemoval ==
    ASSUME TypeOK, NEW d \in Dialogs, NEW p \in Botched(package[d]),
           package' = [package EXCEPT ![d] = p]
    PROVE  CleanedUp(d) /\ package'[d].botched
<1>1. package \in [Dialogs -> Packages]
    BY DEF TypeOK
<1>2. p \in Packages /\ p.botched /\ p.spent = package[d].spent
    BY <1>1, Removed
<1>. QED
    BY <1>1, <1>2 DEF CleanedUp

\* The ways a clean-up may end in an error.
LEMMA RaisesEffect ==
    ASSUME TypeOK, NEW d \in Dialogs
    PROVE  /\ CleanUpFails(d) => CleanedUp(d) /\ package'[d].botched /\ Fail
           /\ CleanUpRaises(d) =>
                  CleanedUp(d) /\ package'[d].botched /\ (Fail \/ failures' = failures)
           /\ RaisesOver(d) => CleanedUp(d) /\ Fail
<1>1. CleanUpFails(d) => CleanedUp(d) /\ package'[d].botched /\ Fail
    BY BotchedRemoval DEF CleanUpFails
<1>2. CleanUpRaises(d) =>
          CleanedUp(d) /\ package'[d].botched /\ (Fail \/ failures' = failures)
  <2>1. CASE CleanUpFails(d)
    BY <1>1, <2>1
  <2>2. CASE /\ package' = [package EXCEPT ![d].botched = TRUE]
             /\ UNCHANGED failures
    BY <2>2, BotchedEffect DEF PackageIs, CleanedUp
  <2>. QED
    BY <2>1, <2>2 DEF CleanUpRaises
<1>3. RaisesOver(d) => CleanedUp(d) /\ Fail
  <2>1. ASSUME package' = [package EXCEPT ![d] = Gone(@)] PROVE CleanedUp(d)
    BY <2>1, GoneEffect DEF PackageIs, CleanedUp
  <2>. QED
    BY <2>1, BotchedRemoval DEF RaisesOver
<1>. QED
    BY <1>1, <1>2, <1>3

\* The fields that are true or false.
LEMMA Fields ==
    ASSUME TypeOK
    PROVE  \A d \in Dialogs :
               /\ package[d].leased \in BOOLEAN /\ package[d].spent \in BOOLEAN
               /\ package[d].botched \in BOOLEAN
               /\ commit[d].published \in BOOLEAN /\ commit[d].reloaded \in {"none", "loaded",
                  "failed"}
               /\ window[d].ocr \in BOOLEAN /\ window[d].closed \in BOOLEAN
               /\ window[d].committing \in BOOLEAN /\ window[d].polling \in BOOLEAN
               /\ window[d].prepared \in BOOLEAN /\ window[d].told \in BOOLEAN
  BY DEF TypeOK, Workers, Packages, Commits, Windows

-----------------------------------------------------------------------------
(* Steps.                                                                  *)

\* A step of one dialog leaves the others what they were, but for the lock.
LEMMA Others ==
    ASSUME IInv, NEW d \in Dialogs, TypeOK', DialogInv(d)',
           \A e \in Dialogs : e # d =>
               /\ worker'[e] = worker[e] /\ package'[e] = package[e]
               /\ commit'[e] = commit[e] /\ window'[e] = window[e]
               /\ queue'[e] = queue[e] /\ source'[e] = source[e],
           \/ lock' = lock
           \/ lock = Free /\ lock' = d
           \/ lock = d /\ lock' = Free
    PROVE  IInv'
<1>1. ASSUME NEW e \in Dialogs, e # d PROVE DialogInv(e)'
  <2>1. LockInv(e)'
    BY <1>1, DialogAssumption DEF IInv, DialogInv, LockInv
  <2>2. WorkerInv(e)' /\ SnapInv(e)'
    BY <1>1 DEF IInv, DialogInv, WorkerInv, SnapInv, Fresh, Backed
  <2>3. QueueInv(e)' /\ WindowInv(e)' /\ SourceInv(e)' /\ CommitInv(e)'
    BY <1>1 DEF IInv, DialogInv, QueueInv, WindowInv, SourceInv, CommitInv,
        Backed, Committing, Closed
  <2>. QED
    BY <2>1, <2>2, <2>3 DEF DialogInv
<1>. QED
    BY <1>1 DEF IInv

\* The lock is taken to recover, or an error reported.
LEMMA ReconcileStep ==
    ASSUME IInv, NEW d \in Dialogs, Reconcile(d)
    PROVE  IInv'
<1> USE DEF IInv
<1>1. \/ /\ lock = Free
         /\ lock' = d
         /\ WorkerIs(d, "recovering", worker[d].out, worker[d].dir, worker[d].artifacts)
      \/ /\ lock' = lock
         /\ WorkerIs(d, "report", "error", worker[d].dir, worker[d].artifacts)
    BY GoesEffect, RaisedEffect DEF Reconcile, WorkerStages, Inside, Reading,
        Outcomes
<1>2. TypeOK'
    BY <1>1, DialogAssumption DEF TypeOK, WorkerIs, PackageIs, CommitIs,
        WindowIs, QueueIs, CleanedUp, others, dialog, threads, Reconcile
<1>3. DialogInv(d)'
  <2>1. WorkerInv(d)'
    BY <1>1, <1>2, Fields DEF DialogInv, WorkerInv, WindowInv, Early, Inside,
        Reading, Backed, Closed, WorkerIs, PackageIs, CommitIs, WindowIs,
        QueueIs, CleanedUp, others, dialog, threads, Reconcile, At
  <2>2. SnapInv(d)'
    BY <1>1, <1>2, Fields, AnswerFacts DEF DialogInv, WorkerInv, SnapInv,
        Early, Late, Inside, Reading, Fresh, Backed, Unjournaled, WorkerIs,
        PackageIs, CommitIs, WindowIs, QueueIs, CleanedUp, others, dialog, threads,
        Reconcile, At
  <2>3. QueueInv(d)'
    BY <1>1, <1>2, Fields, AnswerFacts DEF DialogInv, WorkerInv, SnapInv,
        QueueInv, Answers, Early, Late, Inside, Reading, Fresh, Backed,
        Unjournaled, Closed, WorkerIs, PackageIs, CommitIs, WindowIs,
        QueueIs, CleanedUp, others, dialog, threads, Reconcile, At
  <2>4. WindowInv(d)'
    BY <1>1, <1>2, Fields DEF DialogInv, WorkerInv, QueueInv, WindowInv,
        Answers, Early, Late, Inside, Reading, Backed, Closed, WorkerIs,
        PackageIs, CommitIs, WindowIs, QueueIs, CleanedUp, others, dialog, threads,
        Reconcile, At
  <2>5. CommitInv(d)'
    BY <1>1, <1>2, Fields DEF DialogInv, WindowInv, CommitInv, LockInv,
        Backed, Committing, Closed, WorkerIs, PackageIs, CommitIs, WindowIs,
        QueueIs, CleanedUp, others, dialog, threads, Reconcile, At
  <2>6. LockInv(d)'
    BY <1>1, <1>2, Fields DEF DialogInv, WorkerInv, CommitInv, LockInv,
        Early, Inside, Reading, Committing, WorkerIs, PackageIs, CommitIs,
        WindowIs, QueueIs, CleanedUp, others, dialog, threads, Reconcile, At
  <2>7. SourceInv(d)'
    BY <1>1, <1>2, Fields, AnswerFacts DEF DialogInv, WorkerInv, QueueInv, WindowInv,
        SourceInv, Early, Inside, Reading, Closed, Released, SourceIs, WorkerIs,
        WindowIs, QueueIs, others, dialog, threads, kept, Reconcile, At
  <2>. QED
    BY <2>1, <2>2, <2>3, <2>4, <2>5, <2>6, <2>7 DEF DialogInv
<1>. QED
    BY <1>1, <1>2, <1>3, Others DEF Reconcile, others, dialog, threads, WorkerIs,
        PackageIs, CommitIs, WindowIs, QueueIs, CleanedUp

\* Recovery settles journaled imports, or raises.  What it removes belongs to no
\* commit under way, for that would hold the lock.
LEMMA RecoveredStep ==
    ASSUME IInv, NEW d \in Dialogs, Recovered(d)
    PROVE  IInv'
<1> USE DEF IInv
<1>1. /\ lock = d /\ lock' = Free /\ worker[d].at = "recovering"
      /\ \/ WorkerIs(d, "workspace", worker[d].out, worker[d].dir,
                     worker[d].artifacts)
         \/ WorkerIs(d, "report", "error", worker[d].dir,
                     worker[d].artifacts)
    BY GoesEffect, RaisedEffect DEF Recovered, WorkerStages, Inside, Reading,
        At
<1>2. \/ package' = package
      \/ \E settled \in SUBSET Journaled :
             package' = [e \in Dialogs |->
                           IF e \in settled THEN Gone(package[e]) ELSE package[e]]
    BY DEF Recovered
<1>3. package' \in [Dialogs -> Packages]
    BY <1>2, Removed DEF TypeOK
<1>4. ASSUME NEW e \in Dialogs
      PROVE  \/ package'[e] = package[e]
             \/ package[e].snap = "journaled" /\ package'[e] = Gone(package[e])
    BY <1>2 DEF Journaled
<1>5. ASSUME NEW p \in Packages
      PROVE  /\ Gone(p).snap = "none" /\ ~Gone(p).leased /\ Gone(p).spent
             /\ Gone(p).botched = p.botched
    BY SMT DEF Gone, Packages
<1>6. ASSUME NEW e \in Dialogs
      PROVE  \/ package'[e] = package[e]
             \/ /\ package[e].snap = "journaled" /\ package'[e].snap = "none"
                /\ ~package'[e].leased /\ package'[e].spent
                /\ package'[e].botched = package[e].botched
    BY <1>4, <1>5 DEF TypeOK
<1>7. ASSUME NEW e \in Dialogs PROVE commit[e].at \notin {"locked", "executing", "published"}
  <2>1. CASE e = d
    BY <1>1, <2>1, Fields DEF DialogInv, QueueInv, CommitInv, Late
  <2>2. CASE e # d
    BY <1>1, <2>2 DEF DialogInv, LockInv
  <2>. QED
    BY <2>1, <2>2
<1>8. TypeOK'
    BY <1>1, <1>3, DialogAssumption DEF TypeOK, WorkerIs, Recovered, others,
        dialog, Fail
<1>9. UNCHANGED <<commit, window, queue, source>>
    BY DEF Recovered, others, dialog
<1>10. ASSUME NEW e \in Dialogs, e # d PROVE DialogInv(e)'
  <2>0. worker'[e] = worker[e]
    BY <1>1, <1>10 DEF WorkerIs
  <2>1. WorkerInv(e)'
    BY <2>0, <1>9 DEF DialogInv, WorkerInv
  <2>2. SnapInv(e)'
    BY <2>0, <1>6, <1>9, Fields DEF DialogInv, SnapInv, Fresh, Backed,
        Unjournaled, Early
  <2>3. QueueInv(e)'
    BY <2>0, <1>6, <1>9, Fields DEF DialogInv, QueueInv, Backed, Closed
  <2>4. WindowInv(e)'
    BY <2>0, <1>6, <1>9, Fields DEF DialogInv, WindowInv, Backed, Closed
  <2>5. CommitInv(e)'
    BY <2>0, <1>6, <1>7, <1>9, Fields DEF DialogInv, CommitInv, Committing
  <2>6. LockInv(e)'
    BY <2>0, <1>1, <1>7, <1>9, <1>10 DEF DialogInv, LockInv
  <2>7. SourceInv(e)'
    BY <2>0, <1>9 DEF DialogInv, SourceInv, Closed
  <2>. QED
    BY <2>1, <2>2, <2>3, <2>4, <2>5, <2>6, <2>7 DEF DialogInv
<1>11. DialogInv(d)'
  <2>0. package'[d] = package[d]
    BY <1>1, <1>6 DEF DialogInv, SnapInv, Early
  <2>1. WorkerInv(d)'
    BY <1>1, <1>9 DEF DialogInv, WorkerInv, WorkerIs, Early, Inside, Reading
  <2>2. SnapInv(d)'
    BY <1>1, <1>9, <2>0 DEF DialogInv, SnapInv, WorkerIs, Early, Late, Fresh,
        Unjournaled
  <2>3. QueueInv(d)'
    BY <1>1, <1>9, <2>0 DEF DialogInv, QueueInv, WorkerIs, Early, Late, Backed,
        Closed
  <2>4. WindowInv(d)' /\ CommitInv(d)'
    BY <1>9, <2>0 DEF DialogInv, WindowInv, CommitInv, Backed, Committing,
        Closed
  <2>5. LockInv(d)'
    BY <1>1, <1>7, <1>9 DEF LockInv, WorkerIs
  <2>6. SourceInv(d)'
    BY <1>1, <1>9 DEF DialogInv, SourceInv, WorkerIs, Closed, Inside, Reading
  <2>. QED
    BY <2>1, <2>2, <2>3, <2>4, <2>5, <2>6 DEF DialogInv
<1>. QED
    BY <1>8, <1>10, <1>11

\* The workspace is made, or an error reported.
LEMMA MakeWorkspaceStep ==
    ASSUME IInv, NEW d \in Dialogs, MakeWorkspace(d)
    PROVE  IInv'
<1> USE DEF IInv
<1>1. \/ WorkerIs(d, "stages", worker[d].out, "live", worker[d].artifacts)
      \/ WorkerIs(d, "report", "error", worker[d].dir, worker[d].artifacts)
    BY PassesEffect, RaisedEffect, WorkersTyped DEF MakeWorkspace,
        WorkerStages, Inside, Reading, Outcomes
<1>2. TypeOK'
    BY <1>1, DialogAssumption DEF TypeOK, WorkerIs, PackageIs, CommitIs,
        WindowIs, QueueIs, CleanedUp, others, dialog, threads, MakeWorkspace, Fail
<1>3. DialogInv(d)'
  <2>1. WorkerInv(d)'
    BY <1>1, <1>2, Fields DEF DialogInv, WorkerInv, WindowInv, Early, Inside,
        Reading, Backed, Closed, WorkerIs, PackageIs, CommitIs, WindowIs,
        QueueIs, CleanedUp, others, dialog, threads, MakeWorkspace, At, Fail
  <2>2. SnapInv(d)'
    BY <1>1, <1>2, Fields, AnswerFacts DEF DialogInv, WorkerInv, SnapInv,
        Early, Late, Inside, Reading, Fresh, Backed, Unjournaled, WorkerIs,
        PackageIs, CommitIs, WindowIs, QueueIs, CleanedUp, others, dialog, threads,
        MakeWorkspace, At, Fail
  <2>3. QueueInv(d)'
    BY <1>1, <1>2, Fields, AnswerFacts DEF DialogInv, WorkerInv, SnapInv,
        QueueInv, Answers, Early, Late, Inside, Reading, Fresh, Backed,
        Unjournaled, Closed, WorkerIs, PackageIs, CommitIs, WindowIs,
        QueueIs, CleanedUp, others, dialog, threads, MakeWorkspace, At, Fail
  <2>4. WindowInv(d)'
    BY <1>1, <1>2, Fields DEF DialogInv, WorkerInv, QueueInv, WindowInv,
        Answers, Early, Late, Inside, Reading, Backed, Closed, WorkerIs,
        PackageIs, CommitIs, WindowIs, QueueIs, CleanedUp, others, dialog, threads,
        MakeWorkspace, At, Fail
  <2>5. CommitInv(d)'
    BY <1>1, <1>2, Fields DEF DialogInv, WindowInv, CommitInv, LockInv,
        Backed, Committing, Closed, WorkerIs, PackageIs, CommitIs, WindowIs,
        QueueIs, CleanedUp, others, dialog, threads, MakeWorkspace, At, Fail
  <2>6. LockInv(d)'
    BY <1>1, <1>2, Fields DEF DialogInv, WorkerInv, CommitInv, LockInv,
        Early, Inside, Reading, Committing, WorkerIs, PackageIs, CommitIs,
        WindowIs, QueueIs, CleanedUp, others, dialog, threads, MakeWorkspace, At,
        Fail
  <2>7. SourceInv(d)'
    BY <1>1, <1>2, Fields, AnswerFacts DEF DialogInv, WorkerInv, QueueInv, WindowInv,
        SourceInv, Early, Inside, Reading, Closed, Released, SourceIs, WorkerIs,
        WindowIs, QueueIs, others, dialog, threads, kept, MakeWorkspace, At, Fail
  <2>. QED
    BY <2>1, <2>2, <2>3, <2>4, <2>5, <2>6, <2>7 DEF DialogInv
<1>. QED
    BY <1>1, <1>2, <1>3, Others DEF MakeWorkspace, others, dialog, threads, WorkerIs,
        PackageIs, CommitIs, WindowIs, QueueIs, CleanedUp, Fail

\* The stages end, one way or another.
LEMMA RunStagesStep ==
    ASSUME IInv, NEW d \in Dialogs, RunStages(d)
    PROVE  IInv'
<1> USE DEF IInv
<1>1. \/ /\ WorkerIs(d, "outcome", worker[d].out, worker[d].dir, worker[d].artifacts)
         /\ ~Closed(d)
      \/ WorkerIs(d, "exit", "error", worker[d].dir, "closed")
    BY GoesEffect, LeavesEffect DEF RunStages, WorkerStages, Inside, Reading,
        Outcomes
<1>2. TypeOK'
    BY <1>1, DialogAssumption DEF TypeOK, WorkerIs, PackageIs, CommitIs,
        WindowIs, QueueIs, CleanedUp, others, dialog, threads, RunStages, Fail
<1>3. DialogInv(d)'
  <2>1. WorkerInv(d)'
    BY <1>1, <1>2, Fields DEF DialogInv, WorkerInv, WindowInv, Early, Inside,
        Reading, Backed, Closed, WorkerIs, PackageIs, CommitIs, WindowIs,
        QueueIs, CleanedUp, others, dialog, threads, RunStages, At, Fail
  <2>2. SnapInv(d)'
    BY <1>1, <1>2, Fields, AnswerFacts DEF DialogInv, WorkerInv, SnapInv,
        Early, Late, Inside, Reading, Fresh, Backed, Unjournaled, WorkerIs,
        PackageIs, CommitIs, WindowIs, QueueIs, CleanedUp, others, dialog, threads,
        RunStages, At, Fail
  <2>3. QueueInv(d)'
    BY <1>1, <1>2, Fields, AnswerFacts DEF DialogInv, WorkerInv, SnapInv,
        QueueInv, Answers, Early, Late, Inside, Reading, Fresh, Backed,
        Unjournaled, Closed, WorkerIs, PackageIs, CommitIs, WindowIs,
        QueueIs, CleanedUp, others, dialog, threads, RunStages, At, Fail
  <2>4. WindowInv(d)'
    BY <1>1, <1>2, Fields DEF DialogInv, WorkerInv, QueueInv, WindowInv,
        Answers, Early, Late, Inside, Reading, Backed, Closed, WorkerIs,
        PackageIs, CommitIs, WindowIs, QueueIs, CleanedUp, others, dialog, threads,
        RunStages, At, Fail
  <2>5. CommitInv(d)'
    BY <1>1, <1>2, Fields DEF DialogInv, WindowInv, CommitInv, LockInv,
        Backed, Committing, Closed, WorkerIs, PackageIs, CommitIs, WindowIs,
        QueueIs, CleanedUp, others, dialog, threads, RunStages, At, Fail
  <2>6. LockInv(d)'
    BY <1>1, <1>2, Fields DEF DialogInv, WorkerInv, CommitInv, LockInv,
        Early, Inside, Reading, Committing, WorkerIs, PackageIs, CommitIs,
        WindowIs, QueueIs, CleanedUp, others, dialog, threads, RunStages, At, Fail
  <2>7. SourceInv(d)'
    BY <1>1, <1>2, Fields, AnswerFacts DEF DialogInv, WorkerInv, QueueInv, WindowInv,
        SourceInv, Early, Inside, Reading, Closed, Released, SourceIs, WorkerIs,
        WindowIs, QueueIs, others, dialog, threads, kept, RunStages, At, Fail
  <2>. QED
    BY <2>1, <2>2, <2>3, <2>4, <2>5, <2>6, <2>7 DEF DialogInv
<1>. QED
    BY <1>1, <1>2, <1>3, Others DEF RunStages, others, dialog, threads, WorkerIs,
        PackageIs, CommitIs, WindowIs, QueueIs, CleanedUp, Fail

\* The outcome is queued, or becomes the prepared artifacts.
LEMMA HandOverStep ==
    ASSUME IInv, NEW d \in Dialogs, HandOver(d)
    PROVE  IInv'
<1> USE DEF IInv
<1>1. \/ /\ WorkerIs(d, "exit", "cancelled", worker[d].dir, "closed")
         /\ queue' = queue
      \/ /\ WorkerIs(d, "exit", "ocr", worker[d].dir, "closed")
         /\ window[d].ocr
         /\ QueueIs(d, Append(queue[d], "ocr"))
      \/ /\ WorkerIs(d, "assembled", worker[d].out, worker[d].dir, "open")
         /\ ~window[d].ocr
         /\ queue' = queue
      \/ /\ WorkerIs(d, "exit", "error", worker[d].dir, "closed")
         /\ queue' = queue
    BY LeavesEffect, HoldsEffect, PutEffect DEF HandOver, WorkerStages,
        Inside, Reading, Outcomes, Answers
<1>2. TypeOK'
    BY <1>1, DialogAssumption DEF TypeOK, WorkerIs, PackageIs, CommitIs,
        WindowIs, QueueIs, CleanedUp, others, dialog, threads, HandOver, Fail
<1>3. DialogInv(d)'
  <2>1. WorkerInv(d)'
    BY <1>1, <1>2, Fields DEF DialogInv, WorkerInv, WindowInv, Early, Inside,
        Reading, Backed, Closed, WorkerIs, PackageIs, CommitIs, WindowIs,
        QueueIs, CleanedUp, others, dialog, threads, HandOver, At, Fail
  <2>2. SnapInv(d)'
    BY <1>1, <1>2, Fields, AnswerFacts DEF DialogInv, WorkerInv, SnapInv,
        Early, Late, Inside, Reading, Fresh, Backed, Unjournaled, WorkerIs,
        PackageIs, CommitIs, WindowIs, QueueIs, CleanedUp, others, dialog, threads,
        HandOver, At, Fail
  <2>3. QueueInv(d)'
    <3>1. CASE /\ WorkerIs(d, "exit", "cancelled", worker[d].dir, "closed")
               /\ queue' = queue
      BY <3>1, <1>2, Fields, AnswerFacts DEF DialogInv, WorkerInv, SnapInv,
          QueueInv, Answers, Early, Late, Inside, Reading, Fresh, Backed,
          Unjournaled, Closed, WorkerIs, PackageIs, CommitIs, WindowIs,
          QueueIs, CleanedUp, others, dialog, threads, HandOver, At, Fail
    <3>2. CASE /\ WorkerIs(d, "exit", "ocr", worker[d].dir, "closed")
               /\ window[d].ocr
               /\ QueueIs(d, Append(queue[d], "ocr"))
      BY <3>2, <1>2, Fields, AnswerFacts DEF DialogInv, WorkerInv, SnapInv,
          QueueInv, Answers, Early, Late, Inside, Reading, Fresh, Backed,
          Unjournaled, Closed, WorkerIs, PackageIs, CommitIs, WindowIs,
          QueueIs, CleanedUp, others, dialog, threads, HandOver, At, Fail
    <3>3. CASE /\ WorkerIs(d, "assembled", worker[d].out, worker[d].dir, "open")
               /\ ~window[d].ocr
               /\ queue' = queue
      BY <3>3, <1>2, Fields, AnswerFacts DEF DialogInv, WorkerInv, SnapInv,
          QueueInv, Answers, Early, Late, Inside, Reading, Fresh, Backed,
          Unjournaled, Closed, WorkerIs, PackageIs, CommitIs, WindowIs,
          QueueIs, CleanedUp, others, dialog, threads, HandOver, At, Fail
    <3>4. CASE /\ WorkerIs(d, "exit", "error", worker[d].dir, "closed")
               /\ queue' = queue
      BY <3>4, <1>2, Fields, AnswerFacts DEF DialogInv, WorkerInv, SnapInv,
          QueueInv, Answers, Early, Late, Inside, Reading, Fresh, Backed,
          Unjournaled, Closed, WorkerIs, PackageIs, CommitIs, WindowIs,
          QueueIs, CleanedUp, others, dialog, threads, HandOver, At, Fail
    <3>. QED
      BY <1>1, <3>1, <3>2, <3>3, <3>4
  <2>4. WindowInv(d)'
    BY <1>1, <1>2, Fields DEF DialogInv, WorkerInv, QueueInv, WindowInv,
        Answers, Early, Late, Inside, Reading, Backed, Closed, WorkerIs,
        PackageIs, CommitIs, WindowIs, QueueIs, CleanedUp, others, dialog, threads,
        HandOver, At, Fail
  <2>5. CommitInv(d)'
    BY <1>1, <1>2, Fields DEF DialogInv, WindowInv, CommitInv, LockInv,
        Backed, Committing, Closed, WorkerIs, PackageIs, CommitIs, WindowIs,
        QueueIs, CleanedUp, others, dialog, threads, HandOver, At, Fail
  <2>6. LockInv(d)'
    BY <1>1, <1>2, Fields DEF DialogInv, WorkerInv, CommitInv, LockInv,
        Early, Inside, Reading, Committing, WorkerIs, PackageIs, CommitIs,
        WindowIs, QueueIs, CleanedUp, others, dialog, threads, HandOver, At, Fail
  <2>7. SourceInv(d)'
    BY <1>1, <1>2, Fields, AnswerFacts DEF DialogInv, WorkerInv, QueueInv, WindowInv,
        SourceInv, Early, Inside, Reading, Closed, Released, SourceIs, WorkerIs,
        WindowIs, QueueIs, others, dialog, threads, kept, HandOver, At, Fail
  <2>. QED
    BY <2>1, <2>2, <2>3, <2>4, <2>5, <2>6, <2>7 DEF DialogInv
<1>. QED
    BY <1>1, <1>2, <1>3, Others DEF HandOver, others, dialog, threads, WorkerIs,
        PackageIs, CommitIs, WindowIs, QueueIs, CleanedUp, Fail

\* A snapshot is begun, or none.
LEMMA BeginSnapshotStep ==
    ASSUME IInv, NEW d \in Dialogs, BeginSnapshot(d)
    PROVE  IInv'
<1> USE DEF IInv
<1>1. \/ /\ WorkerIs(d, "exit", "cancelled", worker[d].dir, "closed")
         /\ package' = package
      \/ /\ WorkerIs(d, "copying", worker[d].out, worker[d].dir, worker[d].artifacts)
         /\ PackageIs(d, "half", package[d].leased, package[d].spent, package[d].botched)
      \/ /\ WorkerIs(d, "exit", "error", worker[d].dir, "closed")
         /\ package' = package
    BY LeavesEffect, GoesEffect, BecomesEffect DEF BeginSnapshot,
        WorkerStages, Inside, Reading, Outcomes
<1>2. TypeOK'
    BY <1>1, DialogAssumption DEF TypeOK, WorkerIs, PackageIs, CommitIs,
        WindowIs, QueueIs, CleanedUp, others, dialog, threads, BeginSnapshot, Fail
<1>3. DialogInv(d)'
  <2>1. WorkerInv(d)'
    BY <1>1, <1>2, Fields DEF DialogInv, WorkerInv, WindowInv, Early, Inside,
        Reading, Backed, Closed, WorkerIs, PackageIs, CommitIs, WindowIs,
        QueueIs, CleanedUp, others, dialog, threads, BeginSnapshot, At, Fail
  <2>2. SnapInv(d)'
    BY <1>1, <1>2, Fields, AnswerFacts DEF DialogInv, WorkerInv, SnapInv,
        Early, Late, Inside, Reading, Fresh, Backed, Unjournaled, WorkerIs,
        PackageIs, CommitIs, WindowIs, QueueIs, CleanedUp, others, dialog, threads,
        BeginSnapshot, At, Fail
  <2>3. QueueInv(d)'
    BY <1>1, <1>2, Fields, AnswerFacts DEF DialogInv, WorkerInv, SnapInv,
        QueueInv, Answers, Early, Late, Inside, Reading, Fresh, Backed,
        Unjournaled, Closed, WorkerIs, PackageIs, CommitIs, WindowIs,
        QueueIs, CleanedUp, others, dialog, threads, BeginSnapshot, At, Fail
  <2>4. WindowInv(d)'
    BY <1>1, <1>2, Fields DEF DialogInv, WorkerInv, QueueInv, WindowInv,
        Answers, Early, Late, Inside, Reading, Backed, Closed, WorkerIs,
        PackageIs, CommitIs, WindowIs, QueueIs, CleanedUp, others, dialog, threads,
        BeginSnapshot, At, Fail
  <2>5. CommitInv(d)'
    BY <1>1, <1>2, Fields DEF DialogInv, WorkerInv, SnapInv, QueueInv,
        WindowInv, CommitInv, LockInv, Answers, Early, Late, Inside, Reading,
        Fresh, Backed, Unjournaled, Committing, Closed, WorkerIs, PackageIs,
        CommitIs, WindowIs, QueueIs, CleanedUp, others, dialog, threads,
        BeginSnapshot, At, Fail
  <2>6. LockInv(d)'
    BY <1>1, <1>2, Fields DEF DialogInv, WorkerInv, CommitInv, LockInv,
        Early, Inside, Reading, Committing, WorkerIs, PackageIs, CommitIs,
        WindowIs, QueueIs, CleanedUp, others, dialog, threads, BeginSnapshot, At,
        Fail
  <2>7. SourceInv(d)'
    BY <1>1, <1>2, Fields, AnswerFacts DEF DialogInv, WorkerInv, QueueInv, WindowInv,
        SourceInv, Early, Inside, Reading, Closed, Released, SourceIs, WorkerIs,
        WindowIs, QueueIs, others, dialog, threads, kept, BeginSnapshot, At, Fail
  <2>. QED
    BY <2>1, <2>2, <2>3, <2>4, <2>5, <2>6, <2>7 DEF DialogInv
<1>. QED
    BY <1>1, <1>2, <1>3, Others DEF BeginSnapshot, others, dialog, threads, WorkerIs,
        PackageIs, CommitIs, WindowIs, QueueIs, CleanedUp, Fail

\* The package is copied, or not.
LEMMA CopyPackageStep ==
    ASSUME IInv, NEW d \in Dialogs, CopyPackage(d)
    PROVE  IInv'
<1> USE DEF IInv
<1>1. \/ /\ WorkerIs(d, "raw", worker[d].out, worker[d].dir, worker[d].artifacts)
         /\ PackageIs(d, "raw", TRUE, package[d].spent, package[d].botched)
         /\ failures' = failures
      \/ /\ WorkerIs(d, "exit", "error", worker[d].dir, "closed")
         /\ CleanedUp(d)
         /\ Fail
    BY GoesEffect, LeavesEffect, RaisesEffect, CopiedEffect DEF CopyPackage,
        WorkerStages, Inside, Reading, Outcomes
<1>2. TypeOK'
    BY <1>1, DialogAssumption DEF TypeOK, WorkerIs, PackageIs, CommitIs,
        WindowIs, QueueIs, CleanedUp, others, dialog, threads, CopyPackage, Fail
<1>3. DialogInv(d)'
  <2>1. WorkerInv(d)'
    BY <1>1, <1>2, Fields DEF DialogInv, WorkerInv, WindowInv, Early, Inside,
        Reading, Backed, Closed, WorkerIs, PackageIs, CommitIs, WindowIs,
        QueueIs, CleanedUp, others, dialog, threads, CopyPackage, At, Fail
  <2>2. SnapInv(d)'
    BY <1>1, <1>2, Fields, AnswerFacts DEF DialogInv, WorkerInv, SnapInv,
        Early, Late, Inside, Reading, Fresh, Backed, Unjournaled, WorkerIs,
        PackageIs, CommitIs, WindowIs, QueueIs, CleanedUp, others, dialog, threads,
        CopyPackage, At, Fail
  <2>3. QueueInv(d)'
    BY <1>1, <1>2, Fields, AnswerFacts DEF DialogInv, WorkerInv, SnapInv,
        QueueInv, Answers, Early, Late, Inside, Reading, Fresh, Backed,
        Unjournaled, Closed, WorkerIs, PackageIs, CommitIs, WindowIs,
        QueueIs, CleanedUp, others, dialog, threads, CopyPackage, At, Fail
  <2>4. WindowInv(d)'
    BY <1>1, <1>2, Fields DEF DialogInv, WorkerInv, QueueInv, WindowInv,
        Answers, Early, Late, Inside, Reading, Backed, Closed, WorkerIs,
        PackageIs, CommitIs, WindowIs, QueueIs, CleanedUp, others, dialog, threads,
        CopyPackage, At, Fail
  <2>5. CommitInv(d)'
    BY <1>1, <1>2, Fields DEF DialogInv, WorkerInv, SnapInv, QueueInv,
        WindowInv, CommitInv, LockInv, Answers, Early, Late, Inside, Reading,
        Fresh, Backed, Unjournaled, Committing, Closed, WorkerIs, PackageIs,
        CommitIs, WindowIs, QueueIs, CleanedUp, others, dialog, threads, CopyPackage,
        At, Fail
  <2>6. LockInv(d)'
    BY <1>1, <1>2, Fields DEF DialogInv, WorkerInv, CommitInv, LockInv,
        Early, Inside, Reading, Committing, WorkerIs, PackageIs, CommitIs,
        WindowIs, QueueIs, CleanedUp, others, dialog, threads, CopyPackage, At, Fail
  <2>7. SourceInv(d)'
    BY <1>1, <1>2, Fields, AnswerFacts DEF DialogInv, WorkerInv, QueueInv, WindowInv,
        SourceInv, Early, Inside, Reading, Closed, Released, SourceIs, WorkerIs,
        WindowIs, QueueIs, others, dialog, threads, kept, CopyPackage, At, Fail
  <2>. QED
    BY <2>1, <2>2, <2>3, <2>4, <2>5, <2>6, <2>7 DEF DialogInv
<1>. QED
    BY <1>1, <1>2, <1>3, Others DEF CopyPackage, others, dialog, threads, WorkerIs,
        PackageIs, CommitIs, WindowIs, QueueIs, CleanedUp, Fail

\* The lock is taken to seal, or the snapshot is removed.
LEMMA BeginSealStep ==
    ASSUME IInv, NEW d \in Dialogs, BeginSeal(d)
    PROVE  IInv'
<1> USE DEF IInv
<1>1. \/ /\ lock = Free
         /\ lock' = d
         /\ WorkerIs(d, "sealing", worker[d].out, worker[d].dir, "claimed")
         /\ package' = package
      \/ /\ lock' = lock
         /\ WorkerIs(d, "exit", "error", worker[d].dir, "closed")
         /\ CleanedUp(d)
         /\ Fail \/ failures' = failures
    BY HoldsEffect, LeavesEffect, RaisesEffect, CleansUpEffect DEF BeginSeal,
        WorkerStages, Inside, Reading, Outcomes
<1>2. TypeOK'
    BY <1>1, DialogAssumption DEF TypeOK, WorkerIs, PackageIs, CommitIs,
        WindowIs, QueueIs, CleanedUp, others, dialog, threads, BeginSeal, Fail
<1>3. DialogInv(d)'
  <2>1. WorkerInv(d)'
    BY <1>1, <1>2, Fields DEF DialogInv, WorkerInv, WindowInv, Early, Inside,
        Reading, Backed, Closed, WorkerIs, PackageIs, CommitIs, WindowIs,
        QueueIs, CleanedUp, others, dialog, threads, BeginSeal, At, Fail
  <2>2. SnapInv(d)'
    BY <1>1, <1>2, Fields, AnswerFacts DEF DialogInv, WorkerInv, SnapInv,
        Early, Late, Inside, Reading, Fresh, Backed, Unjournaled, WorkerIs,
        PackageIs, CommitIs, WindowIs, QueueIs, CleanedUp, others, dialog, threads,
        BeginSeal, At, Fail
  <2>3. QueueInv(d)'
    BY <1>1, <1>2, Fields, AnswerFacts DEF DialogInv, WorkerInv, SnapInv,
        QueueInv, Answers, Early, Late, Inside, Reading, Fresh, Backed,
        Unjournaled, Closed, WorkerIs, PackageIs, CommitIs, WindowIs,
        QueueIs, CleanedUp, others, dialog, threads, BeginSeal, At, Fail
  <2>4. WindowInv(d)'
    BY <1>1, <1>2, Fields DEF DialogInv, WorkerInv, QueueInv, WindowInv,
        Answers, Early, Late, Inside, Reading, Backed, Closed, WorkerIs,
        PackageIs, CommitIs, WindowIs, QueueIs, CleanedUp, others, dialog, threads,
        BeginSeal, At, Fail
  <2>5. CommitInv(d)'
    BY <1>1, <1>2, Fields DEF DialogInv, WorkerInv, SnapInv, QueueInv,
        WindowInv, CommitInv, LockInv, Answers, Early, Late, Inside, Reading,
        Fresh, Backed, Unjournaled, Committing, Closed, WorkerIs, PackageIs,
        CommitIs, WindowIs, QueueIs, CleanedUp, others, dialog, threads, BeginSeal,
        At, Fail
  <2>6. LockInv(d)'
    BY <1>1, <1>2, Fields DEF DialogInv, WorkerInv, CommitInv, LockInv,
        Early, Inside, Reading, Committing, WorkerIs, PackageIs, CommitIs,
        WindowIs, QueueIs, CleanedUp, others, dialog, threads, BeginSeal, At, Fail
  <2>7. SourceInv(d)'
    BY <1>1, <1>2, Fields, AnswerFacts DEF DialogInv, WorkerInv, QueueInv, WindowInv,
        SourceInv, Early, Inside, Reading, Closed, Released, SourceIs, WorkerIs,
        WindowIs, QueueIs, others, dialog, threads, kept, BeginSeal, At, Fail
  <2>. QED
    BY <2>1, <2>2, <2>3, <2>4, <2>5, <2>6, <2>7 DEF DialogInv
<1>. QED
    BY <1>1, <1>2, <1>3, Others DEF BeginSeal, others, dialog, threads, WorkerIs,
        PackageIs, CommitIs, WindowIs, QueueIs, CleanedUp, Fail

\* Both snapshots exist, or none.
LEMMA SealStep ==
    ASSUME IInv, NEW d \in Dialogs, Seal(d)
    PROVE  IInv'
<1> USE DEF IInv
<1>1. \/ /\ WorkerIs(d, "sealed", worker[d].out, worker[d].dir, "closed")
         /\ PackageIs(d, "both", package[d].leased, package[d].spent, package[d].botched)
         /\ failures' = failures
      \/ /\ WorkerIs(d, "exit", "error", worker[d].dir, "closed")
         /\ CleanedUp(d)
         /\ Fail
    BY HoldsEffect, LeavesEffect, RaisesEffect, BecomesEffect DEF Seal,
        WorkerStages, Inside, Reading, Outcomes
<1>2. TypeOK'
    BY <1>1, DialogAssumption DEF TypeOK, WorkerIs, PackageIs, CommitIs,
        WindowIs, QueueIs, CleanedUp, others, dialog, threads, Seal, Fail
<1>3. DialogInv(d)'
  <2>1. WorkerInv(d)'
    BY <1>1, <1>2, Fields DEF DialogInv, WorkerInv, WindowInv, Early, Inside,
        Reading, Backed, Closed, WorkerIs, PackageIs, CommitIs, WindowIs,
        QueueIs, CleanedUp, others, dialog, threads, Seal, At, Fail
  <2>2. SnapInv(d)'
    BY <1>1, <1>2, Fields, AnswerFacts DEF DialogInv, WorkerInv, SnapInv,
        Early, Late, Inside, Reading, Fresh, Backed, Unjournaled, WorkerIs,
        PackageIs, CommitIs, WindowIs, QueueIs, CleanedUp, others, dialog, threads,
        Seal, At, Fail
  <2>3. QueueInv(d)'
    BY <1>1, <1>2, Fields, AnswerFacts DEF DialogInv, WorkerInv, SnapInv,
        QueueInv, Answers, Early, Late, Inside, Reading, Fresh, Backed,
        Unjournaled, Closed, WorkerIs, PackageIs, CommitIs, WindowIs,
        QueueIs, CleanedUp, others, dialog, threads, Seal, At, Fail
  <2>4. WindowInv(d)'
    BY <1>1, <1>2, Fields DEF DialogInv, WorkerInv, QueueInv, WindowInv,
        Answers, Early, Late, Inside, Reading, Backed, Closed, WorkerIs,
        PackageIs, CommitIs, WindowIs, QueueIs, CleanedUp, others, dialog, threads,
        Seal, At, Fail
  <2>5. CommitInv(d)'
    BY <1>1, <1>2, Fields DEF DialogInv, WorkerInv, SnapInv, QueueInv,
        WindowInv, CommitInv, LockInv, Answers, Early, Late, Inside, Reading,
        Fresh, Backed, Unjournaled, Committing, Closed, WorkerIs, PackageIs,
        CommitIs, WindowIs, QueueIs, CleanedUp, others, dialog, threads, Seal, At,
        Fail
  <2>6. LockInv(d)'
    BY <1>1, <1>2, Fields DEF DialogInv, WorkerInv, SnapInv, QueueInv,
        WindowInv, CommitInv, LockInv, Answers, Early, Late, Inside, Reading,
        Fresh, Backed, Unjournaled, Committing, Closed, WorkerIs, PackageIs,
        CommitIs, WindowIs, QueueIs, CleanedUp, others, dialog, threads, Seal, At,
        Fail
  <2>7. SourceInv(d)'
    BY <1>1, <1>2, Fields, AnswerFacts DEF DialogInv, WorkerInv, QueueInv, WindowInv,
        SourceInv, Early, Inside, Reading, Closed, Released, SourceIs, WorkerIs,
        WindowIs, QueueIs, others, dialog, threads, kept, Seal, At, Fail
  <2>. QED
    BY <2>1, <2>2, <2>3, <2>4, <2>5, <2>6, <2>7 DEF DialogInv
<1>. QED
    BY <1>1, <1>2, <1>3, Others DEF Seal, others, dialog, threads, WorkerIs,
        PackageIs, CommitIs, WindowIs, QueueIs, CleanedUp, Fail

\* The result is kept, or its snapshots are removed.
LEMMA DeliverStep ==
    ASSUME IInv, NEW d \in Dialogs, Deliver(d)
    PROVE  IInv'
<1> USE DEF IInv
<1>1. \/ /\ WorkerIs(d, "exit", "prepared", worker[d].dir, "closed")
         /\ package' = package
         /\ failures' = failures
      \/ /\ WorkerIs(d, "exit", "cancelled", worker[d].dir, "closed")
         /\ CleanedUp(d)
         /\ failures' = failures
      \/ /\ WorkerIs(d, "exit", "error", worker[d].dir, "closed")
         /\ CleanedUp(d)
         /\ Fail
    BY LeavesEffect, RaisesEffect, CleansUpEffect DEF Deliver, WorkerStages,
        Inside, Reading, Outcomes
<1>2. TypeOK'
    BY <1>1, DialogAssumption DEF TypeOK, WorkerIs, PackageIs, CommitIs,
        WindowIs, QueueIs, CleanedUp, others, dialog, threads, Deliver, Fail
<1>3. DialogInv(d)'
  <2>1. WorkerInv(d)'
    BY <1>1, <1>2, Fields DEF DialogInv, WorkerInv, WindowInv, Early, Inside,
        Reading, Backed, Closed, WorkerIs, PackageIs, CommitIs, WindowIs,
        QueueIs, CleanedUp, others, dialog, threads, Deliver, At, Fail
  <2>2. SnapInv(d)'
    BY <1>1, <1>2, Fields, AnswerFacts DEF DialogInv, WorkerInv, SnapInv,
        Early, Late, Inside, Reading, Fresh, Backed, Unjournaled, WorkerIs,
        PackageIs, CommitIs, WindowIs, QueueIs, CleanedUp, others, dialog, threads,
        Deliver, At, Fail
  <2>3. QueueInv(d)'
    BY <1>1, <1>2, Fields, AnswerFacts DEF DialogInv, WorkerInv, SnapInv,
        QueueInv, Answers, Early, Late, Inside, Reading, Fresh, Backed,
        Unjournaled, Closed, WorkerIs, PackageIs, CommitIs, WindowIs,
        QueueIs, CleanedUp, others, dialog, threads, Deliver, At, Fail
  <2>4. WindowInv(d)'
    BY <1>1, <1>2, Fields DEF DialogInv, WorkerInv, QueueInv, WindowInv,
        Answers, Early, Late, Inside, Reading, Backed, Closed, WorkerIs,
        PackageIs, CommitIs, WindowIs, QueueIs, CleanedUp, others, dialog, threads,
        Deliver, At, Fail
  <2>5. CommitInv(d)'
    BY <1>1, <1>2, Fields DEF DialogInv, WorkerInv, SnapInv, QueueInv,
        WindowInv, CommitInv, LockInv, Answers, Early, Late, Inside, Reading,
        Fresh, Backed, Unjournaled, Committing, Closed, WorkerIs, PackageIs,
        CommitIs, WindowIs, QueueIs, CleanedUp, others, dialog, threads, Deliver, At,
        Fail
  <2>6. LockInv(d)'
    BY <1>1, <1>2, Fields DEF DialogInv, WorkerInv, CommitInv, LockInv,
        Early, Inside, Reading, Committing, WorkerIs, PackageIs, CommitIs,
        WindowIs, QueueIs, CleanedUp, others, dialog, threads, Deliver, At, Fail
  <2>7. SourceInv(d)'
    BY <1>1, <1>2, Fields, AnswerFacts DEF DialogInv, WorkerInv, QueueInv, WindowInv,
        SourceInv, Early, Inside, Reading, Closed, Released, SourceIs, WorkerIs,
        WindowIs, QueueIs, others, dialog, threads, kept, Deliver, At, Fail
  <2>. QED
    BY <2>1, <2>2, <2>3, <2>4, <2>5, <2>6, <2>7 DEF DialogInv
<1>. QED
    BY <1>1, <1>2, <1>3, Others DEF Deliver, others, dialog, threads, WorkerIs,
        PackageIs, CommitIs, WindowIs, QueueIs, CleanedUp, Fail

\* The workspace goes, or stays with an error to report.
LEMMA LeaveWorkspaceStep ==
    ASSUME IInv, NEW d \in Dialogs, LeaveWorkspace(d)
    PROVE  IInv'
<1> USE DEF IInv
<1>1. \/ /\ worker[d].out \in {"prepared", "error"}
         /\ WorkerIs(d, "report", worker[d].out, "removed", worker[d].artifacts)
         /\ package' = package
         /\ failures' = failures
      \/ /\ worker[d].out \notin {"prepared", "error"}
         /\ WorkerIs(d, "release", worker[d].out, "removed", worker[d].artifacts)
         /\ package' = package
         /\ failures' = failures
      \/ /\ WorkerIs(d, "report", "error", "left", worker[d].artifacts)
         /\ CleanedUp(d) \/ (worker[d].out # "prepared" /\ package' = package)
         /\ Fail
  <2>1. CASE /\ Passes(d, IF worker[d].out \in {"prepared", "error"}
                       THEN "report" ELSE "release", "removed", worker[d].out)
             /\ UNCHANGED <<package, failures>>
    <3>1. CASE worker[d].out \in {"prepared", "error"}
      BY <2>1, <3>1, PassesEffect, WorkersTyped DEF WorkerStages
    <3>2. CASE worker[d].out \notin {"prepared", "error"}
      BY <2>1, <3>2, PassesEffect, WorkersTyped DEF WorkerStages
    <3>. QED
      BY <3>1, <3>2
  <2>2. CASE /\ Passes(d, "report", "left", "error")
             /\ IF worker[d].out = "prepared" THEN RaisesOver(d)
                                              ELSE Fail /\ UNCHANGED package
    <3>1. CASE worker[d].out = "prepared"
      <4>1. CleanedUp(d) /\ Fail
        BY <2>2, <3>1, RaisesEffect
      <4>2. WorkerIs(d, "report", "error", "left", worker[d].artifacts)
        BY <2>2, PassesEffect DEF WorkerStages, Outcomes
      <4>. QED
        BY <4>1, <4>2
    <3>2. CASE worker[d].out # "prepared"
      BY <2>2, <3>2, PassesEffect DEF WorkerStages, Outcomes
    <3>. QED
      BY <3>1, <3>2
  <2>. QED
    BY <2>1, <2>2 DEF LeaveWorkspace
<1>2. TypeOK'
    BY <1>1, DialogAssumption DEF TypeOK, WorkerIs, PackageIs, CommitIs,
        WindowIs, QueueIs, CleanedUp, others, dialog, threads, LeaveWorkspace, Fail
<1>3. DialogInv(d)'
  <2>1. WorkerInv(d)'
    BY <1>1, <1>2, Fields DEF DialogInv, WorkerInv, WindowInv, Early, Inside,
        Reading, Backed, Closed, WorkerIs, PackageIs, CommitIs, WindowIs,
        QueueIs, CleanedUp, others, dialog, threads, LeaveWorkspace, At, Fail
  <2>2. SnapInv(d)'
    BY <1>1, <1>2, Fields, AnswerFacts DEF DialogInv, WorkerInv, SnapInv,
        Early, Late, Inside, Reading, Fresh, Backed, Unjournaled, WorkerIs,
        PackageIs, CommitIs, WindowIs, QueueIs, CleanedUp, others, dialog, threads,
        LeaveWorkspace, At, Fail
  <2>3. QueueInv(d)'
    BY <1>1, <1>2, Fields, AnswerFacts DEF DialogInv, WorkerInv, SnapInv,
        QueueInv, Answers, Early, Late, Inside, Reading, Fresh, Backed,
        Unjournaled, Closed, WorkerIs, PackageIs, CommitIs, WindowIs,
        QueueIs, CleanedUp, others, dialog, threads, LeaveWorkspace, At, Fail
  <2>4. WindowInv(d)'
    BY <1>1, <1>2, Fields DEF DialogInv, WorkerInv, QueueInv, WindowInv,
        Answers, Early, Late, Inside, Reading, Backed, Closed, WorkerIs,
        PackageIs, CommitIs, WindowIs, QueueIs, CleanedUp, others, dialog, threads,
        LeaveWorkspace, At, Fail
  <2>5. CommitInv(d)'
    BY <1>1, <1>2, Fields DEF DialogInv, WorkerInv, SnapInv, QueueInv,
        WindowInv, CommitInv, LockInv, Answers, Early, Late, Inside, Reading,
        Fresh, Backed, Unjournaled, Committing, Closed, WorkerIs, PackageIs,
        CommitIs, WindowIs, QueueIs, CleanedUp, others, dialog, threads,
        LeaveWorkspace, At, Fail
  <2>6. LockInv(d)'
    BY <1>1, <1>2, Fields DEF DialogInv, WorkerInv, CommitInv, LockInv,
        Early, Inside, Reading, Committing, WorkerIs, PackageIs, CommitIs,
        WindowIs, QueueIs, CleanedUp, others, dialog, threads, LeaveWorkspace, At,
        Fail
  <2>7. SourceInv(d)'
    BY <1>1, <1>2, Fields, AnswerFacts DEF DialogInv, WorkerInv, QueueInv, WindowInv,
        SourceInv, Early, Inside, Reading, Closed, Released, SourceIs, WorkerIs,
        WindowIs, QueueIs, others, dialog, threads, kept, LeaveWorkspace, At, Fail
  <2>. QED
    BY <2>1, <2>2, <2>3, <2>4, <2>5, <2>6, <2>7 DEF DialogInv
<1>. QED
    BY <1>1, <1>2, <1>3, Others DEF LeaveWorkspace, others, dialog, threads,
        WorkerIs, PackageIs, CommitIs, WindowIs, QueueIs, CleanedUp, Fail

\* The answer is queued.
LEMMA ReportStep ==
    ASSUME IInv, NEW d \in Dialogs, Report(d)
    PROVE  IInv'
<1> USE DEF IInv
<1>1. \/ /\ WorkerIs(d, "release", worker[d].out, worker[d].dir, worker[d].artifacts)
         /\ QueueIs(d, Append(queue[d], worker[d].out))
         /\ worker[d].out \in {"prepared", "error"}
  <2>1. worker[d].out \in {"prepared", "error"}
    BY DEF DialogInv, WorkerInv, Report, At
  <2>. QED
    BY <2>1, GoesEffect, PutEffect DEF Report, WorkerStages, Answers
<1>2. TypeOK'
    BY <1>1, DialogAssumption DEF TypeOK, WorkerIs, PackageIs, CommitIs,
        WindowIs, QueueIs, CleanedUp, others, dialog, threads, Report
<1>4. \/ /\ window[d].ocr /\ worker[d].out = "error"
         /\ queue[d] \in OcrAnswers /\ queue'[d] \in OcrAnswers
         /\ queue'[d] # Alone("prepared")
      \/ ~window[d].ocr /\ queue[d] = <<>> /\ queue'[d] = Alone(worker[d].out)
  <2>1. CASE window[d].ocr
    <3>1. queue[d] \in OcrAnswers /\ worker[d].out = "error"
      BY <1>1, <2>1 DEF DialogInv, WorkerInv, QueueInv
    <3>2. queue'[d] = Append(queue[d], "error")
      BY <1>1, <3>1 DEF QueueIs
    <3>3. Append(queue[d], "error") \in OcrAnswers
      BY <3>1, AnswerFacts
    <3>4. queue'[d] \in OcrAnswers /\ queue'[d] # Alone("prepared")
      BY <3>2, <3>3, AnswerFacts
    <3>. QED
      BY <2>1, <3>1, <3>4
  <2>2. CASE ~window[d].ocr
    <3>1. queue[d] = <<>>
      BY <2>2 DEF DialogInv, QueueInv, Late, Report, At
    <3>2. queue'[d] = Append(<<>>, worker[d].out) /\ worker[d].out \in Answers
      BY <1>1, <3>1 DEF QueueIs, Answers
    <3>. QED
      BY <2>2, <3>1, <3>2, AnswerFacts
  <2>. QED
    BY <2>1, <2>2
<1>3. DialogInv(d)'
  <2>1. WorkerInv(d)'
    BY <1>1, <1>2, <1>4, Fields DEF DialogInv, WorkerInv, WindowInv, Early,
        Inside, Reading, Backed, Closed, WorkerIs, PackageIs, CommitIs,
        WindowIs, QueueIs, CleanedUp, others, dialog, threads, Report, At
  <2>2. SnapInv(d)'
    BY <1>1, <1>2, <1>4, Fields, AnswerFacts DEF DialogInv, WorkerInv,
        SnapInv, Early, Late, Inside, Reading, Fresh, Backed, Unjournaled,
        WorkerIs, PackageIs, CommitIs, WindowIs, QueueIs, CleanedUp, others, dialog,
        threads, Report, At
  <2>3. QueueInv(d)'
    BY <1>1, <1>2, <1>4, Fields, AnswerFacts DEF DialogInv, WorkerInv,
        SnapInv, QueueInv, WindowInv, CommitInv, LockInv, Answers, Early,
        Late, Inside, Reading, Fresh, Backed, Unjournaled, Committing,
        Closed, WorkerIs, PackageIs, CommitIs, WindowIs, QueueIs, CleanedUp,
        others, dialog, threads, Report, At
  <2>4. WindowInv(d)'
    BY <1>1, <1>2, <1>4, Fields DEF DialogInv, WorkerInv, QueueInv,
        WindowInv, Answers, Early, Late, Inside, Reading, Backed, Closed,
        WorkerIs, PackageIs, CommitIs, WindowIs, QueueIs, CleanedUp, others, dialog,
        threads, Report, At
  <2>5. CommitInv(d)'
    BY <1>1, <1>2, <1>4, Fields DEF DialogInv, WindowInv, CommitInv, LockInv,
        Backed, Committing, Closed, WorkerIs, PackageIs, CommitIs, WindowIs,
        QueueIs, CleanedUp, others, dialog, threads, Report, At
  <2>6. LockInv(d)'
    BY <1>1, <1>2, <1>4, Fields DEF DialogInv, WorkerInv, CommitInv, LockInv,
        Early, Inside, Reading, Committing, WorkerIs, PackageIs, CommitIs,
        WindowIs, QueueIs, CleanedUp, others, dialog, threads, Report, At
  <2>7. SourceInv(d)'
    BY <1>1, <1>2, <1>4, Fields, AnswerFacts DEF DialogInv, WorkerInv, QueueInv, WindowInv,
        SourceInv, Early, Inside, Reading, Closed, Released, SourceIs, WorkerIs,
        WindowIs, QueueIs, others, dialog, threads, kept, Report, At
  <2>. QED
    BY <2>1, <2>2, <2>3, <2>4, <2>5, <2>6, <2>7 DEF DialogInv
<1>. QED
    BY <1>1, <1>2, <1>3, Others DEF Report, others, dialog, threads, WorkerIs,
        PackageIs, CommitIs, WindowIs, QueueIs, CleanedUp

\* The worker ends.
LEMMA ReleaseSourceStep ==
    ASSUME IInv, NEW d \in Dialogs, ReleaseSource(d)
    PROVE  IInv'
<1> USE DEF IInv
<1>1. WorkerIs(d, "ended", worker[d].out, worker[d].dir, worker[d].artifacts)
    BY GoesEffect, WorkersTyped DEF ReleaseSource, WorkerStages, Inside, Reading,
        Outcomes
<1>2. TypeOK'
    BY <1>1, DialogAssumption DEF TypeOK, WorkerIs, PackageIs, CommitIs,
        WindowIs, QueueIs, CleanedUp, others, dialog, threads, ReleaseSource
<1>3. DialogInv(d)'
  <2>1. WorkerInv(d)'
    BY <1>1, <1>2, Fields DEF DialogInv, WorkerInv, WindowInv, Early, Inside,
        Reading, Backed, Closed, WorkerIs, PackageIs, CommitIs, WindowIs,
        QueueIs, CleanedUp, others, dialog, threads, ReleaseSource, At
  <2>2. SnapInv(d)'
    BY <1>1, <1>2, Fields, AnswerFacts DEF DialogInv, WorkerInv, SnapInv,
        Early, Late, Inside, Reading, Fresh, Backed, Unjournaled, WorkerIs,
        PackageIs, CommitIs, WindowIs, QueueIs, CleanedUp, others, dialog, threads,
        ReleaseSource, At
  <2>3. QueueInv(d)'
    BY <1>1, <1>2, Fields, AnswerFacts DEF DialogInv, WorkerInv, SnapInv,
        QueueInv, Answers, Early, Late, Inside, Reading, Fresh, Backed,
        Unjournaled, Closed, WorkerIs, PackageIs, CommitIs, WindowIs,
        QueueIs, CleanedUp, others, dialog, threads, ReleaseSource, At
  <2>4. WindowInv(d)'
    BY <1>1, <1>2, Fields DEF DialogInv, WorkerInv, QueueInv, WindowInv,
        Answers, Early, Late, Inside, Reading, Backed, Closed, WorkerIs,
        PackageIs, CommitIs, WindowIs, QueueIs, CleanedUp, others, dialog, threads,
        ReleaseSource, At
  <2>5. CommitInv(d)'
    BY <1>1, <1>2, Fields DEF DialogInv, WindowInv, CommitInv, LockInv,
        Backed, Committing, Closed, WorkerIs, PackageIs, CommitIs, WindowIs,
        QueueIs, CleanedUp, others, dialog, threads, ReleaseSource, At
  <2>6. LockInv(d)'
    BY <1>1, <1>2, Fields DEF DialogInv, WorkerInv, CommitInv, LockInv,
        Early, Inside, Reading, Committing, WorkerIs, PackageIs, CommitIs,
        WindowIs, QueueIs, CleanedUp, others, dialog, threads, ReleaseSource, At
  <2>7. SourceInv(d)'
    BY <1>1, <1>2, Fields, AnswerFacts DEF DialogInv, WorkerInv, QueueInv, WindowInv,
        SourceInv, Early, Inside, Reading, Closed, Released, SourceIs, WorkerIs,
        WindowIs, QueueIs, others, dialog, threads, kept, ReleaseSource, At
  <2>. QED
    BY <2>1, <2>2, <2>3, <2>4, <2>5, <2>6, <2>7 DEF DialogInv
<1>. QED
    BY <1>1, <1>2, <1>3, Others DEF ReleaseSource, others, dialog, threads, WorkerIs,
        PackageIs, CommitIs, WindowIs, QueueIs, CleanedUp

\* The prepared import is closed.
LEMMA BeginCommitStep ==
    ASSUME IInv, NEW d \in Dialogs, BeginCommit(d)
    PROVE  IInv'
<1> USE DEF IInv
<1>1. \/ /\ CommitIs(d, "begun", commit[d].published, commit[d].reloaded)
         /\ PackageIs(d, package[d].snap, package[d].leased, TRUE, package[d].botched)
    BY CommitGoesEffect, SpentEffect DEF BeginCommit, WorkerStages, Inside,
        Reading, Outcomes
<1>2. TypeOK'
    BY <1>1, DialogAssumption DEF TypeOK, WorkerIs, PackageIs, CommitIs,
        WindowIs, QueueIs, CleanedUp, others, dialog, threads, BeginCommit, CommitAt
<1>3. DialogInv(d)'
  <2>1. WorkerInv(d)'
    BY <1>1, <1>2, Fields DEF DialogInv, WorkerInv, WindowInv, Early, Inside,
        Reading, Backed, Closed, WorkerIs, PackageIs, CommitIs, WindowIs,
        QueueIs, CleanedUp, others, dialog, threads, BeginCommit, At, CommitAt
  <2>2. SnapInv(d)'
    BY <1>1, <1>2, Fields, AnswerFacts DEF DialogInv, WorkerInv, SnapInv,
        QueueInv, WindowInv, CommitInv, LockInv, Answers, Early, Late,
        Inside, Reading, Fresh, Backed, Unjournaled, Committing, Closed,
        WorkerIs, PackageIs, CommitIs, WindowIs, QueueIs, CleanedUp, others, dialog,
        threads, BeginCommit, At, CommitAt
  <2>3. QueueInv(d)'
    BY <1>1, <1>2, Fields, AnswerFacts DEF DialogInv, WorkerInv, SnapInv,
        QueueInv, WindowInv, CommitInv, LockInv, Answers, Early, Late,
        Inside, Reading, Fresh, Backed, Unjournaled, Committing, Closed,
        WorkerIs, PackageIs, CommitIs, WindowIs, QueueIs, CleanedUp, others, dialog,
        threads, BeginCommit, At, CommitAt
  <2>4. WindowInv(d)'
    BY <1>1, <1>2, Fields DEF DialogInv, WorkerInv, QueueInv, WindowInv,
        Answers, Early, Late, Inside, Reading, Backed, Closed, WorkerIs,
        PackageIs, CommitIs, WindowIs, QueueIs, CleanedUp, others, dialog, threads,
        BeginCommit, At, CommitAt
  <2>5. CommitInv(d)'
    BY <1>1, <1>2, Fields DEF DialogInv, WindowInv, CommitInv, LockInv,
        Backed, Committing, Closed, WorkerIs, PackageIs, CommitIs, WindowIs,
        QueueIs, CleanedUp, others, dialog, threads, BeginCommit, At, CommitAt
  <2>6. LockInv(d)'
    BY <1>1, <1>2, Fields DEF DialogInv, WorkerInv, CommitInv, LockInv,
        Early, Inside, Reading, Committing, WorkerIs, PackageIs, CommitIs,
        WindowIs, QueueIs, CleanedUp, others, dialog, threads, BeginCommit, At,
        CommitAt
  <2>7. SourceInv(d)'
    BY <1>1, <1>2, Fields, AnswerFacts DEF DialogInv, WorkerInv, QueueInv, WindowInv,
        SourceInv, Early, Inside, Reading, Closed, Released, SourceIs, WorkerIs,
        WindowIs, QueueIs, others, dialog, threads, kept, BeginCommit, At, CommitAt
  <2>. QED
    BY <2>1, <2>2, <2>3, <2>4, <2>5, <2>6, <2>7 DEF DialogInv
<1>. QED
    BY <1>1, <1>2, <1>3, Others DEF BeginCommit, others, dialog, threads, WorkerIs,
        PackageIs, CommitIs, WindowIs, QueueIs, CleanedUp, CommitAt

\* The lock is taken to commit, or the snapshots are removed.
LEMMA TakeLockStep ==
    ASSUME IInv, NEW d \in Dialogs, TakeLock(d)
    PROVE  IInv'
<1> USE DEF IInv
<1>1. \/ /\ lock = Free
         /\ lock' = d
         /\ CommitIs(d, "locked", commit[d].published, commit[d].reloaded)
         /\ package' = package
         /\ queue' = queue
         /\ failures' = failures
      \/ /\ lock' = lock
         /\ CommitIs(d, "ended", commit[d].published, commit[d].reloaded)
         /\ CleanedUp(d)
         /\ QueueIs(d, Append(queue[d], "error"))
         /\ Fail \/ failures' = failures
    BY CommitGoesEffect, PutEffect, CleansUpEffect, RaisesEffect DEF
        TakeLock, WorkerStages, Inside, Reading, Outcomes, Ends, Answers
<1>2. TypeOK'
    BY <1>1, DialogAssumption DEF TypeOK, WorkerIs, PackageIs, CommitIs,
        WindowIs, QueueIs, CleanedUp, others, dialog, threads, TakeLock, Fail,
        CommitAt
<1>3. DialogInv(d)'
  <2>1. WorkerInv(d)'
    BY <1>1, <1>2, Fields DEF DialogInv, WorkerInv, WindowInv, Early, Inside,
        Reading, Backed, Closed, WorkerIs, PackageIs, CommitIs, WindowIs,
        QueueIs, CleanedUp, others, dialog, threads, TakeLock, At, Fail, CommitAt
  <2>2. SnapInv(d)'
    BY <1>1, <1>2, Fields, AnswerFacts DEF DialogInv, WorkerInv, SnapInv,
        QueueInv, WindowInv, CommitInv, LockInv, Answers, Early, Late,
        Inside, Reading, Fresh, Backed, Unjournaled, Committing, Closed,
        WorkerIs, PackageIs, CommitIs, WindowIs, QueueIs, CleanedUp, others, dialog,
        threads, TakeLock, At, Fail, CommitAt
  <2>3. QueueInv(d)'
    BY <1>1, <1>2, Fields, AnswerFacts DEF DialogInv, WorkerInv, SnapInv,
        QueueInv, WindowInv, CommitInv, LockInv, Answers, Early, Late,
        Inside, Reading, Fresh, Backed, Unjournaled, Committing, Closed,
        WorkerIs, PackageIs, CommitIs, WindowIs, QueueIs, CleanedUp, others, dialog,
        threads, TakeLock, At, Fail, CommitAt
  <2>4. WindowInv(d)'
    BY <1>1, <1>2, Fields DEF DialogInv, WorkerInv, QueueInv, WindowInv,
        Answers, Early, Late, Inside, Reading, Backed, Closed, WorkerIs,
        PackageIs, CommitIs, WindowIs, QueueIs, CleanedUp, others, dialog, threads,
        TakeLock, At, Fail, CommitAt
  <2>5. CommitInv(d)'
    BY <1>1, <1>2, Fields DEF DialogInv, WindowInv, CommitInv, LockInv,
        Backed, Committing, Closed, WorkerIs, PackageIs, CommitIs, WindowIs,
        QueueIs, CleanedUp, others, dialog, threads, TakeLock, At, Fail, CommitAt
  <2>6. LockInv(d)'
    BY <1>1, <1>2, Fields DEF DialogInv, WorkerInv, CommitInv, LockInv,
        Early, Inside, Reading, Committing, WorkerIs, PackageIs, CommitIs,
        WindowIs, QueueIs, CleanedUp, others, dialog, threads, TakeLock, At, Fail,
        CommitAt
  <2>7. SourceInv(d)'
    BY <1>1, <1>2, Fields, AnswerFacts DEF DialogInv, WorkerInv, QueueInv, WindowInv,
        SourceInv, Early, Inside, Reading, Closed, Released, SourceIs, WorkerIs,
        WindowIs, QueueIs, others, dialog, threads, kept, TakeLock, At, Fail, CommitAt
  <2>. QED
    BY <2>1, <2>2, <2>3, <2>4, <2>5, <2>6, <2>7 DEF DialogInv
<1>. QED
    BY <1>1, <1>2, <1>3, Others DEF TakeLock, others, dialog, threads, WorkerIs,
        PackageIs, CommitIs, WindowIs, QueueIs, CleanedUp, Fail, CommitAt

\* The journal takes the snapshots over, or they are removed.
LEMMA GenesisStep ==
    ASSUME IInv, NEW d \in Dialogs, Genesis(d)
    PROVE  IInv'
<1> USE DEF IInv
<1>1. \/ /\ CommitIs(d, "executing", commit[d].published, commit[d].reloaded)
         /\ PackageIs(d, "journaled", package[d].leased, package[d].spent, package[d].botched)
         /\ package[d].leased
         /\ queue' = queue
         /\ lock' = lock
         /\ failures' = failures
      \/ /\ lock' = Free
         /\ CommitIs(d, "ended", commit[d].published, commit[d].reloaded)
         /\ CleanedUp(d)
         /\ QueueIs(d, Append(queue[d], "committed")) \/ QueueIs(d, Append(queue[d], "error"))
         /\ Fail \/ failures' = failures
    BY CommitGoesEffect, PutEffect, BecomesEffect, CleansUpEffect,
        RaisesEffect DEF Genesis, WorkerStages, Inside, Reading, Outcomes,
        Ends, Answers
<1>2. TypeOK'
    BY <1>1, DialogAssumption DEF TypeOK, WorkerIs, PackageIs, CommitIs,
        WindowIs, QueueIs, CleanedUp, others, dialog, threads, Genesis, Fail,
        CommitAt
<1>3. DialogInv(d)'
  <2>1. WorkerInv(d)'
    BY <1>1, <1>2, Fields DEF DialogInv, WorkerInv, WindowInv, Early, Inside,
        Reading, Backed, Closed, WorkerIs, PackageIs, CommitIs, WindowIs,
        QueueIs, CleanedUp, others, dialog, threads, Genesis, At, Fail, CommitAt
  <2>2. SnapInv(d)'
    BY <1>1, <1>2, Fields, AnswerFacts DEF DialogInv, WorkerInv, SnapInv,
        QueueInv, WindowInv, CommitInv, LockInv, Answers, Early, Late,
        Inside, Reading, Fresh, Backed, Unjournaled, Committing, Closed,
        WorkerIs, PackageIs, CommitIs, WindowIs, QueueIs, CleanedUp, others, dialog,
        threads, Genesis, At, Fail, CommitAt
  <2>3. QueueInv(d)'
    BY <1>1, <1>2, Fields, AnswerFacts DEF DialogInv, WorkerInv, SnapInv,
        QueueInv, WindowInv, CommitInv, LockInv, Answers, Early, Late,
        Inside, Reading, Fresh, Backed, Unjournaled, Committing, Closed,
        WorkerIs, PackageIs, CommitIs, WindowIs, QueueIs, CleanedUp, others, dialog,
        threads, Genesis, At, Fail, CommitAt
  <2>4. WindowInv(d)'
    BY <1>1, <1>2, Fields DEF DialogInv, WorkerInv, QueueInv, WindowInv,
        Answers, Early, Late, Inside, Reading, Backed, Closed, WorkerIs,
        PackageIs, CommitIs, WindowIs, QueueIs, CleanedUp, others, dialog, threads,
        Genesis, At, Fail, CommitAt
  <2>5. CommitInv(d)'
    BY <1>1, <1>2, Fields DEF DialogInv, WindowInv, CommitInv, LockInv,
        Backed, Committing, Closed, WorkerIs, PackageIs, CommitIs, WindowIs,
        QueueIs, CleanedUp, others, dialog, threads, Genesis, At, Fail, CommitAt
  <2>6. LockInv(d)'
    BY <1>1, <1>2, Fields DEF DialogInv, WorkerInv, SnapInv, QueueInv,
        WindowInv, CommitInv, LockInv, Answers, Early, Late, Inside, Reading,
        Fresh, Backed, Unjournaled, Committing, Closed, WorkerIs, PackageIs,
        CommitIs, WindowIs, QueueIs, CleanedUp, others, dialog, threads, Genesis, At,
        Fail, CommitAt
  <2>7. SourceInv(d)'
    BY <1>1, <1>2, Fields, AnswerFacts DEF DialogInv, WorkerInv, QueueInv, WindowInv,
        SourceInv, Early, Inside, Reading, Closed, Released, SourceIs, WorkerIs,
        WindowIs, QueueIs, others, dialog, threads, kept, Genesis, At, Fail, CommitAt
  <2>. QED
    BY <2>1, <2>2, <2>3, <2>4, <2>5, <2>6, <2>7 DEF DialogInv
<1>. QED
    BY <1>1, <1>2, <1>3, Others DEF Genesis, others, dialog, threads, WorkerIs,
        PackageIs, CommitIs, WindowIs, QueueIs, CleanedUp, Fail, CommitAt

\* The collection is published.
LEMMA PublishStep ==
    ASSUME IInv, NEW d \in Dialogs, Publish(d)
    PROVE  IInv'
<1> USE DEF IInv
<1>1. CommitIs(d, "published", TRUE, commit[d].reloaded)
    BY PublishedEffect DEF Publish, WorkerStages, Inside, Reading, Outcomes
<1>2. TypeOK'
    BY <1>1, DialogAssumption DEF TypeOK, WorkerIs, PackageIs, CommitIs,
        WindowIs, QueueIs, CleanedUp, others, dialog, threads, Publish, CommitAt
<1>3. DialogInv(d)'
  <2>1. WorkerInv(d)'
    BY <1>1, <1>2, Fields DEF DialogInv, WorkerInv, WindowInv, Early, Inside,
        Reading, Backed, Closed, WorkerIs, PackageIs, CommitIs, WindowIs,
        QueueIs, CleanedUp, others, dialog, threads, Publish, At, CommitAt
  <2>2. SnapInv(d)'
    BY <1>1, <1>2, Fields, AnswerFacts DEF DialogInv, WorkerInv, SnapInv,
        Early, Late, Inside, Reading, Fresh, Backed, Unjournaled, WorkerIs,
        PackageIs, CommitIs, WindowIs, QueueIs, CleanedUp, others, dialog, threads,
        Publish, At, CommitAt
  <2>3. QueueInv(d)'
    BY <1>1, <1>2, Fields, AnswerFacts DEF DialogInv, WorkerInv, SnapInv,
        QueueInv, Answers, Early, Late, Inside, Reading, Fresh, Backed,
        Unjournaled, Closed, WorkerIs, PackageIs, CommitIs, WindowIs,
        QueueIs, CleanedUp, others, dialog, threads, Publish, At, CommitAt
  <2>4. WindowInv(d)'
    BY <1>1, <1>2, Fields DEF DialogInv, WorkerInv, QueueInv, WindowInv,
        Answers, Early, Late, Inside, Reading, Backed, Closed, WorkerIs,
        PackageIs, CommitIs, WindowIs, QueueIs, CleanedUp, others, dialog, threads,
        Publish, At, CommitAt
  <2>5. CommitInv(d)'
    BY <1>1, <1>2, Fields DEF DialogInv, WindowInv, CommitInv, LockInv,
        Backed, Committing, Closed, WorkerIs, PackageIs, CommitIs, WindowIs,
        QueueIs, CleanedUp, others, dialog, threads, Publish, At, CommitAt
  <2>6. LockInv(d)'
    BY <1>1, <1>2, Fields DEF DialogInv, WorkerInv, CommitInv, LockInv,
        Early, Inside, Reading, Committing, WorkerIs, PackageIs, CommitIs,
        WindowIs, QueueIs, CleanedUp, others, dialog, threads, Publish, At, CommitAt
  <2>7. SourceInv(d)'
    BY <1>1, <1>2, Fields, AnswerFacts DEF DialogInv, WorkerInv, QueueInv, WindowInv,
        SourceInv, Early, Inside, Reading, Closed, Released, SourceIs, WorkerIs,
        WindowIs, QueueIs, others, dialog, threads, kept, Publish, At, CommitAt
  <2>. QED
    BY <2>1, <2>2, <2>3, <2>4, <2>5, <2>6, <2>7 DEF DialogInv
<1>. QED
    BY <1>1, <1>2, <1>3, Others DEF Publish, others, dialog, threads, WorkerIs,
        PackageIs, CommitIs, WindowIs, QueueIs, CleanedUp, CommitAt

\* The commit ends, and its leases with it.
LEMMA EndCommitStep ==
    ASSUME IInv, NEW d \in Dialogs, EndCommit(d)
    PROVE  IInv'
<1> USE DEF IInv
<1>1. \/ /\ CommitIs(d, "ended", commit[d].published, commit[d].reloaded)
         /\ PackageIs(d, package[d].snap, FALSE, package[d].spent, package[d].botched)
         /\ QueueIs(d, Append(queue[d], "error")) \/ QueueIs(d, Append(queue[d], "committed"))
         /\ Fail \/ failures' = failures
    BY CommitGoesEffect, PutEffect, UnleasedEffect DEF EndCommit,
        WorkerStages, Inside, Reading, Outcomes, Ends, Answers, CommitAt
<1>2. TypeOK'
    BY <1>1, DialogAssumption DEF TypeOK, WorkerIs, PackageIs, CommitIs,
        WindowIs, QueueIs, CleanedUp, others, dialog, threads, EndCommit, Fail,
        CommitAt
<1>3. DialogInv(d)'
  <2>1. WorkerInv(d)'
    BY <1>1, <1>2, Fields DEF DialogInv, WorkerInv, WindowInv, Early, Inside,
        Reading, Backed, Closed, WorkerIs, PackageIs, CommitIs, WindowIs,
        QueueIs, CleanedUp, others, dialog, threads, EndCommit, At, Fail, CommitAt
  <2>2. SnapInv(d)'
    BY <1>1, <1>2, Fields, AnswerFacts DEF DialogInv, WorkerInv, SnapInv,
        QueueInv, WindowInv, CommitInv, LockInv, Answers, Early, Late,
        Inside, Reading, Fresh, Backed, Unjournaled, Committing, Closed,
        WorkerIs, PackageIs, CommitIs, WindowIs, QueueIs, CleanedUp, others, dialog,
        threads, EndCommit, At, Fail, CommitAt
  <2>3. QueueInv(d)'
    BY <1>1, <1>2, Fields, AnswerFacts DEF DialogInv, WorkerInv, SnapInv,
        QueueInv, WindowInv, CommitInv, LockInv, Answers, Early, Late,
        Inside, Reading, Fresh, Backed, Unjournaled, Committing, Closed,
        WorkerIs, PackageIs, CommitIs, WindowIs, QueueIs, CleanedUp, others, dialog,
        threads, EndCommit, At, Fail, CommitAt
  <2>4. WindowInv(d)'
    BY <1>1, <1>2, Fields DEF DialogInv, WorkerInv, QueueInv, WindowInv,
        Answers, Early, Late, Inside, Reading, Backed, Closed, WorkerIs,
        PackageIs, CommitIs, WindowIs, QueueIs, CleanedUp, others, dialog, threads,
        EndCommit, At, Fail, CommitAt
  <2>5. CommitInv(d)'
    BY <1>1, <1>2, Fields DEF DialogInv, WindowInv, CommitInv, LockInv,
        Backed, Committing, Closed, WorkerIs, PackageIs, CommitIs, WindowIs,
        QueueIs, CleanedUp, others, dialog, threads, EndCommit, At, Fail, CommitAt
  <2>6. LockInv(d)'
    BY <1>1, <1>2, Fields DEF DialogInv, WorkerInv, SnapInv, QueueInv,
        WindowInv, CommitInv, LockInv, Answers, Early, Late, Inside, Reading,
        Fresh, Backed, Unjournaled, Committing, Closed, WorkerIs, PackageIs,
        CommitIs, WindowIs, QueueIs, CleanedUp, others, dialog, threads, EndCommit,
        At, Fail, CommitAt
  <2>7. SourceInv(d)'
    BY <1>1, <1>2, Fields, AnswerFacts DEF DialogInv, WorkerInv, QueueInv, WindowInv,
        SourceInv, Early, Inside, Reading, Closed, Released, SourceIs, WorkerIs,
        WindowIs, QueueIs, others, dialog, threads, kept, EndCommit, At, Fail, CommitAt
  <2>. QED
    BY <2>1, <2>2, <2>3, <2>4, <2>5, <2>6, <2>7 DEF DialogInv
<1>. QED
    BY <1>1, <1>2, <1>3, Others DEF EndCommit, others, dialog, threads, WorkerIs,
        PackageIs, CommitIs, WindowIs, QueueIs, CleanedUp, Fail, CommitAt

\* One answer is taken, or all are dropped.
LEMMA PollStep ==
    ASSUME IInv, NEW d \in Dialogs, Poll(d)
    PROVE  IInv'
<1> USE DEF IInv
<1>1. \/ /\ Closed(d)
         /\ QueueIs(d, <<>>)
         /\ WindowIs(d, window[d].state, window[d].ocr, window[d].view, window[d].closed,
                     window[d].committing, FALSE, window[d].prepared, window[d].told)
         /\ commit' = commit /\ source' = source
      \/ /\ ~Closed(d)
         /\ queue[d] # <<>>
         /\ QueueIs(d, Tail(queue[d]))
         /\ Head(queue[d]) = "prepared"
         /\ WindowIs(d, window[d].state, window[d].ocr, "preview", window[d].closed,
                     window[d].committing, FALSE, TRUE, window[d].told)
         /\ commit' = commit /\ source' = source
      \/ /\ ~Closed(d)
         /\ queue[d] # <<>>
         /\ QueueIs(d, Tail(queue[d]))
         /\ Head(queue[d]) = "ocr"
         /\ WindowIs(d, window[d].state, window[d].ocr, "ocr", window[d].closed,
                     window[d].committing, FALSE, window[d].prepared, window[d].told)
         /\ commit' = commit /\ source' = source
      \/ /\ ~Closed(d)
         /\ queue[d] # <<>>
         /\ QueueIs(d, Tail(queue[d]))
         /\ Head(queue[d]) = "error"
         /\ WindowIs(d, window[d].state, window[d].ocr, "error", window[d].closed, FALSE,
                     FALSE, window[d].prepared, TRUE)
         /\ commit' = commit /\ source' = source
      \/ /\ ~Closed(d)
         /\ queue[d] # <<>>
         /\ QueueIs(d, Tail(queue[d]))
         /\ Head(queue[d]) = "committed"
         /\ WindowIs(d, "gone", window[d].ocr, window[d].view, TRUE, window[d].committing,
                     FALSE, window[d].prepared, window[d].told)
         /\ \E o \in {"loaded", "failed"} : CommitIs(d, commit[d].at, commit[d].published, o)
         /\ SourceIs(d, Released(source[d]))
    BY PollStopsEffect, PreviewEffect, ShowsEffect, ShowsErrorEffect,
        DestroysEffect, ReloadedEffect, ReleasesEffect, TakeEffect,
        DropEffect DEF Poll, kept, Destroys,
        WorkerStages, Inside, Reading, Outcomes, Finishes
<1>2. TypeOK'
    BY <1>1, DialogAssumption DEF TypeOK, WorkerIs, PackageIs, CommitIs, SourceIs, kept, Fail,
       Finishes,
        WindowIs, QueueIs, CleanedUp, others, dialog, threads, Poll
<1>4. ASSUME queue[d] # <<>>
      PROVE  \/ /\ window[d].ocr /\ ~window[d].prepared
                /\ Head(queue[d]) \in {"ocr", "error"}
                /\ queue[d] # Alone("prepared")
                /\ Tail(queue[d]) \in OcrAnswers /\ Tail(queue[d]) # Alone("prepared")
             \/ /\ ~window[d].ocr /\ Tail(queue[d]) = <<>>
                /\ Head(queue[d]) \in {"prepared", "error", "committed"}
                /\ queue[d] = Alone(Head(queue[d]))
    BY <1>4, Fields, AnswerFacts DEF DialogInv, QueueInv, Answers
<1>3. DialogInv(d)'
  <2>1. WorkerInv(d)'
    BY <1>1, <1>2, <1>4, Fields DEF DialogInv, WorkerInv, WindowInv, Early,
        Inside, Reading, Backed, Closed, WorkerIs, PackageIs, CommitIs,
        WindowIs, QueueIs, CleanedUp, others, dialog, threads, Poll, At
  <2>2. SnapInv(d)'
    BY <1>1, <1>2, <1>4, Fields, AnswerFacts DEF DialogInv, WorkerInv,
        SnapInv, QueueInv, WindowInv, CommitInv, LockInv, Answers, Early,
        Late, Inside, Reading, Fresh, Backed, Unjournaled, Committing,
        Closed, WorkerIs, PackageIs, CommitIs, WindowIs, QueueIs, CleanedUp,
        others, dialog, threads, Poll, At
  <2>3. QueueInv(d)'
    <3>1. CASE /\ Closed(d)
               /\ QueueIs(d, <<>>)
               /\ WindowIs(d, window[d].state, window[d].ocr, window[d].view,
                           window[d].closed, window[d].committing, FALSE, window[d].prepared,
                              window[d].told)
               /\ commit' = commit /\ source' = source
      BY <3>1, <1>2, <1>4, Fields, AnswerFacts DEF DialogInv, WorkerInv,
          SnapInv, QueueInv, Answers, Early, Late, Inside, Reading, Fresh,
          Backed, Unjournaled, Closed, WorkerIs, PackageIs, CommitIs,
          WindowIs, QueueIs, CleanedUp, others, dialog, threads, Poll, At
    <3>2. CASE /\ ~Closed(d)
               /\ queue[d] # <<>>
               /\ QueueIs(d, Tail(queue[d]))
               /\ Head(queue[d]) = "prepared"
               /\ WindowIs(d, window[d].state, window[d].ocr, "preview", window[d].closed,
                           window[d].committing, FALSE, TRUE, window[d].told)
               /\ commit' = commit /\ source' = source
      BY <3>2, <1>2, <1>4, Fields, AnswerFacts DEF DialogInv, WorkerInv,
          SnapInv, QueueInv, Answers, Early, Late, Inside, Reading, Fresh,
          Backed, Unjournaled, Closed, WorkerIs, PackageIs, CommitIs,
          WindowIs, QueueIs, CleanedUp, others, dialog, threads, Poll, At
    <3>3. CASE /\ ~Closed(d)
               /\ queue[d] # <<>>
               /\ QueueIs(d, Tail(queue[d]))
               /\ Head(queue[d]) = "ocr"
               /\ WindowIs(d, window[d].state, window[d].ocr, "ocr", window[d].closed,
                           window[d].committing, FALSE, window[d].prepared, window[d].told)
               /\ commit' = commit /\ source' = source
      BY <3>3, <1>2, <1>4, Fields, AnswerFacts DEF DialogInv, WorkerInv,
          SnapInv, QueueInv, WindowInv, CommitInv, LockInv, Answers, Early,
          Late, Inside, Reading, Fresh, Backed, Unjournaled, Committing,
          Closed, WorkerIs, PackageIs, CommitIs, WindowIs, QueueIs,
          CleanedUp, others, dialog, threads, Poll, At
    <3>4. CASE /\ ~Closed(d)
               /\ queue[d] # <<>>
               /\ QueueIs(d, Tail(queue[d]))
               /\ Head(queue[d]) = "error"
               /\ WindowIs(d, window[d].state, window[d].ocr, "error", window[d].closed,
                           FALSE, FALSE, window[d].prepared, TRUE)
               /\ commit' = commit /\ source' = source
      BY <3>4, <1>2, <1>4, Fields, AnswerFacts DEF DialogInv, WorkerInv,
          SnapInv, QueueInv, WindowInv, CommitInv, LockInv, Answers, Early,
          Late, Inside, Reading, Fresh, Backed, Unjournaled, Committing,
          Closed, WorkerIs, PackageIs, CommitIs, WindowIs, QueueIs,
          CleanedUp, others, dialog, threads, Poll, At
    <3>5. CASE /\ ~Closed(d)
               /\ queue[d] # <<>>
               /\ QueueIs(d, Tail(queue[d]))
               /\ Head(queue[d]) = "committed"
               /\ WindowIs(d, "gone", window[d].ocr, window[d].view, TRUE,
                           window[d].committing, FALSE, window[d].prepared, window[d].told)
               /\ \E o \in {"loaded", "failed"} : CommitIs(d, commit[d].at,
                  commit[d].published, o)
               /\ SourceIs(d, Released(source[d]))
      BY <3>5, <1>2, <1>4, Fields, AnswerFacts DEF DialogInv, WorkerInv,
          SnapInv, QueueInv, WindowInv, CommitInv, LockInv, Answers, Early,
          Late, Inside, Reading, Fresh, Backed, Unjournaled, Committing,
          Closed, WorkerIs, PackageIs, CommitIs, WindowIs, QueueIs,
          CleanedUp, others, dialog, threads, Poll, At
    <3>. QED
      BY <1>1, <3>1, <3>2, <3>3, <3>4, <3>5
  <2>4. WindowInv(d)'
    <3>1. CASE /\ Closed(d)
               /\ QueueIs(d, <<>>)
               /\ WindowIs(d, window[d].state, window[d].ocr, window[d].view,
                           window[d].closed, window[d].committing, FALSE, window[d].prepared,
                              window[d].told)
               /\ commit' = commit /\ source' = source
      BY <3>1, <1>2, <1>4, Fields DEF DialogInv, WorkerInv, QueueInv,
          WindowInv, Answers, Early, Late, Inside, Reading, Backed, Closed,
          WorkerIs, PackageIs, CommitIs, WindowIs, QueueIs, CleanedUp,
          others, dialog, threads, Poll, At
    <3>2. CASE /\ ~Closed(d)
               /\ queue[d] # <<>>
               /\ QueueIs(d, Tail(queue[d]))
               /\ Head(queue[d]) = "prepared"
               /\ WindowIs(d, window[d].state, window[d].ocr, "preview", window[d].closed,
                           window[d].committing, FALSE, TRUE, window[d].told)
               /\ commit' = commit /\ source' = source
      BY <3>2, <1>2, <1>4, Fields DEF DialogInv, WorkerInv, SnapInv,
          QueueInv, WindowInv, CommitInv, LockInv, Answers, Early, Late,
          Inside, Reading, Fresh, Backed, Unjournaled, Committing, Closed,
          WorkerIs, PackageIs, CommitIs, WindowIs, QueueIs, CleanedUp,
          others, dialog, threads, Poll, At
    <3>3. CASE /\ ~Closed(d)
               /\ queue[d] # <<>>
               /\ QueueIs(d, Tail(queue[d]))
               /\ Head(queue[d]) = "ocr"
               /\ WindowIs(d, window[d].state, window[d].ocr, "ocr", window[d].closed,
                           window[d].committing, FALSE, window[d].prepared, window[d].told)
               /\ commit' = commit /\ source' = source
      BY <3>3, <1>2, <1>4, Fields DEF DialogInv, WorkerInv, SnapInv,
          QueueInv, WindowInv, CommitInv, LockInv, Answers, Early, Late,
          Inside, Reading, Fresh, Backed, Unjournaled, Committing, Closed,
          WorkerIs, PackageIs, CommitIs, WindowIs, QueueIs, CleanedUp,
          others, dialog, threads, Poll, At
    <3>4. CASE /\ ~Closed(d)
               /\ queue[d] # <<>>
               /\ QueueIs(d, Tail(queue[d]))
               /\ Head(queue[d]) = "error"
               /\ WindowIs(d, window[d].state, window[d].ocr, "error", window[d].closed,
                           FALSE, FALSE, window[d].prepared, TRUE)
               /\ commit' = commit /\ source' = source
      BY <3>4, <1>2, <1>4, Fields DEF DialogInv, WorkerInv, SnapInv,
          QueueInv, WindowInv, CommitInv, LockInv, Answers, Early, Late,
          Inside, Reading, Fresh, Backed, Unjournaled, Committing, Closed,
          WorkerIs, PackageIs, CommitIs, WindowIs, QueueIs, CleanedUp,
          others, dialog, threads, Poll, At
    <3>5. CASE /\ ~Closed(d)
               /\ queue[d] # <<>>
               /\ QueueIs(d, Tail(queue[d]))
               /\ Head(queue[d]) = "committed"
               /\ WindowIs(d, "gone", window[d].ocr, window[d].view, TRUE,
                           window[d].committing, FALSE, window[d].prepared, window[d].told)
               /\ \E o \in {"loaded", "failed"} : CommitIs(d, commit[d].at,
                  commit[d].published, o)
               /\ SourceIs(d, Released(source[d]))
      BY <3>5, <1>2, <1>4, Fields DEF DialogInv, WorkerInv, SnapInv,
          QueueInv, WindowInv, CommitInv, LockInv, Answers, Early, Late,
          Inside, Reading, Fresh, Backed, Unjournaled, Committing, Closed,
          WorkerIs, PackageIs, CommitIs, WindowIs, QueueIs, CleanedUp,
          others, dialog, threads, Poll, At
    <3>. QED
      BY <1>1, <3>1, <3>2, <3>3, <3>4, <3>5
  <2>5. CommitInv(d)'
    BY <1>1, <1>2, <1>4, Fields DEF DialogInv, WorkerInv, SnapInv, QueueInv,
        WindowInv, CommitInv, LockInv, Answers, Early, Late, Inside, Reading,
        Fresh, Backed, Unjournaled, Committing, Closed, WorkerIs, PackageIs,
        CommitIs, WindowIs, QueueIs, CleanedUp, others, dialog, threads, Poll, At
  <2>6. LockInv(d)'
    BY <1>1, <1>2, <1>4, Fields DEF DialogInv, WorkerInv, CommitInv, LockInv,
        Early, Inside, Reading, Committing, WorkerIs, PackageIs, CommitIs,
        WindowIs, QueueIs, CleanedUp, others, dialog, threads, Poll, At
  <2>7. SourceInv(d)'
    BY <1>1, <1>2, <1>4, Fields, AnswerFacts DEF DialogInv, WorkerInv, QueueInv, WindowInv,
        SourceInv, Early, Inside, Reading, Closed, Released, SourceIs, WorkerIs,
        WindowIs, QueueIs, others, dialog, threads, kept, Poll, At
  <2>. QED
    BY <2>1, <2>2, <2>3, <2>4, <2>5, <2>6, <2>7 DEF DialogInv
<1>. QED
    BY <1>1, <1>2, <1>3, Others DEF Poll, kept, SourceIs, others, dialog, threads, WorkerIs,
        PackageIs, CommitIs, WindowIs, QueueIs, CleanedUp

\* The review is answered.
LEMMA EndReviewStep ==
    ASSUME IInv, NEW d \in Dialogs, EndReview(d)
    PROVE  IInv'
<1> USE DEF IInv
<1>1. /\ WindowIs(d, window[d].state, window[d].ocr, "reviewed", window[d].closed,
                  window[d].committing, window[d].polling, window[d].prepared, window[d].told)
      /\ SourceIs(d, Released(source[d]))
    BY ReviewedEffect, ReleasesEffect DEF EndReview
<1>2. TypeOK'
    BY <1>1, DialogAssumption DEF TypeOK, WorkerIs, PackageIs, CommitIs, SourceIs,
        WindowIs, QueueIs, CleanedUp, others, dialog, threads, EndReview
<1>3. DialogInv(d)'
  <2>1. WorkerInv(d)'
    BY <1>1, <1>2, Fields DEF DialogInv, WorkerInv, WindowInv, Early, Inside,
        Reading, Backed, Closed, WorkerIs, PackageIs, CommitIs, WindowIs,
        QueueIs, CleanedUp, others, dialog, threads, EndReview, At
  <2>2. SnapInv(d)'
    BY <1>1, <1>2, Fields, AnswerFacts DEF DialogInv, WorkerInv, SnapInv,
        Early, Late, Inside, Reading, Fresh, Backed, Unjournaled, WorkerIs,
        PackageIs, CommitIs, WindowIs, QueueIs, CleanedUp, others, dialog, threads,
        EndReview, At
  <2>3. QueueInv(d)'
    BY <1>1, <1>2, Fields, AnswerFacts DEF DialogInv, WorkerInv, SnapInv,
        QueueInv, WindowInv, CommitInv, LockInv, Answers, Early, Late,
        Inside, Reading, Fresh, Backed, Unjournaled, Committing, Closed,
        WorkerIs, PackageIs, CommitIs, WindowIs, QueueIs, CleanedUp, others, dialog,
        threads, EndReview, At
  <2>4. WindowInv(d)'
    BY <1>1, <1>2, Fields DEF DialogInv, WorkerInv, QueueInv, WindowInv,
        Answers, Early, Late, Inside, Reading, Backed, Closed, WorkerIs,
        PackageIs, CommitIs, WindowIs, QueueIs, CleanedUp, others, dialog, threads,
        EndReview, At
  <2>5. CommitInv(d)'
    BY <1>1, <1>2, Fields DEF DialogInv, WindowInv, CommitInv, LockInv,
        Backed, Committing, Closed, WorkerIs, PackageIs, CommitIs, WindowIs,
        QueueIs, CleanedUp, others, dialog, threads, EndReview, At
  <2>6. LockInv(d)'
    BY <1>1, <1>2, Fields DEF DialogInv, WorkerInv, CommitInv, LockInv,
        Early, Inside, Reading, Committing, WorkerIs, PackageIs, CommitIs,
        WindowIs, QueueIs, CleanedUp, others, dialog, threads, EndReview, At
  <2>7. SourceInv(d)'
    BY <1>1, <1>2, Fields, AnswerFacts DEF DialogInv, WorkerInv, QueueInv, WindowInv,
        SourceInv, Early, Inside, Reading, Closed, Released, SourceIs, WorkerIs,
        WindowIs, QueueIs, others, dialog, threads, kept, EndReview, At
  <2>. QED
    BY <2>1, <2>2, <2>3, <2>4, <2>5, <2>6, <2>7 DEF DialogInv
<1>. QED
    BY <1>1, <1>2, <1>3, Others DEF EndReview, SourceIs, others, dialog, threads, WorkerIs,
        PackageIs, CommitIs, WindowIs, QueueIs, CleanedUp

\* Import is pressed.
LEMMA ImportStep ==
    ASSUME IInv, NEW d \in Dialogs, Import(d)
    PROVE  IInv'
<1> USE DEF IInv
<1>1. \/ /\ WindowIs(d, window[d].state, window[d].ocr, "busy", window[d].closed, TRUE, TRUE,
                     window[d].prepared, window[d].told)
         /\ CommitIs(d, "called", commit[d].published, commit[d].reloaded)
    BY ImportEffect, CommitGoesEffect DEF Import, WorkerStages, Inside,
        Reading, Outcomes
<1>2. TypeOK'
    BY <1>1, DialogAssumption DEF TypeOK, WorkerIs, PackageIs, CommitIs,
        WindowIs, QueueIs, CleanedUp, others, dialog, threads, Import
<1>3. DialogInv(d)'
  <2>1. WorkerInv(d)'
    BY <1>1, <1>2, Fields DEF DialogInv, WorkerInv, WindowInv, Early, Inside,
        Reading, Backed, Closed, WorkerIs, PackageIs, CommitIs, WindowIs,
        QueueIs, CleanedUp, others, dialog, threads, Import, At
  <2>2. SnapInv(d)'
    BY <1>1, <1>2, Fields, AnswerFacts DEF DialogInv, WorkerInv, SnapInv,
        Early, Late, Inside, Reading, Fresh, Backed, Unjournaled, WorkerIs,
        PackageIs, CommitIs, WindowIs, QueueIs, CleanedUp, others, dialog, threads,
        Import, At
  <2>3. QueueInv(d)'
    BY <1>1, <1>2, Fields, AnswerFacts DEF DialogInv, WorkerInv, SnapInv,
        QueueInv, WindowInv, CommitInv, LockInv, Answers, Early, Late,
        Inside, Reading, Fresh, Backed, Unjournaled, Committing, Closed,
        WorkerIs, PackageIs, CommitIs, WindowIs, QueueIs, CleanedUp, others, dialog,
        threads, Import, At
  <2>4. WindowInv(d)'
    BY <1>1, <1>2, Fields DEF DialogInv, WorkerInv, QueueInv, WindowInv,
        Answers, Early, Late, Inside, Reading, Backed, Closed, WorkerIs,
        PackageIs, CommitIs, WindowIs, QueueIs, CleanedUp, others, dialog, threads,
        Import, At
  <2>5. CommitInv(d)'
    BY <1>1, <1>2, Fields DEF DialogInv, WindowInv, CommitInv, LockInv,
        Backed, Committing, Closed, WorkerIs, PackageIs, CommitIs, WindowIs,
        QueueIs, CleanedUp, others, dialog, threads, Import, At
  <2>6. LockInv(d)'
    BY <1>1, <1>2, Fields DEF DialogInv, WorkerInv, CommitInv, LockInv,
        Early, Inside, Reading, Committing, WorkerIs, PackageIs, CommitIs,
        WindowIs, QueueIs, CleanedUp, others, dialog, threads, Import, At
  <2>7. SourceInv(d)'
    BY <1>1, <1>2, Fields, AnswerFacts DEF DialogInv, WorkerInv, QueueInv, WindowInv,
        SourceInv, Early, Inside, Reading, Closed, Released, SourceIs, WorkerIs,
        WindowIs, QueueIs, others, dialog, threads, kept, Import, At
  <2>. QED
    BY <2>1, <2>2, <2>3, <2>4, <2>5, <2>6, <2>7 DEF DialogInv
<1>. QED
    BY <1>1, <1>2, <1>3, Others DEF Import, others, dialog, threads, WorkerIs,
        PackageIs, CommitIs, WindowIs, QueueIs, CleanedUp

\* Cancel is pressed.
LEMMA CancelStep ==
    ASSUME IInv, NEW d \in Dialogs, Cancel(d)
    PROVE  IInv'
<1> USE DEF IInv
<1>1. \/ /\ ~window[d].prepared \/ package[d].spent
         /\ SourceIs(d, Released(source[d]))
         /\ WindowIs(d, "gone", window[d].ocr, window[d].view, TRUE, window[d].committing,
                     FALSE, window[d].prepared, window[d].told)
         /\ package' = package
         /\ failures' = failures
      \/ /\ window[d].prepared
         /\ SourceIs(d, Released(source[d]))
         /\ WindowIs(d, "gone", window[d].ocr, window[d].view, TRUE, window[d].committing,
                     FALSE, window[d].prepared, window[d].told)
         /\ CleanedUp(d)
         /\ failures' = failures
      \/ /\ window[d].prepared
         /\ source' = source
         /\ WindowIs(d, window[d].state, window[d].ocr, window[d].view, TRUE,
                     window[d].committing, window[d].polling, window[d].prepared,
                        window[d].told)
         /\ CleanedUp(d)
         /\ package'[d].botched
         /\ Fail \/ failures' = failures
    BY DestroysEffect, ReleasesEffect, ClosedEffect, CleansUpEffect,
        RaisesEffect DEF Cancel, Destroys,
        WorkerStages, Inside, Reading, Outcomes
<1>2. TypeOK'
    BY <1>1, DialogAssumption DEF TypeOK, WorkerIs, PackageIs, CommitIs, SourceIs,
        WindowIs, QueueIs, CleanedUp, others, dialog, threads, Cancel, Fail
<1>3. DialogInv(d)'
  <2>1. WorkerInv(d)'
    BY <1>1, <1>2, Fields DEF DialogInv, WorkerInv, WindowInv, Early, Inside,
        Reading, Backed, Closed, WorkerIs, PackageIs, CommitIs, WindowIs,
        QueueIs, CleanedUp, others, dialog, threads, Cancel, At, Fail
  <2>2. SnapInv(d)'
    BY <1>1, <1>2, Fields, AnswerFacts DEF DialogInv, WorkerInv, SnapInv,
        QueueInv, WindowInv, CommitInv, LockInv, Answers, Early, Late,
        Inside, Reading, Fresh, Backed, Unjournaled, Committing, Closed,
        WorkerIs, PackageIs, CommitIs, WindowIs, QueueIs, CleanedUp, others, dialog,
        threads, Cancel, At, Fail
  <2>3. QueueInv(d)'
    BY <1>1, <1>2, Fields, AnswerFacts DEF DialogInv, WorkerInv, SnapInv,
        QueueInv, Answers, Early, Late, Inside, Reading, Fresh, Backed,
        Unjournaled, Closed, WorkerIs, PackageIs, CommitIs, WindowIs,
        QueueIs, CleanedUp, others, dialog, threads, Cancel, At, Fail
  <2>4. WindowInv(d)'
    BY <1>1, <1>2, Fields DEF DialogInv, WorkerInv, QueueInv, WindowInv,
        Answers, Early, Late, Inside, Reading, Backed, Closed, WorkerIs,
        PackageIs, CommitIs, WindowIs, QueueIs, CleanedUp, others, dialog, threads,
        Cancel, At, Fail
  <2>5. CommitInv(d)'
    BY <1>1, <1>2, Fields DEF DialogInv, WindowInv, CommitInv, LockInv,
        Backed, Committing, Closed, WorkerIs, PackageIs, CommitIs, WindowIs,
        QueueIs, CleanedUp, others, dialog, threads, Cancel, At, Fail
  <2>6. LockInv(d)'
    BY <1>1, <1>2, Fields DEF DialogInv, WorkerInv, CommitInv, LockInv,
        Early, Inside, Reading, Committing, WorkerIs, PackageIs, CommitIs,
        WindowIs, QueueIs, CleanedUp, others, dialog, threads, Cancel, At, Fail
  <2>7. SourceInv(d)'
    BY <1>1, <1>2, Fields, AnswerFacts DEF DialogInv, WorkerInv, QueueInv, WindowInv,
        SourceInv, Early, Inside, Reading, Closed, Released, SourceIs, WorkerIs,
        WindowIs, QueueIs, others, dialog, threads, kept, Cancel, At, Fail
  <2>. QED
    BY <2>1, <2>2, <2>3, <2>4, <2>5, <2>6, <2>7 DEF DialogInv
<1>. QED
    BY <1>1, <1>2, <1>3, Others DEF Cancel, SourceIs, others, dialog, threads, WorkerIs,
        PackageIs, CommitIs, WindowIs, QueueIs, CleanedUp, Fail

\* A lease nobody holds is given up.
LEMMA CollectStep ==
    ASSUME IInv, NEW d \in Dialogs, Collect(d)
    PROVE  IInv'
<1> USE DEF IInv
<1>1. PackageIs(d, package[d].snap, FALSE, package[d].spent, package[d].botched)
    BY UnleasedEffect DEF Collect, WorkerStages, Inside, Reading, Outcomes
<1>2. TypeOK'
    BY <1>1, DialogAssumption DEF TypeOK, WorkerIs, PackageIs, CommitIs,
        WindowIs, QueueIs, CleanedUp, others, dialog, threads, Collect, Held
<1>3. DialogInv(d)'
  <2>1. WorkerInv(d)'
    BY <1>1, <1>2, Fields DEF DialogInv, WorkerInv, WindowInv, Early, Inside,
        Reading, Backed, Closed, WorkerIs, PackageIs, CommitIs, WindowIs,
        QueueIs, CleanedUp, others, dialog, threads, Collect, At, Held
  <2>2. SnapInv(d)'
    BY <1>1, <1>2, Fields, AnswerFacts DEF DialogInv, WorkerInv, SnapInv,
        Early, Late, Inside, Reading, Fresh, Backed, Unjournaled, WorkerIs,
        PackageIs, CommitIs, WindowIs, QueueIs, CleanedUp, others, dialog, threads,
        Collect, At, Held
  <2>3. QueueInv(d)'
    BY <1>1, <1>2, Fields, AnswerFacts DEF DialogInv, WorkerInv, SnapInv,
        QueueInv, Answers, Early, Late, Inside, Reading, Fresh, Backed,
        Unjournaled, Closed, WorkerIs, PackageIs, CommitIs, WindowIs,
        QueueIs, CleanedUp, others, dialog, threads, Collect, At, Held
  <2>4. WindowInv(d)'
    BY <1>1, <1>2, Fields DEF DialogInv, WorkerInv, QueueInv, WindowInv,
        Answers, Early, Late, Inside, Reading, Backed, Closed, WorkerIs,
        PackageIs, CommitIs, WindowIs, QueueIs, CleanedUp, others, dialog, threads,
        Collect, At, Held
  <2>5. CommitInv(d)'
    BY <1>1, <1>2, Fields DEF DialogInv, WindowInv, CommitInv, LockInv,
        Backed, Committing, Closed, WorkerIs, PackageIs, CommitIs, WindowIs,
        QueueIs, CleanedUp, others, dialog, threads, Collect, At, Held
  <2>6. LockInv(d)'
    BY <1>1, <1>2, Fields DEF DialogInv, WorkerInv, CommitInv, LockInv,
        Early, Inside, Reading, Committing, WorkerIs, PackageIs, CommitIs,
        WindowIs, QueueIs, CleanedUp, others, dialog, threads, Collect, At, Held
  <2>7. SourceInv(d)'
    BY <1>1, <1>2, Fields, AnswerFacts DEF DialogInv, WorkerInv, QueueInv, WindowInv,
        SourceInv, Early, Inside, Reading, Closed, Released, SourceIs, WorkerIs,
        WindowIs, QueueIs, others, dialog, threads, kept, Collect, At, Held
  <2>. QED
    BY <2>1, <2>2, <2>3, <2>4, <2>5, <2>6, <2>7 DEF DialogInv
<1>. QED
    BY <1>1, <1>2, <1>3, Others DEF Collect, others, dialog, threads, WorkerIs,
        PackageIs, CommitIs, WindowIs, QueueIs, CleanedUp, Held

\* A window opens.
LEMMA OpenStep ==
    ASSUME IInv, NEW d \in Dialogs, NEW ocr \in BOOLEAN,
           NEW from \in {"chosen", "adapted"}, Open(d, ocr, from)
    PROVE  IInv'
<1> USE DEF IInv
<1>1. \/ /\ WindowIs(d, "open", ocr, window[d].view, window[d].closed, window[d].committing,
                     TRUE, window[d].prepared, window[d].told)
         /\ SourceIs(d, from)
         /\ WorkerIs(d, "start", worker[d].out, worker[d].dir, worker[d].artifacts)
    BY OpenEffect, GoesEffect DEF Open, TypeOK, Sources, SourceIs, WorkerStages, Inside,
       Reading,
        Outcomes
<1>2. TypeOK'
    BY <1>1, DialogAssumption DEF TypeOK, WorkerIs, PackageIs, CommitIs, SourceIs,
        WindowIs, QueueIs, CleanedUp, others, dialog, threads, Open
<1>3. DialogInv(d)'
  <2>1. WorkerInv(d)'
    BY <1>1, <1>2, Fields DEF DialogInv, WorkerInv, WindowInv, Early, Inside,
        Reading, Backed, Closed, WorkerIs, PackageIs, CommitIs, WindowIs,
        QueueIs, CleanedUp, others, dialog, threads, Open, At
  <2>2. SnapInv(d)'
    BY <1>1, <1>2, Fields, AnswerFacts DEF DialogInv, WorkerInv, SnapInv,
        Early, Late, Inside, Reading, Fresh, Backed, Unjournaled, WorkerIs,
        PackageIs, CommitIs, WindowIs, QueueIs, CleanedUp, others, dialog, threads,
        Open, At
  <2>3. QueueInv(d)'
    BY <1>1, <1>2, Fields, AnswerFacts DEF DialogInv, WorkerInv, SnapInv,
        QueueInv, WindowInv, CommitInv, LockInv, Answers, Early, Late,
        Inside, Reading, Fresh, Backed, Unjournaled, Committing, Closed,
        WorkerIs, PackageIs, CommitIs, WindowIs, QueueIs, CleanedUp, others, dialog,
        threads, Open, At
  <2>4. WindowInv(d)'
    BY <1>1, <1>2, Fields DEF DialogInv, WorkerInv, QueueInv, WindowInv,
        Answers, Early, Late, Inside, Reading, Backed, Closed, WorkerIs,
        PackageIs, CommitIs, WindowIs, QueueIs, CleanedUp, others, dialog, threads,
        Open, At
  <2>5. CommitInv(d)'
    BY <1>1, <1>2, Fields DEF DialogInv, WindowInv, CommitInv, LockInv,
        Backed, Committing, Closed, WorkerIs, PackageIs, CommitIs, WindowIs,
        QueueIs, CleanedUp, others, dialog, threads, Open, At
  <2>6. LockInv(d)'
    BY <1>1, <1>2, Fields DEF DialogInv, WorkerInv, CommitInv, LockInv,
        Early, Inside, Reading, Committing, WorkerIs, PackageIs, CommitIs,
        WindowIs, QueueIs, CleanedUp, others, dialog, threads, Open, At
  <2>7. SourceInv(d)'
    BY <1>1, <1>2, Fields, AnswerFacts DEF DialogInv, WorkerInv, QueueInv, WindowInv,
        SourceInv, Early, Inside, Reading, Closed, Released, SourceIs, WorkerIs,
        WindowIs, QueueIs, others, dialog, threads, kept, Open, At
  <2>. QED
    BY <2>1, <2>2, <2>3, <2>4, <2>5, <2>6, <2>7 DEF DialogInv
<1>. QED
    BY <1>1, <1>2, <1>3, Others DEF Open, SourceIs, others, dialog, threads, WorkerIs,
        PackageIs, CommitIs, WindowIs, QueueIs, CleanedUp

-----------------------------------------------------------------------------
(* Theorems.                                                               *)

\* Before the first dialog opens.
LEMMA InitInv == Init => IInv
<1> SUFFICES ASSUME Init PROVE IInv
    OBVIOUS
<1>1. TypeOK
  <2>1. <<>> \in Seq(Answers)
    OBVIOUS
  <2>. QED
    BY <2>1, DialogAssumption DEF Init, TypeOK, Workers, Packages, Commits,
        Windows, Sources, Outcomes
<1>2. ASSUME NEW d \in Dialogs PROVE DialogInv(d)
    BY AnswerFacts DEF Init, DialogInv, WorkerInv, SnapInv, QueueInv,
        WindowInv, SourceInv, CommitInv, LockInv, Early, Late, Inside, Reading,
        Fresh, Unjournaled, Committing, Closed, Answers
<1>. QED
    BY <1>1, <1>2 DEF IInv

\* One step, action by action.
LEMMA NextInv == IInv /\ [Next]_vars => IInv'
<1> SUFFICES ASSUME IInv, [Next]_vars PROVE IInv'
    OBVIOUS
<1>1. CASE UNCHANGED vars
    BY <1>1 DEF vars, IInv, TypeOK, DialogInv, WorkerInv, SnapInv, QueueInv,
        WindowInv, SourceInv, CommitInv, LockInv, Fresh, Backed, Closed, Committing
<1>2. ASSUME NEW d \in Dialogs, Prepare(d) PROVE IInv'
    BY <1>2, ReconcileStep, RecoveredStep, MakeWorkspaceStep, RunStagesStep,
        HandOverStep, BeginSnapshotStep, CopyPackageStep, BeginSealStep,
        SealStep, DeliverStep, LeaveWorkspaceStep, ReportStep,
        ReleaseSourceStep DEF Prepare
<1>3. ASSUME NEW d \in Dialogs, Commit(d) PROVE IInv'
    BY <1>3, BeginCommitStep, TakeLockStep, GenesisStep, PublishStep,
        EndCommitStep DEF Commit
<1>. QED
    BY <1>1, <1>2, <1>3, PollStep, ImportStep, EndReviewStep, CancelStep, CollectStep,
        OpenStep DEF Next

\* Whatever the dialogs and their workers do, the invariant holds.
THEOREM Invariant == Spec => []IInv
<1>. QED
    BY InitInv, NextInv, PTL DEF Spec

\* Every state is one the records of dialogs, workers and snapshots can hold.
THEOREM TypeCorrect == Spec => []TypeOK
<1>1. IInv => TypeOK
    BY DEF IInv
<1>. QED
    BY <1>1, Invariant, PTL

\* WorkflowWorkspace never goes while its files are open: who opens them there
\* closes them before the worker leaves.  The application deletes the source it
\* adapted when the review ends or the dialog closes: not under an open review,
\* and under the worker only behind a window that was closed.
THEOREM UsedFilesStay == Spec => []FilesOutliveTheirUse
<1>1. ASSUME IInv, NEW d \in Dialogs
      PROVE  /\ worker[d].artifacts \in {"open", "claimed"} => worker[d].dir = "live"
             /\ window[d].state = "open" /\ window[d].view = "ocr" => source[d] # "deleted"
             /\ source[d] = "deleted" /\ worker[d].at \in Reading => Closed(d)
    BY <1>1 DEF IInv, DialogInv, WorkerInv, SourceInv, Inside, Reading
<1>2. IInv => FilesOutliveTheirUse
    BY <1>1 DEF FilesOutliveTheirUse
<1>. QED
    BY <1>2, Invariant, PTL

\* Whichever of a worker's many exits is taken, the snapshots it made are gone,
\* handed to the window, or known to have resisted.
THEOREM WorkersLeaveNothing == Spec => []WorkerLeavesNothing
<1>1. ASSUME IInv, NEW d \in Dialogs, worker[d].at = "ended", package[d].snap \in Unjournaled
      PROVE  \/ package[d].botched \/ window[d].prepared
             \/ \E i \in DOMAIN queue[d] : queue[d][i] = "prepared"
  <2>1. \/ package[d].botched \/ window[d].prepared \/ queue[d] = Alone("prepared")
    BY <1>1 DEF IInv, DialogInv, SnapInv, Late
  <2>2. 1 \in DOMAIN Alone("prepared") /\ Alone("prepared")[1] = "prepared"
    BY DEF Alone
  <2>. QED
    BY <2>1, <2>2
<1>2. IInv => WorkerLeavesNothing
    BY <1>1 DEF WorkerLeavesNothing
<1>. QED
    BY <1>2, Invariant, PTL

\* From the hand-over to its end a commit has its window and its snapshots to
\* itself: no cancellation and no recovery comes between.
THEOREM CommitsAreUndisturbed == Spec => []CommitIsUndisturbed
<1>1. IInv => CommitIsUndisturbed
    BY DEF IInv, DialogInv, CommitInv, CommitIsUndisturbed
<1>. QED
    BY <1>1, Invariant, PTL

\* After every failure of a commit the window's Cancel has nothing to remove, or
\* can remove it.
THEOREM DialogsCanBeCancelled == Spec => []CanBeCancelled
<1>1. ASSUME IInv, NEW d \in Dialogs, window[d].state = "open", window[d].prepared,
             ~window[d].committing
      PROVE  package[d].spent \/ Removable(d) \/ package[d].botched
  <2>1. CASE commit[d].at = "none"
    BY <1>1, <2>1, Fields DEF IInv, DialogInv, WindowInv, Backed, Removable
  <2>2. CASE commit[d].at # "none"
    BY <1>1, <2>2, Fields DEF IInv, DialogInv, CommitInv, Committing
  <2>. QED
    BY <2>1, <2>2
<1>2. IInv => CanBeCancelled
    BY <1>1 DEF CanBeCancelled
<1>. QED
    BY <1>2, Invariant, PTL

\* What the preview shows can be imported: nobody removes or releases its
\* snapshots, not even the recovery of another dialog.
THEOREM PreviewsAreBacked == Spec => []PreviewIsBacked
<1>1. ASSUME IInv, NEW d \in Dialogs, window[d].state = "open",
             window[d].view = "preview", ~Closed(d)
      PROVE  package[d].snap = "both" /\ package[d].leased
    BY <1>1 DEF IInv, DialogInv, WindowInv, Backed
<1>2. IInv => PreviewIsBacked
    BY <1>1 DEF PreviewIsBacked
<1>. QED
    BY <1>2, Invariant, PTL
=============================================================================
