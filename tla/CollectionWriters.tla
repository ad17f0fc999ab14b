-------------------------- MODULE CollectionWriters --------------------------
(***************************************************************************)
(* The ordinary writers of collection.json: application windows that each  *)
(* hold the whole collection in memory, edit it there and save it whole    *)
(* (add, CSV and Numista import, edit, edit with new photos, delete), or   *)
(* compare and change fields of the file itself (the conditional mutation  *)
(* of the review workflow), and the package import as one more writer.     *)
(* All of them take the one lock file, and a save goes ahead only while    *)
(* the file still holds the bytes the window loaded.                       *)
(*                                                                         *)
(* Translated from coin_collection.py (load_collection, save_collection,   *)
(* mutate_fields_conditionally and the operations on top of them),         *)
(* atomic_json.py, managed_media.py and capture_import/lock.py.  A call    *)
(* is cut where other processes can see or change what it uses: the        *)
(* request, the lock, the comparison, the replacement, the release.        *)
(*                                                                         *)
(* Simplifications:                                                        *)
(*  - the bytes of the file are the coins they encode, so a baseline is    *)
(*    the file state it was taken from;                                    *)
(*  - memory is changed before the lock is taken and put back on failure;  *)
(*    nobody sees it meanwhile, so items keeps what would be put back;     *)
(*  - the importer's own publication is in PackageImport; here it is the   *)
(*    step it looks like to the other writers;                             *)
(*  - programs that ignore the lock are outside (the guarantee "covers     *)
(*    cooperating locked writers", ORDINARY_COLLECTION_BASELINE.md).       *)
(***************************************************************************)
EXTENDS CollectionEdits, FiniteSets

CONSTANTS
    Windows,    \* open application windows
    Found,      \* what collection.json may hold at first
    MaxEdits,   \* bound: requests in a behaviour
    MaxFaults   \* bound: crashes and failed file operations in a behaviour

ASSUME WritersAssumption ==
    /\ MaxEdits \in Nat /\ MaxFaults \in Nat
    /\ None \notin Windows /\ "stale" \notin Windows
    /\ None \notin Collections \cup {Missing, Corrupt}
    /\ Found \subseteq Collections \cup {Missing, Corrupt}
    /\ \A f \in Found : PhotosOf(CoinsOf(f)) = {}

VARIABLES
    file,       \* collection.json
    lock,       \* who made the lock file: a window, "stale", or None
    media,      \* the managed photo files: "unused", "present" or "removed"
    load,       \* load_state of each window
    items,      \* the coins in each window's memory
    baseline,   \* the file state each window may replace
    stage,      \* how far the call of each window is
    edit,       \* the call's request
    expected,   \* the file state the call may replace
    payload,    \* the coins about to be written
    answer,     \* what the last call told its caller
    unsettled,  \* windows whose last save ended in an unexpected error
    edits, faults   \* counters of the bounds

vars == <<file, lock, media, load, items, baseline, stage, edit, expected,
          payload, answer, unsettled, edits, faults>>
disk == <<file, lock, media>>
memory == <<load, items, baseline, unsettled>>

FileStates == Collections \cup {Missing, Corrupt}
Stages == {"idle", "asked", "locked", "checked", "published", "found", "refused"}
\* The stages in which a window holds the lock.
Holding == Stages \ {"idle", "asked"}

TypeOK ==
    /\ file \in FileStates
    /\ lock \in Windows \cup {"stale", None}
    /\ media \in [Photos -> {"unused", "present", "removed"}]
    /\ load \in [Windows -> {"CLOSED", "MISSING", "LOADED", "FAILED"}]
    /\ items \in [Windows -> Collections]
    /\ baseline \in [Windows -> FileStates \cup {None}]
    /\ stage \in [Windows -> Stages]
    /\ edit \in [Windows -> Edits \cup {None}]
    /\ expected \in [Windows -> FileStates \cup {None}]
    /\ payload \in [Windows -> Collections \cup {None}]
    /\ answer \in [Windows -> {"none", "saved", "refused", "error"}]
    /\ unsettled \in SUBSET Windows
    /\ edits \in 0..MaxEdits /\ faults \in 0..MaxFaults

Init ==
    /\ file \in Found
    /\ lock = None
    /\ media = [p \in Photos |-> "unused"]
    /\ load = [w \in Windows |-> "CLOSED"]
    /\ items = [w \in Windows |-> NoCoins]
    /\ baseline = [w \in Windows |-> None]
    /\ stage = [w \in Windows |-> "idle"]
    /\ edit = [w \in Windows |-> None]
    /\ expected = [w \in Windows |-> None]
    /\ payload = [w \in Windows |-> None]
    /\ answer = [w \in Windows |-> "none"]
    /\ unsettled = {}
    /\ edits = 0 /\ faults = 0

\* A file operation fails, or a process dies.
Fail == faults < MaxFaults /\ faults' = faults + 1

-----------------------------------------------------------------------------
(* The window.                                                             *)

LoadDamagedAsEmpty(w) ==    \* mutant: a damaged file is an empty collection
    /\ stage[w] = "idle"
    /\ load' = [load EXCEPT ![w] = "LOADED"]
    /\ items' = [items EXCEPT ![w] = Normal(CoinsOf(file))]
    /\ baseline' = [baseline EXCEPT ![w] = file]
    /\ answer' = [answer EXCEPT ![w] = "none"]
    /\ unsettled' = unsettled \ {w}
    /\ UNCHANGED <<disk, stage, edit, expected, payload, edits, faults>>

\* load_collection, when the window opens and after a package import.
Load(w) ==
    /\ stage[w] = "idle"
    /\ load' = [load EXCEPT ![w] =
            IF file = Missing THEN "MISSING" ELSE IF file = Corrupt THEN "FAILED" ELSE "LOADED"]
    /\ items' = [items EXCEPT ![w] =
            IF file = Corrupt THEN NoCoins ELSE Normal(CoinsOf(file))]
    /\ baseline' = [baseline EXCEPT ![w] = IF file = Corrupt THEN None ELSE file]
    /\ answer' = [answer EXCEPT ![w] = "none"]
    /\ unsettled' = unsettled \ {w}
    /\ UNCHANGED <<disk, stage, edit, expected, payload, edits, faults>>

\* The checks each operation makes before it touches anything.
Askable(w, e) ==
    /\ e.kind \in Ordinary \cup {"mutate"} => load[w] \in {"MISSING", "LOADED"}
    /\ e.kind \in {"update", "photos", "delete"} => load[w] = "LOADED"
    /\ e.kind \in Ordinary => Applicable(e, items[w])
    /\ e.kind = "import" => file # Corrupt /\ Applicable(e, CoinsOf(file))

\* A call begins.  update_collection_item first copies the new photos to
\* fresh managed names.  The package import works from a preview of the file
\* (its prospective coins and their baseline), not from the window's memory.
Ask(w, e) ==
    /\ stage[w] = "idle" /\ load[w] # "CLOSED"
    /\ edits < MaxEdits /\ edits' = edits + 1
    /\ Askable(w, e)
    /\ e.kind = "photos" => media[e.photo] = "unused"
    /\ media' = IF e.kind = "photos" THEN [media EXCEPT ![e.photo] = "present"] ELSE media
    /\ stage' = [stage EXCEPT ![w] = "asked"]
    /\ edit' = [edit EXCEPT ![w] = e]
    /\ expected' = [expected EXCEPT ![w] = IF e.kind = "import" THEN file ELSE baseline[w]]
    /\ answer' = [answer EXCEPT ![w] = "none"]
    /\ UNCHANGED <<file, lock, memory, payload, faults>>

\* The window returns to its caller.
Return(w, a) ==
    /\ stage' = [stage EXCEPT ![w] = "idle"]
    /\ edit' = [edit EXCEPT ![w] = None]
    /\ expected' = [expected EXCEPT ![w] = None]
    /\ payload' = [payload EXCEPT ![w] = None]
    /\ answer' = [answer EXCEPT ![w] = a]

\* OrdinaryEntryManagedMediaStore.rollback, when the photos were copied.
RollBackMedia(w) ==
    media' = IF edit[w].kind = "photos"
             THEN [media EXCEPT ![edit[w].photo] = "removed"] ELSE media

-----------------------------------------------------------------------------
(* The lock file: PackageImportLock.                                       *)

Acquire(w) ==
    /\ stage[w] = "asked" /\ lock = None
    /\ lock' = w
    /\ stage' = [stage EXCEPT ![w] = "locked"]
    /\ UNCHANGED <<file, media, memory, edit, expected, payload, answer, edits, faults>>

\* The lock file exists, or cannot be made.  The ordinary save reports that
\* nothing was saved; the mutation raises its undifferentiated error.
CannotAcquire(w) ==
    /\ stage[w] = "asked"
    /\ \/ lock # None /\ UNCHANGED faults
       \/ lock = None /\ Fail
    /\ Return(w, IF edit[w].kind = "mutate" THEN "error" ELSE "refused")
    /\ RollBackMedia(w)
    /\ UNCHANGED <<file, lock, memory, edits>>

-----------------------------------------------------------------------------
(* Under the lock.                                                         *)

Step(w, from, to) ==
    /\ stage[w] = from
    /\ stage' = [stage EXCEPT ![w] = to]

CompareNothing(w) ==    \* mutant: the baseline is not looked at
    /\ edit[w] # None /\ edit[w].kind # "mutate"
    /\ Step(w, "locked", "checked")
    /\ payload' = [payload EXCEPT ![w] =
            IF edit[w].kind = "import" THEN Payload(edit[w], CoinsOf(expected[w]))
            ELSE After(edit[w], items[w])]
    /\ UNCHANGED <<disk, memory, edit, expected, answer, edits, faults>>

\* require_collection_baseline: the file is byte for byte what was loaded.
Compare(w) ==
    /\ edit[w] # None /\ edit[w].kind # "mutate"
    /\ IF file = expected[w]
       THEN /\ Step(w, "locked", "checked")
            /\ payload' = [payload EXCEPT ![w] =
                    IF edit[w].kind = "import" THEN Payload(edit[w], CoinsOf(expected[w]))
                    ELSE After(edit[w], items[w])]
       ELSE Step(w, "locked", "refused") /\ UNCHANGED payload
    /\ UNCHANGED <<disk, memory, edit, expected, answer, edits, faults>>

\* The mutation reads the file again and compares it field by field: nothing
\* is written when one field conflicts, or when all are already as desired.
CompareFields(w) ==
    /\ edit[w] # None /\ edit[w].kind = "mutate"
    /\ LET e == edit[w]
           found == file \in Collections /\ file[e.id] # None
       IN  IF ~found \/ Conflicted(e, file) # {}
           THEN Step(w, "locked", "refused") /\ UNCHANGED payload
           ELSE IF Applied(e, file) = DOMAIN e.desired
           THEN Step(w, "locked", "found") /\ UNCHANGED payload
           ELSE /\ Step(w, "locked", "checked")
                /\ payload' = [payload EXCEPT ![w] = After(e, file)]
    /\ UNCHANGED <<disk, memory, edit, expected, answer, edits, faults>>

\* write_json_atomically replaces the file; the window's baseline becomes the
\* receipt of what was written.  The importer leaves the window as it is; the
\* mutation adopts the file once it has read it back (Release).
Publish(w) ==
    /\ Step(w, "checked", "published")
    /\ file' = payload[w]
    /\ IF edit[w].kind \in Ordinary
       THEN /\ baseline' = [baseline EXCEPT ![w] = payload[w]]
            /\ load' = [load EXCEPT ![w] = "LOADED"]
       ELSE UNCHANGED <<baseline, load>>
    /\ UNCHANGED <<lock, media, items, unsettled, edit, expected, payload, answer,
                   edits, faults>>

\* The temporary file cannot be written: it is removed, the file is as before.
CannotWrite(w) ==
    /\ Fail
    /\ Step(w, "checked", "refused")
    /\ UNCHANGED <<disk, memory, edit, expected, payload, answer, edits>>

-----------------------------------------------------------------------------
(* The end of the call.                                                    *)

AdoptAnyway(w) ==       \* mutant: a refused edit stays in memory
    IF edit[w].kind # "import" /\ payload[w] # None
    THEN /\ items' = [items EXCEPT ![w] = Normal(payload[w])]
         /\ UNCHANGED <<baseline, load>>
    ELSE UNCHANGED <<items, baseline, load>>

\* The memory of a window whose call succeeded.
Adopt(w) ==
    IF stage[w] = "published" /\ edit[w].kind # "import"
    THEN /\ items' = [items EXCEPT ![w] = Normal(payload[w])]
         /\ baseline' = [baseline EXCEPT ![w] = payload[w]]
         /\ load' = [load EXCEPT ![w] = "LOADED"]
    ELSE UNCHANGED <<items, baseline, load>>

ReleaseRollingBack(w) ==    \* mutant: the copies are removed in every case
    /\ stage[w] \in {"published", "found", "refused"}
    /\ lock' = None
    /\ Adopt(w)
    /\ RollBackMedia(w)
    /\ Return(w, IF stage[w] = "refused" THEN "refused" ELSE "saved")
    /\ UNCHANGED <<file, unsettled, edits, faults>>

\* A call that did not publish puts back what it changed.
Release(w) ==
    /\ stage[w] \in {"published", "found", "refused"}
    /\ lock' = None
    /\ Adopt(w)
    /\ IF stage[w] = "refused" THEN RollBackMedia(w) ELSE UNCHANGED media
    /\ Return(w, IF stage[w] = "refused" THEN "refused" ELSE "saved")
    /\ UNCHANGED <<file, unsettled, edits, faults>>

\* The mutation cannot verify what it wrote: it reports that, and keeps the
\* memory and the baseline it had.
CannotVerify(w) ==
    /\ Fail
    /\ stage[w] = "published" /\ edit[w].kind = "mutate"
    /\ lock' = None
    /\ Return(w, "error")
    /\ UNCHANGED <<file, media, memory, edits>>

\* The lock cannot be released (its file cannot be deleted, or no longer
\* matches the handle): release() raises out of save_collection, past the
\* code that restores memory.  The file may stay behind.
\*  - add, update and delete let it pass: memory keeps the edit;
\*  - the CSV and Numista imports catch it: memory loses the edit;
\*  - an edit with photos catches it too and rolls its copies back;
\*  - a mutation has its memory and baseline bound already.
CannotRelease(w) ==
    /\ Fail
    /\ stage[w] \in {"published", "found", "refused"}
    /\ lock' \in {"stale", None}
    /\ Return(w, "error")
    /\ RollBackMedia(w)
    /\ IF edit[w].kind \in Ordinary
       THEN /\ items' = [items EXCEPT ![w] =
                    IF edit[w].kind = "csv" THEN @ ELSE After(edit[w], @)]
            /\ unsettled' = unsettled \cup {w}
            /\ UNCHANGED <<baseline, load>>
       ELSE Adopt(w) /\ UNCHANGED unsettled
    /\ UNCHANGED <<file, edits>>

-----------------------------------------------------------------------------
(* The environment.                                                        *)

\* The process of a window ends, at any point; its lock file stays behind.
Close(w) ==
    /\ load[w] # "CLOSED"
    /\ IF stage[w] = "idle" THEN UNCHANGED faults ELSE Fail
    /\ lock' = IF stage[w] \in Holding THEN "stale" ELSE lock
    /\ load' = [load EXCEPT ![w] = "CLOSED"]
    /\ items' = [items EXCEPT ![w] = NoCoins]
    /\ baseline' = [baseline EXCEPT ![w] = None]
    /\ unsettled' = unsettled \ {w}
    /\ Return(w, "none")
    /\ UNCHANGED <<file, media, edits>>

\* No code breaks a stale lock: the collector removes the file.
ClearStaleLock ==
    /\ lock = "stale"
    /\ lock' = None
    /\ UNCHANGED <<file, media, memory, stage, edit, expected, payload, answer,
                   edits, faults>>

-----------------------------------------------------------------------------

Call(w) ==
    \/ Acquire(w) \/ CannotAcquire(w) \/ Compare(w) \/ CompareFields(w)
    \/ Publish(w) \/ CannotWrite(w)
    \/ Release(w) \/ CannotVerify(w) \/ CannotRelease(w)

Next ==
    \/ \E w \in Windows :
            \/ Load(w) \/ Close(w) \/ Call(w)
            \/ \E e \in Edits : Ask(w, e)
    \/ ClearStaleLock

Spec == Init /\ [][Next]_vars

-----------------------------------------------------------------------------
(* Properties.                                                             *)

\* Two windows are never between comparison and release together, whatever
\* became of earlier holders of the lock file (lock.py, save_collection).
OneWriter ==
    \A v, w \in Windows :
        stage[v] \in Holding /\ stage[w] \in Holding => v = w /\ lock = w

\* A window that was told how its last call ended holds in memory what it may
\* write back: the coins of its baseline, no edit of its own forgotten and no
\* refused one left behind (the rollbacks of add_item, update_item,
\* delete_item and the CSV import).
MemoryIsBaseline ==
    \A w \in Windows :
        load[w] \in {"MISSING", "LOADED"} /\ stage[w] = "idle" /\ w \notin unsettled
            => baseline[w] \notin {None, Corrupt} /\ items[w] = Normal(CoinsOf(baseline[w]))

\* A managed photo that a saved coin refers to exists and stays, whatever fails;
\* only a window whose save ended in an unexpected error loses one
\* (update_collection_item and the media rollback).
PhotosKept ==
    [][\A p \in PhotosOf(CoinsOf(file')) :
            \/ media'[p] = "present"
            \/ p \in PhotosOf(CoinsOf(file)) /\ media[p] = "removed"
            \/ \E w \in unsettled' : stage'[w] # stage[w]]_vars

\* No writer of the application replaces a file it could not read: the
\* damaged bytes stay for recovery (FAILED protection of load_collection).
DamagedFileIsKept == [][file = Corrupt => file' = Corrupt]_vars

\* Every call takes effect at one moment on the file as it is then, or not at
\* all, and "saved" and "refused" are true (save_collection and
\* mutate_fields_conditionally under the lock).
Promise == INSTANCE AtomicCollection WITH
    records <- file,
    call <- [w \in Windows |->
                [edit |-> edit[w], done |-> stage[w] \in {"published", "found"}]]
ImplementsPromise == Promise!Spec

\* "A writer leaving memory unchanged also leaves its prior baseline unchanged;
\* ordinary writes then fail closed until reload if disk changed"
\* (ORDINARY_COLLECTION_BASELINE.md:42): a save replaces only the coins its
\* window holds.
WritesFailClosed ==
    [][\A w \in Windows :
            Publish(w) /\ edit[w].kind \in Ordinary => items[w] = Normal(CoinsOf(file))]_vars
=============================================================================
