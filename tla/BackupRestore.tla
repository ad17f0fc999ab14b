---------------------------- MODULE BackupRestore ----------------------------
(***************************************************************************)
(* Restoring a backup package over the live files while other windows go   *)
(* on saving.  A restore takes no lock: it recognises the file objects it  *)
(* works on by their identity, moves them aside and back with renames that *)
(* never replace, and deletes an original only after everything has been   *)
(* published.  It is no crash protocol: what a dead process moved aside    *)
(* stays aside.                                                            *)
(*                                                                         *)
(* Translated from backup_manager.py (create_backup_package,               *)
(* restore_from_backup_package and _restore_staged_files),                 *)
(* persistence_manager.py and the save of coin_collection.py.              *)
(*                                                                         *)
(* Simplifications:                                                        *)
(*  - the package verifies, holds the files of Order and nothing else;     *)
(*    directories, links, budgets and member names are left out;           *)
(*  - identities are never reused; POSIX may reuse the inode of a file that *)
(*    is gone;                                                             *)
(*  - the collection is the file that savers replace, under their lock and *)
(*    after comparing it with what they loaded (CollectionWriters); the    *)
(*    session state is one that is rewritten in place, without either.     *)
(***************************************************************************)
EXTENDS Integers, Sequences

CONSTANTS
    Windows,        \* processes of the application
    Collection,     \* data/collection.json
    Session,        \* collection_data/app_state/app_state.json
    Order,          \* the files of the package, as archived
    Package,        \* the bytes a package has for a file
    Torn,           \* a file truncated and not yet written, or not completely
    Missing,        \* no file
    None,           \* no plan, no saver
    MaxRestores,    \* bound: restores in a behaviour
    MaxSaves,       \* bound: saves in a behaviour
    MaxFaults       \* bound: crashes and failed file operations

Files == {Collection, Session}

ASSUME RestoreAssumption ==
    /\ Order \in Seq(Files) /\ Order # <<>>
    /\ \A i, j \in 1..Len(Order) : i # j => Order[i] # Order[j]
    /\ MaxRestores \in Nat /\ MaxSaves \in Nat /\ MaxFaults \in Nat
    /\ Collection # Session /\ Package # Torn /\ Missing \notin {Package, Torn}
    /\ Missing \notin 0..MaxSaves /\ None \notin Windows

\* A file object is its number, 0 for none.
Plans == [original : Nat, new : Nat, displaced : BOOLEAN, published : BOOLEAN,
          ambiguous : BOOLEAN]

ASSUME NoPlanAssumption == None \notin Plans

Versions == 0..MaxSaves             \* what savers write; 0 is what was there first
Data == Versions \cup {Package, Torn}

VARIABLES
    live,       \* the file object at the name of each file, 0 for none
    data,       \* the bytes of each object there has been, in the order they were made
    temp, old,  \* the objects at the .new and .old names of each window's restore
    kept,       \* objects left at such names by restores that are over
    plan,       \* each window's restore, file by file
    pre,        \* its pre-restore backup: the checksum and the bytes of each file
    zips,       \* the collections that finished backups hold under their own checksum
    pc, at,     \* what each window is doing, and with which file of Order
    result,     \* what its last restore reported
    seen,       \* the collection as each window last loaded or saved it
    saver,      \* who holds the lock of the collection
    writing,    \* the object a window has truncated and is about to write
    copies,     \* the session states copied to backups/app_state-*.json
    restores, saves, faults     \* counters of the bounds

names == <<live, temp, old, kept>>
backup == <<pre, zips>>
job == <<plan, pre, zips, pc, at, result>>
savers == <<seen, saver, writing, copies, saves>>
vars == <<live, data, temp, old, kept, plan, pre, zips, pc, at, result, seen, saver,
          writing, copies, restores, saves, faults>>

Forward == {"stage", "hash", "archive", "open", "check", "displace", "displaced", "publish",
            "published", "clean"}
Backward == {"undo", "unpublish", "unpublished", "putback", "discard"}
Restoring == Forward \cup Backward

Read == Data \cup {Missing}
Nothing == [f \in Files |-> [hash |-> Missing, bytes |-> Missing]]

TypeOK ==
    /\ live \in [Files -> Nat] /\ data \in Seq(Data)
    /\ temp \in [Windows -> [Files -> Nat]]
    /\ old \in [Windows -> [Files -> Nat]]
    /\ kept \subseteq Nat
    /\ plan \in [Windows -> [Files -> Plans \cup {None}]]
    /\ pre \in [Windows -> [Files -> [hash : Read, bytes : Read]]]
    /\ zips \subseteq Data
    /\ pc \in [Windows -> Restoring \cup {"idle", "saving", "overwriting", "writing", "clearing"}]
    /\ at \in [Windows -> 1..Len(Order)]
    /\ result \in [Windows -> {"none", "undoing", "partial", "ok", "failed", "incomplete"}]
    /\ seen \in [Windows -> Read]
    /\ saver \in Windows \cup {None}
    /\ writing \in [Windows -> Nat]
    /\ copies \subseteq Data
    /\ restores \in 0..MaxRestores /\ saves \in 0..MaxSaves /\ faults \in 0..MaxFaults

Init ==
    /\ live = [f \in Files |-> IF f = Collection THEN 1 ELSE 2]
    /\ data = <<0, 0>>
    /\ temp = [w \in Windows |-> [f \in Files |-> 0]]
    /\ old = [w \in Windows |-> [f \in Files |-> 0]]
    /\ kept = {}
    /\ plan = [w \in Windows |-> [f \in Files |-> None]]
    /\ pre = [w \in Windows |-> Nothing]
    /\ zips = {}
    /\ pc = [w \in Windows |-> "idle"] /\ at = [w \in Windows |-> 1]
    /\ result = [w \in Windows |-> "none"]
    /\ seen = [w \in Windows |-> 0]
    /\ saver = None
    /\ writing = [w \in Windows |-> 0]
    /\ copies = {}
    /\ restores = 0 /\ saves = 0 /\ faults = 0

Fail == faults < MaxFaults /\ faults' = faults + 1

Content(f) == IF live[f] = 0 THEN Missing ELSE data[live[f]]

\* A new object with the bytes d.
Made == Len(data) + 1
Make(d) == data' = Append(data, d)

\* The names an object can have.
Named(o) ==
    \/ \E f \in Files : live[f] = o
    \/ \E w \in Windows, f \in Files : temp[w][f] = o \/ old[w][f] = o
    \/ o \in kept

-----------------------------------------------------------------------------
(* The restore.                                                            *)

GoTo(w, step) == pc' = [pc EXCEPT ![w] = step]
File(w) == Order[at[w]]
Plan(w) == plan[w][File(w)]

\* On to the next file of the package, or to the phase after this one.
Advance(w, step, phase) ==
    IF at[w] < Len(Order)
    THEN at' = [at EXCEPT ![w] = @ + 1] /\ GoTo(w, step)
    ELSE at' = [at EXCEPT ![w] = 1] /\ GoTo(w, phase)

\* An exception: the plans are undone, the last one first.
Raise(w) ==
    /\ GoTo(w, "undo")
    /\ at' = [at EXCEPT ![w] = Len(Order)]
    /\ result' = [result EXCEPT ![w] = "undoing"]

\* A step of the restore at the given point; it may be an OSError instead.
Step(w, point, action) ==
    /\ pc[w] = point
    /\ \/ action /\ UNCHANGED faults
       \/ Raise(w) /\ Fail /\ UNCHANGED <<names, data, plan, backup>>
    /\ UNCHANGED <<savers, restores>>

Begin(w) ==
    /\ pc[w] = "idle" /\ restores < MaxRestores
    /\ restores' = restores + 1
    /\ GoTo(w, "stage") /\ at' = [at EXCEPT ![w] = 1]
    /\ result' = [result EXCEPT ![w] = "none"]
    /\ plan' = [plan EXCEPT ![w] = [f \in Files |-> None]]
    /\ pre' = [pre EXCEPT ![w] = Nothing]
    /\ UNCHANGED <<names, data, savers, zips, faults>>

\* The identity of what is there, and the new file beside it.
Staged(w) ==
    LET f == File(w)
    IN  /\ Make(Package)
        /\ temp' = [temp EXCEPT ![w][f] = Made]
        /\ plan' = [plan EXCEPT ![w][f] =
                [original |-> live[f], new |-> Made, displaced |-> FALSE,
                 published |-> FALSE, ambiguous |-> FALSE]]
        /\ UNCHANGED <<live, old, kept, backup>>

Stage(w) ==
    \/ Step(w, "stage", Staged(w) /\ Advance(w, "stage", "hash") /\ UNCHANGED result)
    \* the new file was created and could not be written
    \/ /\ pc[w] = "stage" /\ Staged(w) /\ Raise(w) /\ Fail
       /\ UNCHANGED <<savers, restores>>

\* The pre-restore backup: the checksum of each file that exists, then its bytes.
Packed(w, p) ==
    IF at[w] < Len(Order) THEN pre' = p /\ UNCHANGED zips
    ELSE LET c == p[w][Collection]
         IN  /\ pre' = [p EXCEPT ![w] = Nothing]
             /\ zips' = zips \cup (IF c.hash = c.bytes THEN {c.bytes} \ {Missing} ELSE {})

Hash(w) ==
    Step(w, "hash",
        /\ IF live[File(w)] = 0
           THEN Advance(w, "hash", "open") /\ Packed(w, pre)
           ELSE /\ pre' = [pre EXCEPT ![w][File(w)].hash = Content(File(w))]
                /\ GoTo(w, "archive") /\ UNCHANGED <<at, zips>>
        /\ UNCHANGED <<names, data, plan, result>>)

Archive(w) ==
    Step(w, "archive",
        /\ IF live[File(w)] = 0
           THEN Raise(w) /\ UNCHANGED backup
           ELSE /\ Packed(w, [pre EXCEPT ![w][File(w)].bytes = Content(File(w))])
                /\ Advance(w, "hash", "open") /\ UNCHANGED result
        /\ UNCHANGED <<names, data, plan>>)

\* Every original is opened, and must still be the object that was staged for.
Open(w) ==
    Step(w, "open",
        /\ IF Plan(w).original \in {0, live[File(w)]}
           THEN Advance(w, "open", "check") /\ UNCHANGED result
           ELSE Raise(w)
        /\ UNCHANGED <<names, data, plan, backup>>)

Check(w) ==
    Step(w, "check",
        /\ IF Plan(w).original = 0 THEN GoTo(w, "publish") /\ UNCHANGED <<at, result>>
           ELSE IF Plan(w).original = live[File(w)]
           THEN GoTo(w, "displace") /\ UNCHANGED <<at, result>>
           ELSE Raise(w)
        /\ UNCHANGED <<names, data, plan, backup>>)

\* After a rename: is the object at its new name the one that was meant?  When it
\* is not, or cannot be looked at, nobody knows whose it is.
Look(w, point, same, action) ==
    /\ pc[w] = point
    /\ \/ same /\ action /\ UNCHANGED <<plan, faults>>
       \/ /\ \/ ~same /\ UNCHANGED faults
             \/ same /\ Fail
          /\ Raise(w) /\ plan' = [plan EXCEPT ![w][File(w)].ambiguous = TRUE]
    /\ UNCHANGED <<names, data, backup, savers, restores>>

\* The rename moves what is at the name by now.
Displace(w) ==
    Step(w, "displace",
        LET f == File(w)
        IN  /\ IF live[f] = 0 THEN Raise(w) /\ UNCHANGED <<live, old, plan>>
               ELSE /\ live' = [live EXCEPT ![f] = 0]
                    /\ old' = [old EXCEPT ![w][f] = live[f]]
                    /\ plan' = [plan EXCEPT ![w][f].displaced = TRUE]
                    /\ GoTo(w, "displaced") /\ UNCHANGED <<at, result>>
            /\ UNCHANGED <<temp, kept, data, backup>>)

Displaced(w) ==
    Look(w, "displaced", old[w][File(w)] = Plan(w).original,
         GoTo(w, "publish") /\ UNCHANGED <<at, result>>)

Publish(w) ==
    Step(w, "publish",
        LET f == File(w)
        IN  /\ IF live[f] # 0 THEN Raise(w) /\ UNCHANGED <<live, temp, plan>>
               ELSE /\ live' = [live EXCEPT ![f] = temp[w][f]]
                    /\ temp' = [temp EXCEPT ![w][f] = 0]
                    /\ plan' = [plan EXCEPT ![w][f].published = TRUE]
                    /\ GoTo(w, "published") /\ UNCHANGED <<at, result>>
            /\ UNCHANGED <<old, kept, data, backup>>)

Published(w) ==
    Look(w, "published", live[File(w)] = Plan(w).new,
         Advance(w, "check", "clean") /\ UNCHANGED result)

\* The restore is over; what it leaves at its names stays there.
Leftovers(w, n) == {n[w][f] : f \in Files} \ {0}

Finish(w, r) ==
    /\ GoTo(w, "idle") /\ at' = [at EXCEPT ![w] = 1]
    /\ result' = [result EXCEPT ![w] = r]
    /\ plan' = [plan EXCEPT ![w] = [f \in Files |-> None]]

\* The originals are removed; one that cannot be is only warned about.
Clean(w) ==
    /\ pc[w] = "clean"
    /\ \/ old' = [old EXCEPT ![w][File(w)] = 0] /\ UNCHANGED <<kept, faults>>
       \/ /\ Fail
          /\ old' = [old EXCEPT ![w][File(w)] = 0]
          /\ kept' = kept \cup ({old[w][File(w)]} \ {0})
    /\ IF at[w] < Len(Order)
       THEN at' = [at EXCEPT ![w] = @ + 1] /\ UNCHANGED <<pc, plan, result>>
       ELSE Finish(w, "ok")
    /\ UNCHANGED <<live, temp, data, backup, savers, restores>>

-----------------------------------------------------------------------------
(* The rollback: each plan is undone as far as its objects are the ones it *)
(* put there; the first thing that is not leaves the rest of the plan.     *)

ResultOfLast(w, complete) ==    \* mutant: what earlier plans left is forgotten
    IF complete THEN "failed" ELSE "incomplete"

Result(w, complete) == IF complete /\ result[w] = "undoing" THEN "failed" ELSE "incomplete"

\* This plan is done with; complete unless something was left.
NextPlan(w, complete, t) ==
    IF at[w] > 1
    THEN /\ at' = [at EXCEPT ![w] = @ - 1] /\ GoTo(w, "undo")
         /\ result' = [result EXCEPT ![w] = IF complete THEN @ ELSE "partial"]
         /\ temp' = t
         /\ UNCHANGED <<plan, old, kept>>
    ELSE /\ Finish(w, Result(w, complete))
         /\ kept' = kept \cup Leftovers(w, t) \cup Leftovers(w, old)
         /\ temp' = [t EXCEPT ![w] = [f \in Files |-> 0]]
         /\ old' = [old EXCEPT ![w] = [f \in Files |-> 0]]

Undoing(w, point, action) ==
    /\ pc[w] = point
    /\ \/ action /\ UNCHANGED faults
       \/ Fail /\ NextPlan(w, FALSE, temp) /\ UNCHANGED live
    /\ UNCHANGED <<data, backup, savers, restores>>

Undo(w) ==
    \/ /\ pc[w] = "undo" /\ Plan(w) = None
       /\ NextPlan(w, TRUE, temp)
       /\ UNCHANGED <<live, data, backup, savers, restores, faults>>
    \/ /\ Plan(w) # None
       /\ Undoing(w, "undo",
        /\ IF ~Plan(w).published THEN
                /\ GoTo(w, "putback")
                /\ UNCHANGED <<temp, old, kept, plan, at, result>>
           ELSE IF live[File(w)] = Plan(w).new THEN
                /\ GoTo(w, "unpublish")
                /\ UNCHANGED <<temp, old, kept, plan, at, result>>
           ELSE NextPlan(w, FALSE, temp)
        /\ UNCHANGED live)

Unpublish(w) ==
    Undoing(w, "unpublish",
        LET f == File(w)
        IN  IF live[f] = 0 THEN NextPlan(w, FALSE, temp) /\ UNCHANGED live
            ELSE /\ live' = [live EXCEPT ![f] = 0]
                 /\ temp' = [temp EXCEPT ![w][f] = live[f]]
                 /\ GoTo(w, "unpublished")
                 /\ UNCHANGED <<old, kept, plan, at, result>>)

Unpublished(w) ==
    Undoing(w, "unpublished",
        /\ IF temp[w][File(w)] = Plan(w).new
           THEN /\ plan' = [plan EXCEPT ![w][File(w)].published = FALSE]
                /\ GoTo(w, "putback")
                /\ UNCHANGED <<temp, old, kept, at, result>>
           ELSE NextPlan(w, FALSE, temp)
        /\ UNCHANGED live)

\* Back into an absent destination only.
PutBackOver(w) ==       \* mutant: the original is put back over whatever is there
    Undoing(w, "putback",
        LET f == File(w)
        IN  IF Plan(w).displaced
            THEN /\ live' = [live EXCEPT ![f] = old[w][f]]
                 /\ old' = [old EXCEPT ![w][f] = 0]
                 /\ plan' = [plan EXCEPT ![w][f].displaced = FALSE]
                 /\ GoTo(w, "discard")
                 /\ UNCHANGED <<temp, kept, at, result>>
            ELSE /\ GoTo(w, "discard")
                 /\ UNCHANGED <<live, temp, old, kept, plan, at, result>>)

PutBack(w) ==
    Undoing(w, "putback",
        LET f == File(w)
        IN  IF ~Plan(w).displaced
            THEN /\ GoTo(w, "discard")
                 /\ UNCHANGED <<live, temp, old, kept, plan, at, result>>
            ELSE IF Plan(w).ambiguous \/ live[f] # 0
            THEN NextPlan(w, FALSE, temp) /\ UNCHANGED live
            ELSE /\ live' = [live EXCEPT ![f] = old[w][f]]
                 /\ old' = [old EXCEPT ![w][f] = 0]
                 /\ plan' = [plan EXCEPT ![w][f].displaced = FALSE]
                 /\ GoTo(w, "discard")
                 /\ UNCHANGED <<temp, kept, at, result>>)

\* The new file is deleted, unless it was once lost from sight: then it stays,
\* and nothing says so.
Discard(w) ==
    Undoing(w, "discard",
        /\ NextPlan(w, TRUE, IF Plan(w).ambiguous THEN temp
                             ELSE [temp EXCEPT ![w][File(w)] = 0])
        /\ UNCHANGED live)

-----------------------------------------------------------------------------
(* The savers.                                                             *)

Save == saves < MaxSaves /\ saves' = saves + 1

\* A collection save: the lock, the comparison with what was loaded ...
CheckSave(w) ==
    /\ pc[w] = "idle" /\ saver = None
    /\ Content(Collection) = seen[w]
    /\ Save /\ saver' = w /\ GoTo(w, "saving")
    /\ UNCHANGED <<names, data, plan, backup, at, result, seen, writing, copies, restores,
                   faults>>

\* ... and the replacement of whatever is there by then.
Replace(w) ==
    /\ pc[w] = "saving"
    /\ Make(saves)
    /\ live' = [live EXCEPT ![Collection] = Made]
    /\ seen' = [seen EXCEPT ![w] = saves]
    /\ saver' = None /\ GoTo(w, "idle")
    /\ UNCHANGED <<temp, old, kept, plan, backup, at, result, writing, copies, restores, saves,
                   faults>>

Reload(w) ==
    /\ pc[w] = "idle" /\ seen[w] # Content(Collection)
    /\ seen' = [seen EXCEPT ![w] = Content(Collection)]
    /\ UNCHANGED <<names, data, job, saver, writing, copies, restores, saves, faults>>

\* backup_state: a copy of the session state.  Its result is not looked at.
BackUpState(w, next) ==
    /\ pc[w] = "idle" /\ live[Session] # 0
    /\ \/ copies' = copies \cup {Content(Session)} /\ UNCHANGED faults
       \/ Fail /\ UNCHANGED copies
    /\ GoTo(w, next)
    /\ UNCHANGED <<names, data, plan, backup, at, result, seen, saver, writing, restores, saves>>

\* save_state: the file is truncated, then written.
Truncate(w) ==
    /\ pc[w] = "overwriting" \/ (pc[w] = "idle" /\ live[Session] = 0)
    /\ Save
    /\ IF live[Session] = 0
       THEN /\ Make(Torn)
            /\ live' = [live EXCEPT ![Session] = Made]
            /\ writing' = [writing EXCEPT ![w] = Made]
       ELSE /\ data' = [data EXCEPT ![live[Session]] = Torn]
            /\ writing' = [writing EXCEPT ![w] = live[Session]]
            /\ UNCHANGED live
    /\ GoTo(w, "writing")
    /\ UNCHANGED <<temp, old, kept, plan, backup, at, result, seen, saver, copies, restores, faults>>

\* Two windows writing one file may leave a mixture.
Write(w) ==
    /\ pc[w] = "writing"
    /\ \/ /\ \/ data' = [data EXCEPT ![writing[w]] = saves]
             \/ data[writing[w]] # Torn /\ data' = [data EXCEPT ![writing[w]] = Torn]
          /\ UNCHANGED faults
       \/ Fail /\ UNCHANGED data
    /\ writing' = [writing EXCEPT ![w] = 0]
    /\ GoTo(w, "idle")
    /\ UNCHANGED <<names, plan, backup, at, result, seen, saver, copies, restores, saves>>

\* clear_state: the file is removed.
Clear(w) ==
    /\ pc[w] = "clearing"
    /\ live' = [live EXCEPT ![Session] = 0]
    /\ GoTo(w, "idle")
    /\ UNCHANGED <<temp, old, kept, data, plan, backup, at, result, savers, restores, faults>>

\* The process ends.  Its handles are closed, its lock is cleared by hand, and
\* what its restore has moved stays where it is.
Crash(w) ==
    /\ pc[w] # "idle" /\ Fail
    /\ GoTo(w, "idle") /\ at' = [at EXCEPT ![w] = 1]
    /\ result' = [result EXCEPT ![w] = "none"]
    /\ plan' = [plan EXCEPT ![w] = [f \in Files |-> None]]
    /\ kept' = kept \cup Leftovers(w, temp) \cup Leftovers(w, old)
    /\ temp' = [temp EXCEPT ![w] = [f \in Files |-> 0]]
    /\ old' = [old EXCEPT ![w] = [f \in Files |-> 0]]
    /\ writing' = [writing EXCEPT ![w] = 0]
    /\ saver' = IF saver = w THEN None ELSE saver
    /\ seen' = [seen EXCEPT ![w] = Content(Collection)]
    /\ UNCHANGED <<live, data, backup, copies, restores, saves>>

-----------------------------------------------------------------------------

Restore(w) ==
    \/ Begin(w) \/ Stage(w) \/ Hash(w) \/ Archive(w) \/ Open(w) \/ Check(w) \/ Displace(w)
    \/ Displaced(w) \/ Publish(w) \/ Published(w) \/ Clean(w)
    \/ Undo(w) \/ Unpublish(w) \/ Unpublished(w) \/ PutBack(w) \/ Discard(w)

Saving(w) ==
    \/ CheckSave(w) \/ Replace(w) \/ Reload(w)
    \/ BackUpState(w, "overwriting") \/ BackUpState(w, "clearing")
    \/ Truncate(w) \/ Write(w) \/ Clear(w)

Next == \E w \in Windows : Restore(w) \/ Saving(w) \/ Crash(w)

Spec == Init /\ [][Next]_vars

-----------------------------------------------------------------------------
(* Properties.                                                             *)

\* An object a restore, or a saver, may not lose.
Holds(o) ==
    \/ live[Collection] = o
    \/ \E w \in Windows : temp[w][Collection] = o \/ old[w][Collection] = o

\* A version of the collection disappears only when a save of a window that has
\* seen it replaces it, or when a pre-restore backup has its bytes under their own
\* checksum: whatever is saved, restored or crashes meanwhile ("A competing
\* destination is never replaced", SEC-001-002-phase1.md; the identity check after
\* the backup).
VersionsKept ==
    [][\A o \in DOMAIN data : Holds(o) /\ ~Named(o)' /\ data[o] # Package =>
        \/ data[o] \in zips
        \/ saver # None /\ seen[saver] = data[o]]_vars

\* A restore that reports success has published every file of the package, and one
\* that reports a plain failure, without "rollback is incomplete", has put back
\* every original and left behind nothing but a new file that it could not
\* recognise after publishing it (_restore_staged_files).
AllOrNothing ==
    [][\A w \in Windows : result[w] # result'[w] =>
        /\ result'[w] = "ok" => \A i \in 1..Len(Order) : plan[w][Order[i]].published
        /\ result'[w] = "failed" =>
            LET planned == {f \in Files : plan[w][f] # None}
            IN  /\ kept' \subseteq kept \cup {plan[w][f].new : f \in planned}
                /\ \A f \in planned, o \in DOMAIN data : o = plan[w][f].new =>
                        /\ live'[f] # o
                        /\ Named(o)' => plan[w][f].ambiguous]_vars
=============================================================================
