----------------------------- MODULE PhoneEntry -----------------------------
(***************************************************************************)
(* Recording a coin from two phone photos.  Three files take part: the     *)
(* intake (confirmed Front/Reverse pairs and their save intents), the      *)
(* collection, and, for the phone service, an audit of its drafts; each    *)
(* has a lock of its own and is replaced atomically, and nothing ties the  *)
(* three together but the order of the calls.  A save that cannot be shown *)
(* to have failed keeps its intent: it is reconciled, never repeated.      *)
(*                                                                         *)
(* Translated from phone_intake.py, phone_entry_service.py,                *)
(* phone_intake_dialog.py, coin_collection_gui.py (the save of a visual    *)
(* review), capture_import/unidentified_pair_collection_entry.py and       *)
(* capture_import/reviewed_coin_collection_entry.py.                       *)
(*                                                                         *)
(* Simplifications:                                                        *)
(*  - an edit of the intake or the audit is one step under its lock, and   *)
(*    its lock outlives it only when the process dies or cannot release    *)
(*    it; but complete, which looks at the collection under the intake's   *)
(*    lock alone, is two steps, the look and the write.  clean_save_failure*)
(*    looks too and stays one: the coin it misses can no longer be saved;  *)
(*  - the photo files themselves do not change;                            *)
(*  - a coin is the roles of its two photos and whether it was edited      *)
(*    since; the managed copies of a coin's photos are made and removed    *)
(*    together (PackageImport has the images one by one);                  *)
(*  - the phone service has an intake of its own (phone_entry_demo.py).    *)
(***************************************************************************)
EXTENDS Naturals, FiniteSets

CONSTANTS
    Windows,        \* desktop application processes, sharing one intake
    Phone,          \* the phone service, one process at a time
    DesktopPhotos,  \* photos in the inbox
    PhonePhotos,    \* photos the phone uploads
    Pairs,          \* pair IDs: fresh UUIDs
    Coins,          \* reserved item IDs: fresh UUIDs
    None,           \* no record, no coin, no job, no lock holder
    MaxFaults       \* bound: crashes and failed file operations in a behaviour

Actors == Windows \cup {Phone}
Photos == DesktopPhotos \cup PhonePhotos
Stores == {"desktop", "phone"}
Store(a) == IF a = Phone THEN "phone" ELSE "desktop"
Album(a) == IF a = Phone THEN PhonePhotos ELSE DesktopPhotos

Roles == [front : Photos, back : Photos]
Kinds == {"visual", "unidentified", "phone", "reconcile"}
Outcomes == {"none", "saved", "clean", "recovery"}

\* A coin of the collection, a pair of an intake, a draft of the audit, a call.
Items == [roles : Roles, edited : BOOLEAN]
Entries == [store : Stores, roles : Roles, coin : Coins \cup {None}, blank : BOOLEAN,
            state : {"READY", "SAVING", "SAVED", "released"}]
Drafts == [roles : Roles, coin : Coins \cup {None},
           state : {"DRAFT", "VERIFIED", "SAVING", "SAVED", "RECOVERY_REQUIRED"}]
Jobs == [kind : Kinds, pair : Pairs, roles : Roles, coin : Coins \cup {None},
         outcome : Outcomes]

ASSUME PhoneAssumption ==
    /\ MaxFaults \in Nat
    /\ Phone \notin Windows /\ "stale" \notin Actors
    /\ DesktopPhotos \cap PhonePhotos = {}
    /\ None \notin Actors \cup Coins \cup Pairs
    /\ None \notin Roles /\ None \notin Items /\ None \notin Entries
    /\ None \notin Drafts /\ None \notin Jobs

VARIABLES
    collection, \* the coins saved with an intent
    published,  \* the roles each coin was saved with (history: no step reads it)
    fresh,      \* whose memory still has the bytes of collection.json
    importLock, \* who holds the collection's lock: an actor, "stale", None
    media,      \* the managed copies of each coin's photos
    pairs,      \* the two intake files
    intakeLock, \* intakes whose lock file was left behind
    seen,       \* the pair whose coin an actor has found on disk, in complete,
                \* which holds the lock of the actor's intake meanwhile
    audit,      \* the phone service's record of each draft, by its pair
    auditLock,  \* whether the audit's lock file was left behind
    pc, job,    \* what each actor is doing, and with what
    faults      \* counter of the bound

vars == <<collection, published, fresh, importLock, media, pairs, intakeLock, seen,
          audit, auditLock, pc, job, faults>>
shelf == <<collection, published, fresh, importLock, media>>
intake == <<pairs, intakeLock, seen>>
diary == <<audit, auditLock>>

Saving == {"reserved", "locked", "copied", "failed", "release"}
Steps == Saving \cup {"idle", "review", "recheck", "drafted", "began", "packed", "persisted",
                      "recorded", "completed", "clearing", "marking"}

TypeOK ==
    /\ collection \in [Coins -> Items \cup {None}]
    /\ published \in [Coins -> Roles \cup {None}]
    /\ fresh \in [Actors -> BOOLEAN]
    /\ importLock \in Actors \cup {"stale", None}
    /\ media \in [Coins -> {"none", "copied", "removed", "left"}]
    /\ pairs \in [Pairs -> Entries \cup {None}]
    /\ intakeLock \in [Stores -> BOOLEAN]
    /\ seen \in [Actors -> Pairs \cup {None}]
    /\ audit \in [Pairs -> Drafts \cup {None}]
    /\ auditLock \in BOOLEAN
    /\ pc \in [Actors -> Steps]
    /\ job \in [Actors -> Jobs \cup {None}]
    /\ faults \in 0..MaxFaults

Init ==
    /\ collection = [c \in Coins |-> None]
    /\ published = [c \in Coins |-> None]
    /\ fresh = [a \in Actors |-> TRUE]
    /\ importLock = None
    /\ media = [c \in Coins |-> "none"]
    /\ pairs = [p \in Pairs |-> None]
    /\ intakeLock = [s \in Stores |-> FALSE]
    /\ seen = [a \in Actors |-> None]
    /\ audit = [p \in Pairs |-> None]
    /\ auditLock = FALSE
    /\ pc = [a \in Actors |-> "idle"]
    /\ job = [a \in Actors |-> None]
    /\ faults = 0

Fail == faults < MaxFaults /\ faults' = faults + 1

\* The next step of a's call, with the job j; a call that ends has none.
GoTo(a, step, j) ==
    /\ pc' = [pc EXCEPT ![a] = step]
    /\ job' = [job EXCEPT ![a] = IF step = "idle" THEN None ELSE j]

\* Whether an intake's lock file is there.
Held(s) == intakeLock[s] \/ \E a \in Actors : Store(a) = s /\ seen[a] # None

\* How an edit of the intake ends once it has the lock.  It is written; or the
\* lock fails, whose error no except clause of a caller names; or the file
\* cannot be read or written, and the caller goes on with that error.
EndEdit(a, change, next, j, error) ==
    \/ change /\ GoTo(a, next, j) /\ UNCHANGED <<intakeLock, faults>>
    \/ /\ Fail /\ (change \/ UNCHANGED pairs)
       /\ \E left \in BOOLEAN : intakeLock' = [intakeLock EXCEPT ![Store(a)] = left]
       /\ GoTo(a, "idle", job[a])
    \/ Fail /\ GoTo(a, error, job[a]) /\ UNCHANGED <<pairs, intakeLock>>

EditIntake(a, change, next, j, error) ==
    /\ \/ ~Held(Store(a)) /\ EndEdit(a, change, next, j, error)
       \/ Held(Store(a)) /\ GoTo(a, "idle", job[a]) /\ UNCHANGED <<pairs, intakeLock, faults>>
    /\ UNCHANGED seen

EditAudit(a, change, next, j, error) ==
    \/ auditLock /\ GoTo(a, "idle", job[a]) /\ UNCHANGED <<diary, faults>>
    \/ /\ ~auditLock
       /\ \/ change /\ GoTo(a, next, j) /\ UNCHANGED <<auditLock, faults>>
          \/ /\ Fail /\ (change \/ UNCHANGED audit)
             /\ auditLock' \in BOOLEAN /\ GoTo(a, "idle", job[a])
          \/ Fail /\ GoTo(a, error, job[a]) /\ UNCHANGED diary

\* An error that is not a lock's ends a window's call; the phone marks its draft.
Failing(a) == IF a = Phone THEN "marking" ELSE "idle"

\* A pair that is in the intake a works with.
Has(a, p) ==
    pairs[p] # None /\ pairs[p].state # "released" /\ pairs[p].store = Store(a)

Ready(a, p) == Has(a, p) /\ pairs[p].state = "READY"

-----------------------------------------------------------------------------
(* The pairs: what the collector does in the intake dialog.                *)

Claimed(a) == UNION {{pairs[p].roles.front, pairs[p].roles.back} : p \in {q \in Pairs : Has(a, q)}}

\* confirm_pair: two photos that no confirmed pair claims, under a fresh ID.
NewPair(a, p, r) ==
    /\ pairs[p] = None
    /\ r.front # r.back /\ {r.front, r.back} \subseteq Album(a) \ Claimed(a)
    /\ pairs' = [pairs EXCEPT ![p] =
            [store |-> Store(a), roles |-> r, coin |-> None, blank |-> FALSE, state |-> "READY"]]

\* The dialog stays usable while a review runs.  It changes the intake in one
\* step; when the lock cannot be released its caller only sees an error.
Dialog(w, change) ==
    /\ pc[w] \in {"idle", "review"} /\ ~Held("desktop")
    /\ change
    /\ \/ UNCHANGED <<intakeLock, faults>>
       \/ Fail /\ intakeLock' = [intakeLock EXCEPT !["desktop"] = TRUE]
    /\ UNCHANGED <<shelf, seen, diary, pc, job>>

ConfirmPair(w, p, r) == Dialog(w, NewPair(w, p, r))

Swapped(r) == [front |-> r.back, back |-> r.front]

Swap(w, p) ==
    Dialog(w, Ready(w, p) /\ pairs' = [pairs EXCEPT ![p].roles = Swapped(@)])

ReleaseAny(w, p) ==     \* mutant: the state of the pair does not matter
    /\ job[w] # None => job[w].pair # p
    /\ Dialog(w, Has(w, p) /\ pairs' = [pairs EXCEPT ![p].state = "released"])

\* Correct Pair: not while this window reviews the pair.
ReleasePair(w, p) ==
    /\ job[w] # None => job[w].pair # p
    /\ Dialog(w, Ready(w, p) /\ pairs' = [pairs EXCEPT ![p].state = "released"])

-----------------------------------------------------------------------------
(* A window's save: review, confirmation, reservation.                     *)

Job(kind, p, r) == [kind |-> kind, pair |-> p, roles |-> r, coin |-> None, outcome |-> "none"]

\* Review Pair and Record as unidentified: the roles the collector is shown,
\* and the capture package made of them.
Review(w, p, kind) ==
    /\ pc[w] = "idle" /\ Ready(w, p)
    /\ GoTo(w, "review", Job(kind, p, pairs[p].roles))
    /\ UNCHANGED <<shelf, intake, diary, faults>>

\* The collector declines, or the review finds nothing.
Cancel(w) ==
    /\ pc[w] = "review"
    /\ GoTo(w, "idle", None)
    /\ UNCHANGED <<shelf, intake, diary, faults>>

\* A visual review is confirmed: the pair is compared with what was reviewed.
Recheck(w) ==
    /\ pc[w] = "review" /\ job[w].kind = "visual"
    /\ GoTo(w, IF Ready(w, job[w].pair) /\ pairs[job[w].pair].roles = job[w].roles
               THEN "recheck" ELSE "idle", job[w])
    /\ UNCHANGED <<shelf, intake, diary, faults>>

\* The durable intent, with a fresh item ID.
Intent(a, c, blank) ==
    pairs' = [pairs EXCEPT ![job[a].pair] =
                [@ EXCEPT !.state = "SAVING", !.coin = c, !.blank = blank]]

Confirmed == {p \in Pairs : pairs[p] # None}
Unreserved(c) == c \notin {pairs[p].coin : p \in Confirmed}

Blocked(a) == GoTo(a, Failing(a), job[a]) /\ UNCHANGED <<intake, faults>>

\* reserve, after a visual review or by the phone service.  The pair must be
\* ready still; its roles are not looked at again.
Reserve(a, c) ==
    /\ pc[a] \in {"recheck", "packed"} /\ Unreserved(c) /\ media[c] = "none"
    /\ \/ /\ Ready(a, job[a].pair)
          /\ EditIntake(a, Intent(a, c, FALSE), "reserved", [job[a] EXCEPT !.coin = c],
                        Failing(a))
       \/ ~Ready(a, job[a].pair) /\ Blocked(a)
    /\ UNCHANGED <<shelf, diary>>

\* reserve_unidentified binds exactly the roles that were confirmed.
ReserveUnidentified(w, c) ==
    /\ pc[w] = "review" /\ job[w].kind = "unidentified"
    /\ Unreserved(c) /\ media[c] = "none"
    /\ LET same == Ready(w, job[w].pair) /\ pairs[job[w].pair].roles = job[w].roles
       IN  \/ same /\ EditIntake(w, Intent(w, c, TRUE), "reserved",
                                 [job[w] EXCEPT !.coin = c], "idle")
           \/ ~same /\ Blocked(w)
    /\ UNCHANGED <<shelf, diary>>

-----------------------------------------------------------------------------
(* The phone service before it reserves.                                   *)

\* create_draft confirms the pair, then writes the draft.
Draft(p, r) ==
    /\ pc[Phone] = "idle"
    /\ EditIntake(Phone, NewPair(Phone, p, r), "drafted", Job("phone", p, r), "idle")
    /\ UNCHANGED <<shelf, diary>>

Record(p, state) == audit' = [audit EXCEPT ![p].state = state]

CreateEntry ==
    /\ pc[Phone] = "drafted"
    /\ LET p == job[Phone].pair
       IN  EditAudit(Phone, audit' = [audit EXCEPT ![p] =
                        [roles |-> pairs[p].roles, coin |-> None, state |-> "DRAFT"]],
                     "idle", None, "idle")
    /\ UNCHANGED <<shelf, intake>>

Verify(p) ==
    /\ pc[Phone] = "idle" /\ audit[p] # None /\ audit[p].state = "DRAFT"
    /\ EditAudit(Phone, Record(p, "VERIFIED"), "idle", None, "idle")
    /\ UNCHANGED <<shelf, intake>>

BeginSave(p) ==
    /\ pc[Phone] = "idle" /\ audit[p] # None /\ audit[p].state = "VERIFIED"
    /\ EditAudit(Phone, Record(p, "SAVING"), "began", Job("phone", p, audit[p].roles), "idle")
    /\ UNCHANGED <<shelf, intake>>

\* review_paths and the capture package; what cannot be read is for recovery.
Pack ==
    /\ pc[Phone] = "began"
    /\ \/ /\ Ready(Phone, job[Phone].pair)
          /\ GoTo(Phone, "packed", [job[Phone] EXCEPT !.roles = pairs[job[Phone].pair].roles])
          /\ UNCHANGED faults
       \/ GoTo(Phone, "marking", job[Phone]) /\ Fail
    /\ UNCHANGED <<shelf, intake, diary>>

-----------------------------------------------------------------------------
(* _persist_coin_with_managed_photos, for a window and for the phone.      *)

\* What each caller does with the outcome of the save.  "raised" is an error
\* of the lock, which only the unidentified save catches.
AfterVisual(outcome) ==
    CASE outcome = "saved" -> "persisted"
      [] outcome = "clean" -> "clearing"
      [] OTHER -> "idle"

AfterUnidentified(outcome) ==
    CASE outcome = "saved" -> "persisted"
      [] outcome \in {"clean", "raised"} -> "clearing"
      [] OTHER -> "idle"

AfterPhone(outcome) ==
    CASE outcome = "saved" -> "persisted"
      [] outcome = "raised" -> "idle"
      [] OTHER -> "marking"

Handled(kind, outcome) ==
    CASE kind = "visual" -> AfterVisual(outcome)
      [] kind = "unidentified" -> AfterUnidentified(outcome)
      [] OTHER -> AfterPhone(outcome)

Lock(a) ==
    /\ pc[a] = "reserved"
    /\ \/ /\ importLock = None /\ importLock' = a
          /\ GoTo(a, "locked", job[a])
          /\ UNCHANGED faults
       \/ /\ \/ importLock # None /\ UNCHANGED faults
             \/ importLock = None /\ Fail
          /\ GoTo(a, Handled(job[a].kind, "raised"), job[a])
          /\ UNCHANGED importLock
    /\ UNCHANGED <<collection, published, fresh, media, intake, diary>>

Outcome(a, o) == [job[a] EXCEPT !.outcome = o]

\* The snapshot of the package and the managed copies.
Copy(a) ==
    /\ pc[a] = "locked"
    /\ \/ /\ media' = [media EXCEPT ![job[a].coin] = "copied"]
          /\ \/ GoTo(a, "copied", job[a]) /\ UNCHANGED faults
             \/ GoTo(a, "failed", job[a]) /\ Fail
       \/ GoTo(a, "release", Outcome(a, "clean")) /\ Fail /\ UNCHANGED media
    /\ UNCHANGED <<collection, published, fresh, importLock, intake, diary>>

\* add_item under the lock held: refused when the file is not the one loaded.
Publish(a) ==
    /\ pc[a] = "copied"
    /\ \/ /\ fresh[a]
          /\ collection' = [collection EXCEPT ![job[a].coin] =
                    [roles |-> job[a].roles, edited |-> FALSE]]
          /\ published' = [published EXCEPT ![job[a].coin] = job[a].roles]
          /\ \/ /\ fresh' = [b \in Actors |-> b = a]
                /\ GoTo(a, "release", Outcome(a, "saved"))
                /\ UNCHANGED faults
             \* the file was replaced, and the call reports an error
             \/ /\ fresh' = [b \in Actors |-> FALSE]
                /\ GoTo(a, "failed", job[a])
                /\ Fail
       \/ /\ \/ ~fresh[a] /\ UNCHANGED faults
             \/ fresh[a] /\ Fail
          /\ GoTo(a, "failed", job[a])
          /\ UNCHANGED <<collection, published, fresh>>
    /\ UNCHANGED <<importLock, media, intake, diary>>

RollBackUnseen(a) ==    \* mutant: the collection is not read before the cleanup
    /\ pc[a] = "failed"
    /\ media' = [media EXCEPT ![job[a].coin] = "removed"]
    /\ GoTo(a, "release", Outcome(a, "clean"))
    /\ UNCHANGED <<collection, published, fresh, importLock, intake, diary, faults>>

\* The copies are removed only when the collection on disk lacks the coin.
RollBack(a) ==
    /\ pc[a] = "failed"
    /\ \/ /\ collection[job[a].coin] = None
          /\ media' = [media EXCEPT ![job[a].coin] = "removed"]
          /\ GoTo(a, "release", Outcome(a, "clean"))
          /\ UNCHANGED faults
       \/ /\ collection[job[a].coin] # None
          /\ GoTo(a, "release", Outcome(a, "recovery"))
          /\ UNCHANGED <<media, faults>>
       \* the collection cannot be read, or the copies cannot be removed
       \/ /\ Fail
          /\ media' = [media EXCEPT ![job[a].coin] =
                    IF collection[job[a].coin] = None THEN "left" ELSE @]
          /\ GoTo(a, "release", Outcome(a, "recovery"))
    /\ UNCHANGED <<collection, published, fresh, importLock, intake, diary>>

\* An error of the release replaces whatever the save had to say.
Unlock(a) ==
    /\ pc[a] = "release"
    /\ \/ /\ importLock' = None
          /\ GoTo(a, Handled(job[a].kind, job[a].outcome), job[a])
          /\ UNCHANGED faults
       \/ /\ Fail
          /\ importLock' \in {"stale", None}
          /\ GoTo(a, Handled(job[a].kind, "raised"), job[a])
    /\ UNCHANGED <<collection, published, fresh, media, intake, diary>>

-----------------------------------------------------------------------------
(* After the save.                                                         *)

\* _saved_record: the coin of the pair's intent, as it is on disk.
Unsaved(p) == collection[pairs[p].coin] = None
MatchesAny(p) ==        \* mutant: the photos are not compared
    LET c == collection[pairs[p].coin]
    IN  c # None /\ ~c.edited
Matches(p) ==
    LET c == collection[pairs[p].coin]
    IN  c # None /\ ~c.edited /\ c.roles = pairs[p].roles

ClearUnseen(w) ==       \* mutant: the caller's error is taken as proof
    /\ pc[w] = "clearing"
    /\ LET p == job[w].pair
       IN  EditIntake(w, pairs' = [pairs EXCEPT ![p].state = "READY", ![p].coin = None],
                      "idle", None, "idle")
    /\ UNCHANGED <<shelf, diary>>

\* clean_save_failure: the intent is dropped when the coin is not on disk.
Clear(w) ==
    /\ pc[w] = "clearing"
    /\ LET p == job[w].pair
       IN \/ /\ Has(w, p) /\ pairs[p].state = "SAVING" /\ Unsaved(p)
             /\ EditIntake(w, pairs' = [pairs EXCEPT ![p].state = "READY", ![p].coin = None],
                           "idle", None, "idle")
          \/ /\ ~(Has(w, p) /\ pairs[p].state = "SAVING" /\ Unsaved(p))
             /\ GoTo(w, "idle", None)
             /\ UNCHANGED <<intake, faults>>
    /\ UNCHANGED <<shelf, diary>>

Completable(a, p) == Has(a, p) /\ pairs[p].state \in {"SAVING", "SAVED"} /\ Matches(p)
Saved(p) == pairs' = [pairs EXCEPT ![p].state = "SAVED"]

\* PhoneIntake.complete, which never writes the collection, takes the intake's
\* lock and looks for the pair's coin on disk.
Look(a) ==
    /\ pc[a] = IF a = Phone THEN "recorded" ELSE "persisted"
    /\ LET p == job[a].pair
       IN \/ /\ ~Held(Store(a)) /\ Completable(a, p)
             /\ seen' = [seen EXCEPT ![a] = p]
             /\ UNCHANGED <<pairs, intakeLock, pc, job, faults>>
          \/ ~Held(Store(a)) /\ ~Completable(a, p) /\ Blocked(a)
          \/ EditIntake(a, FALSE, "idle", None, Failing(a))
    /\ UNCHANGED <<shelf, diary>>

Forget(a) == seen' = [seen EXCEPT ![a] = None]

\* It writes SAVED, whatever has become of the coin since.
Complete(a) ==
    /\ seen[a] # None /\ pc[a] = IF a = Phone THEN "recorded" ELSE "persisted"
    /\ EndEdit(a, Saved(seen[a]), IF a = Phone THEN "completed" ELSE "idle", job[a], Failing(a))
    /\ Forget(a)
    /\ UNCHANGED <<shelf, diary>>

\* Reconcile Save, in the dialog of any window, is complete too.
Seek(w, p) ==
    /\ pc[w] \in {"idle", "review"} /\ ~Held("desktop") /\ Completable(w, p)
    /\ seen' = [seen EXCEPT ![w] = p]
    /\ UNCHANGED <<shelf, pairs, intakeLock, diary, pc, job, faults>>

Reconcile(w) ==
    /\ seen[w] # None /\ pc[w] \in {"idle", "review"}
    /\ Forget(w)
    /\ \/ Saved(seen[w]) /\ UNCHANGED <<intakeLock, faults>>
       \/ /\ Fail /\ (Saved(seen[w]) \/ UNCHANGED pairs)
          /\ \E left \in BOOLEAN : intakeLock' = [intakeLock EXCEPT !["desktop"] = left]
    /\ UNCHANGED <<shelf, diary, pc, job>>

RecordPersisted ==
    /\ pc[Phone] = "persisted"
    /\ EditAudit(Phone, audit' = [audit EXCEPT ![job[Phone].pair].coin = job[Phone].coin],
                 "recorded", job[Phone], "marking")
    /\ UNCHANGED <<shelf, intake>>

ReconcileUnproved(p) == \* mutant: the audit is finished without complete
    /\ pc[Phone] = "idle" /\ audit[p] # None
    /\ audit[p].state \in {"SAVING", "RECOVERY_REQUIRED"}
    /\ GoTo(Phone, "completed", Job("reconcile", p, audit[p].roles))
    /\ UNCHANGED <<shelf, intake, diary, faults>>

\* reconcile goes through complete again.
ReconcileEntry(p) ==
    /\ pc[Phone] = "idle" /\ audit[p] # None
    /\ audit[p].state \in {"SAVING", "RECOVERY_REQUIRED"}
    /\ GoTo(Phone, "recorded", Job("reconcile", p, audit[p].roles))
    /\ UNCHANGED <<shelf, intake, diary, faults>>

\* A record in recovery is reopened once the collection has proved the save.
Reopen ==
    /\ pc[Phone] = "completed" /\ audit[job[Phone].pair].state = "RECOVERY_REQUIRED"
    /\ EditAudit(Phone, Record(job[Phone].pair, "SAVING"), "completed", job[Phone], "marking")
    /\ UNCHANGED <<shelf, intake>>

Finalize ==
    /\ pc[Phone] = "completed" /\ audit[job[Phone].pair].state = "SAVING"
    /\ LET p == job[Phone].pair
       IN \/ /\ audit[p].coin \in {None, pairs[p].coin}
             /\ EditAudit(Phone, audit' = [audit EXCEPT ![p] =
                                [@ EXCEPT !.state = "SAVED", !.coin = pairs[p].coin]],
                          "idle", None, "marking")
          \/ /\ audit[p].coin \notin {None, pairs[p].coin}
             /\ GoTo(Phone, IF auditLock THEN "idle" ELSE "marking", job[Phone])
             /\ UNCHANGED <<diary, faults>>
    /\ UNCHANGED <<shelf, intake>>

\* mark_recovery_required changes a SAVING record only.
Mark ==
    /\ pc[Phone] = "marking"
    /\ LET p == job[Phone].pair
       IN  EditAudit(Phone, IF audit[p].state = "SAVING" THEN Record(p, "RECOVERY_REQUIRED")
                           ELSE UNCHANGED audit, "idle", None, "idle")
    /\ UNCHANGED <<shelf, intake>>

-----------------------------------------------------------------------------
(* The environment.                                                        *)

\* A process ends, anywhere.  It may be in an edit of one of its files, and it
\* is in one when it has looked for a coin.
Crash(a) ==
    /\ Fail
    /\ GoTo(a, "idle", None)
    /\ fresh' = [fresh EXCEPT ![a] = FALSE]
    /\ Forget(a)
    /\ IF pc[a] \in Saving \ {"reserved"}
       THEN importLock' = "stale" /\ UNCHANGED <<intakeLock, auditLock>>
       ELSE /\ UNCHANGED importLock
            /\ \/ seen[a] = None /\ UNCHANGED <<intakeLock, auditLock>>
               \/ /\ seen[a] # None \/ ~Held(Store(a))
                  /\ intakeLock' = [intakeLock EXCEPT ![Store(a)] = TRUE]
                  /\ UNCHANGED auditLock
               \/ a = Phone /\ seen[a] = None /\ auditLock' = TRUE /\ UNCHANGED intakeLock
    /\ UNCHANGED <<collection, published, media, pairs, audit>>

\* A process starts, or a window reloads.
Load(a) ==
    /\ pc[a] = "idle" /\ ~fresh[a]
    /\ fresh' = [fresh EXCEPT ![a] = TRUE]
    /\ UNCHANGED <<collection, published, importLock, media, intake, diary, pc, job, faults>>

\* A coin is edited or deleted in a window (CollectionWriters).
EditCoin(w, c) ==
    /\ pc[w] = "idle" /\ fresh[w] /\ importLock = None /\ collection[c] # None
    /\ \/ collection' = [collection EXCEPT ![c].edited = TRUE]
       \/ collection' = [collection EXCEPT ![c] = None]
    /\ fresh' = [b \in Actors |-> b = w]
    /\ UNCHANGED <<published, importLock, media, intake, diary, pc, job, faults>>

\* The collector removes the lock files that were left behind.
ClearLocks ==
    /\ importLock = "stale" \/ auditLock \/ \E s \in Stores : intakeLock[s]
    /\ importLock' = IF importLock = "stale" THEN None ELSE importLock
    /\ auditLock' = FALSE /\ intakeLock' = [s \in Stores |-> FALSE]
    /\ UNCHANGED <<collection, published, fresh, media, pairs, seen, audit, pc, job, faults>>

-----------------------------------------------------------------------------

Pairing(w) ==
    \E p \in Pairs :
        \/ \E r \in Roles : ConfirmPair(w, p, r)
        \/ Swap(w, p) \/ ReleasePair(w, p) \/ Seek(w, p)
        \/ \E k \in {"visual", "unidentified"} : Review(w, p, k)

Window(w) ==
    \/ Pairing(w) \/ Cancel(w) \/ Recheck(w) \/ Clear(w)
    \/ \E c \in Coins : ReserveUnidentified(w, c) \/ EditCoin(w, c)

Service ==
    \/ \E p \in Pairs :
            \/ \E r \in Roles : Draft(p, r)
            \/ Verify(p) \/ BeginSave(p) \/ ReconcileEntry(p)
    \/ CreateEntry \/ Pack \/ RecordPersisted \/ Reopen \/ Finalize \/ Mark

Save(a) ==
    \/ \E c \in Coins : Reserve(a, c)
    \/ Lock(a) \/ Copy(a) \/ Publish(a) \/ RollBack(a) \/ Unlock(a)
    \/ Look(a) \/ Load(a)

\* An actor that has looked for a coin writes next, or ends.
Next ==
    \/ \E w \in Windows : (seen[w] = None /\ Window(w)) \/ Reconcile(w)
    \/ seen[Phone] = None /\ Service
    \/ \E a \in Actors : (seen[a] = None /\ Save(a)) \/ Complete(a) \/ Crash(a)
    \/ ClearLocks

Spec == Init /\ [][Next]_vars

-----------------------------------------------------------------------------
(* Properties.                                                             *)

\* The photos of a confirmed pair are in one coin of the collection at most,
\* whoever saves the pair, however often, and whatever fails ("SAVING prevents
\* resaving", PHONE_INTAKE.md).
OneCoinPerPhoto ==
    \A c, d \in Coins :
        /\ collection[c] # None /\ collection[d] # None /\ c # d
        => {collection[c].roles.front, collection[c].roles.back}
              \cap {collection[d].roles.front, collection[d].roles.back} = {}

\* A pair that may still be saved, or re-paired, has no coin, and none is on its
\* way: an intent is dropped only when its save cannot happen any more
\* (clean_save_failure after a proven rollback).
IntentStands ==
    \A a \in Actors : pc[a] \in Saving =>
        LET p == pairs[job[a].pair]
        IN  p.state \in {"SAVING", "SAVED"} /\ p.coin = job[a].coin

\* The managed photos of a coin in the collection stay, whatever the save that
\* recorded it reported (_reserved_item_publication_state).
CoinsHavePhotos == \A c \in Coins : collection[c] # None => media[c] = "copied"

\* A draft the audit calls SAVED is a pair the intake calls SAVED, with the same
\* coin and the roles the phone sent; a draft that may still be saved has never
\* been reserved (PhoneEntryService.save and reconcile).
AuditAgrees ==
    \A p \in Pairs : audit[p] # None =>
        /\ audit[p].state = "SAVED" =>
                pairs[p].state = "SAVED" /\ audit[p].coin = pairs[p].coin
        /\ audit[p].state \in {"DRAFT", "VERIFIED"} => pairs[p].state = "READY"
        /\ audit[p].roles = pairs[p].roles

\* A pair becomes SAVED only when its coin has been saved, with the roles the
\* pair has at that moment: neither a swap nor another call's save came between
\* the look at the collection and the write of SAVED, though the coin itself may
\* have been edited or deleted in between.  It never stops being SAVED (complete).
SavedOnEvidence ==
    [][\A p \in Pairs : pairs[p] # None =>
            /\ pairs[p].state = "SAVED" => pairs'[p].state = "SAVED"
            /\ pairs[p].state # "SAVED" /\ pairs'[p].state = "SAVED" =>
                    pairs[p].coin # None /\ published[pairs[p].coin] = pairs'[p].roles]_vars

\* A coin and the pair whose intent it was saved for.
RolesKept(p) ==
    \/ pairs[p] = None \/ pairs[p].coin = None
    \/ collection[pairs[p].coin] = None
    \/ collection[pairs[p].coin].roles = pairs[p].roles

\* "changing roles during review invalidates that save" (PHONE_INTAKE.md:16);
\* a swap between the two edits of the intake does not.
RoleChangeInvalidatesSave == \A p \in Pairs : RolesKept(p)
=============================================================================
