------------------------ MODULE PhoneEntry_proofs -------------------------
(***************************************************************************)
(* What holds of the phone entry holds for any number of windows, photos,  *)
(* pairs, coins and faults.  A coin is made of its pair's photos because   *)
(* its job carries the intent, an intent is one job's because its pair was *)
(* ready, and two pairs share no photo because a released one has no coin. *)
(***************************************************************************)
EXTENDS PhoneEntry, TLAPS

PhotosOf(r) == {r.front, r.back}
AlbumOf(s) == IF s = "phone" THEN PhonePhotos ELSE DesktopPhotos
InAlbum(r, s) == PhotosOf(r) \subseteq AlbumOf(s)
Disjoint(r, s) == PhotosOf(r) \cap PhotosOf(s) = {}

\* The types, variable by variable.
CoinsTyped == collection \in [Coins -> Items \cup {None}]
PairsTyped == pairs \in [Pairs -> Entries \cup {None}]
AuditTyped == audit \in [Pairs -> Drafts \cup {None}]
JobsTyped == pc \in [Actors -> Steps] /\ job \in [Actors -> Jobs \cup {None}]
FreshTyped == fresh \in [Actors -> BOOLEAN]
ShelfTyped ==
    /\ importLock \in Actors \cup {"stale", None}
    /\ media \in [Coins -> {"none", "copied", "removed", "left"}]
LocksTyped == intakeLock \in [Stores -> BOOLEAN] /\ auditLock \in BOOLEAN
FaultsTyped == faults \in 0..MaxFaults

\* The two variables that only the evidence of a save is about.
EvidenceTyped ==
    /\ published \in [Coins -> Roles \cup {None}]
    /\ seen \in [Actors -> Pairs \cup {None}]

\* From the reservation to the end of the save, or of its undoing.
Busy == Saving \cup {"clearing"}
Reviewed == Saving \cup {"review", "recheck", "packed"}
Untried == {"READY", "released"}
Unsent == {"reserved", "locked", "copied"}

\* The steps of a draft whose audit says that it is being saved, and those at
\* which it may have been marked for recovery.
Drafting == Saving \cup {"began", "packed", "persisted"}
Ending == {"recorded", "completed", "marking"}

\* What a job of actor a is about.
JobOf(a) ==
    /\ pc[a] = "idle" <=> job[a] = None
    /\ job[a] # None =>
        /\ pairs[job[a].pair] # None
        /\ pairs[job[a].pair].store = Store(a)
        /\ pc[a] \in Reviewed =>
               PhotosOf(job[a].roles) = PhotosOf(pairs[job[a].pair].roles)
    /\ pc[a] \in {"review", "recheck", "clearing"} => a # Phone
    /\ pc[a] \in Ending \cup {"began", "packed", "drafted"} => a = Phone
    /\ job[a] # None => (a = Phone <=> job[a].kind \in {"phone", "reconcile"})
    /\ job[a] # None /\ job[a].kind = "reconcile" => pc[a] \in Ending
JobInv == \A a \in Actors : JobOf(a)

\* An intent and the job that saves it.
Intended(a) ==
    /\ pairs[job[a].pair].state \in {"SAVING", "SAVED"}
    /\ job[a].coin \in Coins /\ pairs[job[a].pair].coin = job[a].coin
    /\ pc[a] = "copied" => media[job[a].coin] = "copied"
Intents == \A a \in Actors : pc[a] \in Busy => Intended(a)
OneJob == \A a, b \in Actors :
    a # b /\ pc[a] \in Busy /\ pc[b] \in Busy => job[a].pair # job[b].pair

\* The pairs among themselves.
PairOf(p) ==
    /\ InAlbum(pairs[p].roles, pairs[p].store)
    /\ pairs[p].state \in Untried <=> pairs[p].coin = None
Apart(p, q) ==
    /\ pairs[p].coin # None => pairs[p].coin # pairs[q].coin
    /\ /\ pairs[p].store = pairs[q].store
       /\ pairs[p].state # "released" /\ pairs[q].state # "released"
       => Disjoint(pairs[p].roles, pairs[q].roles)
PairInv ==
    /\ \A p \in Pairs : pairs[p] # None => PairOf(p)
    /\ \A p, q \in Pairs : pairs[p] # None /\ pairs[q] # None /\ p # q => Apart(p, q)

\* A coin of the collection, the intent it was saved for, its managed photos.
CoinOf(c, p) ==
    /\ pairs[p] # None /\ pairs[p].coin = c
    /\ PhotosOf(pairs[p].roles) = PhotosOf(collection[c].roles)
CoinInv == \A c \in Coins : collection[c] # None =>
    media[c] = "copied" /\ \E p \in Pairs : CoinOf(c, p)

\* The audit of a draft, and how far the service has got with it.
AuditOf(p) ==
    /\ pairs[p] # None /\ pairs[p].store = "phone"
    /\ audit[p].state = "SAVED" => pairs[p].state = "SAVED" /\ audit[p].coin = pairs[p].coin
    /\ audit[p].state \in {"DRAFT", "VERIFIED"} => pairs[p].state = "READY"
    /\ audit[p].roles = pairs[p].roles
Audited ==
    LET p == job[Phone].pair
    IN  /\ pc[Phone] = "drafted" => pairs[p].state = "READY"
        /\ pc[Phone] \in Drafting => audit[p] # None /\ audit[p].state = "SAVING"
        /\ pc[Phone] \in Ending =>
               audit[p] # None /\ audit[p].state \in {"SAVING", "RECOVERY_REQUIRED"}
        /\ pc[Phone] = "completed" => pairs[p].state = "SAVED"
AuditInv == Audited /\ \A p \in Pairs : audit[p] # None => AuditOf(p)

Typed == CoinsTyped /\ PairsTyped /\ AuditTyped /\ JobsTyped
         /\ FreshTyped /\ ShelfTyped /\ LocksTyped /\ FaultsTyped
IInv == Typed /\ JobInv /\ Intents /\ OneJob /\ PairInv /\ CoinInv /\ AuditInv

\* What an actor has found on disk, which nobody changes before it writes: its
\* pair, with an intent whose coin was saved with the roles of the pair.
SeenBy(a) ==
    LET p == seen[a]
    IN  /\ Has(a, p) /\ pairs[p].state \in {"SAVING", "SAVED"}
        /\ pairs[p].coin # None /\ published[pairs[p].coin] = pairs[p].roles
        /\ pc[a] \in {"idle", "review", "recorded", "persisted"}
        /\ pc[a] \in {"recorded", "persisted"} => p = job[a].pair
SeenInv == \A a \in Actors : seen[a] # None => SeenBy(a)

\* A coin is saved once, by the one call whose intent it is.
PublishedInv ==
    /\ \A c \in Coins : collection[c] # None => published[c] = collection[c].roles
    /\ \A c \in Coins : published[c] # None => media[c] # "none"
    /\ \A a \in Actors : pc[a] \in Unsent => published[job[a].coin] = None
EInv == EvidenceTyped /\ SeenInv /\ PublishedInv

\* Typed, with the types of the evidence, is TypeOK.
LEMMA Types == Typed /\ EvidenceTyped <=> TypeOK
BY DEF Typed, EvidenceTyped, CoinsTyped, PairsTyped, AuditTyped, JobsTyped, FreshTyped,
       ShelfTyped, LocksTyped, FaultsTyped, TypeOK

\* A swapped pair has the same photos.
LEMMA SwapPhotos ==
    /\ \A r \in Roles : Swapped(r) \in Roles /\ PhotosOf(Swapped(r)) = PhotosOf(r)
    /\ \A r \in Roles : \A s \in Stores : InAlbum(Swapped(r), s) <=> InAlbum(r, s)
    /\ \A r, s \in Roles : Disjoint(Swapped(r), s) <=> Disjoint(r, s)
    /\ \A r, s \in Roles : Disjoint(r, s) <=> Disjoint(s, r)
BY DEF Swapped, PhotosOf, Roles, InAlbum, Disjoint

\* A new pair has its photos for itself.
LEMMA NewPairApart ==
    ASSUME NEW a \in Actors, NEW p \in Pairs, NEW r \in Roles, NewPair(a, p, r)
    PROVE  /\ InAlbum(r, Store(a))
           /\ \A q \in Pairs : Has(a, q) => Disjoint(r, pairs[q].roles)
<1>1. PhotosOf(r) \subseteq Album(a) \ Claimed(a)
    BY DEF NewPair, PhotosOf
<1>2. Album(a) = AlbumOf(Store(a))
    BY PhoneAssumption DEF Album, AlbumOf, Store
<1>3. ASSUME NEW q \in Pairs, Has(a, q)
      PROVE  PhotosOf(pairs[q].roles) \subseteq Claimed(a)
    BY <1>3 DEF Claimed, PhotosOf
<1>. QED
    BY <1>1, <1>2, <1>3 DEF InAlbum, Disjoint

LEMMA StoreTyped == "desktop" \in Stores /\ \A a \in Actors : Store(a) \in Stores
BY DEF Store, Stores

\* What becomes of a pair, field by field.
LEMMA IntentEffect ==
    ASSUME PairsTyped, JobsTyped, NEW a \in Actors, NEW c \in Coins, NEW blank \in BOOLEAN,
           job[a] # None, pairs[job[a].pair] # None, Intent(a, c, blank)
    PROVE  LET p == job[a].pair
           IN  /\ PairsTyped'
               /\ \A q \in Pairs : q # p => pairs'[q] = pairs[q]
               /\ pairs'[p] # None /\ pairs'[p].state = "SAVING" /\ pairs'[p].coin = c
               /\ pairs'[p].store = pairs[p].store /\ pairs'[p].roles = pairs[p].roles
<1>1. job[a].pair \in Pairs /\ pairs[job[a].pair] \in Entries
    BY DEF PairsTyped, JobsTyped, Jobs
<1>2. \A e \in Entries :
          LET f == [e EXCEPT !.state = "SAVING", !.coin = c, !.blank = blank]
          IN  /\ f \in Entries /\ f.state = "SAVING" /\ f.coin = c
              /\ f.store = e.store /\ f.roles = e.roles
    BY DEF Entries
<1>. QED
    BY <1>1, <1>2, PhoneAssumption DEF Intent, PairsTyped

LEMMA SavedEffect ==
    ASSUME PairsTyped, NEW p \in Pairs, pairs[p] # None, Saved(p)
    PROVE  /\ PairsTyped'
           /\ \A q \in Pairs : q # p => pairs'[q] = pairs[q]
           /\ pairs'[p] # None /\ pairs'[p].state = "SAVED" /\ pairs'[p].coin = pairs[p].coin
           /\ pairs'[p].store = pairs[p].store /\ pairs'[p].roles = pairs[p].roles
<1>1. \A e \in Entries : LET f == [e EXCEPT !.state = "SAVED"]
          IN  /\ f \in Entries /\ f.state = "SAVED" /\ f.coin = e.coin
              /\ f.store = e.store /\ f.roles = e.roles
    BY DEF Entries
<1>. QED
    BY <1>1, PhoneAssumption DEF Saved, PairsTyped

LEMMA NewPairEffect ==
    ASSUME PairsTyped, NEW a \in Actors, NEW p \in Pairs, NEW r \in Roles, NewPair(a, p, r)
    PROVE  /\ PairsTyped' /\ pairs[p] = None
           /\ \A q \in Pairs : q # p => pairs'[q] = pairs[q]
           /\ pairs'[p] # None /\ pairs'[p].state = "READY" /\ pairs'[p].coin = None
           /\ pairs'[p].store = Store(a) /\ pairs'[p].roles = r
<1>1. Store(a) \in Stores
    BY DEF Store, Stores
<1>2. [store |-> Store(a), roles |-> r, coin |-> None, blank |-> FALSE, state |-> "READY"]
          \in Entries
    BY <1>1 DEF Entries
<1>. QED
    BY <1>2, PhoneAssumption DEF NewPair, PairsTyped

\* What becomes of a draft.
LEMMA DraftEffect ==
    ASSUME NEW d \in Drafts, NEW c \in Coins \cup {None},
           NEW s \in {"DRAFT", "VERIFIED", "SAVING", "SAVED", "RECOVERY_REQUIRED"}
    PROVE  /\ LET e == [d EXCEPT !.state = s]
              IN  e \in Drafts /\ e.state = s /\ e.coin = d.coin /\ e.roles = d.roles
           /\ LET e == [d EXCEPT !.coin = c]
              IN  e \in Drafts /\ e.state = d.state /\ e.coin = c /\ e.roles = d.roles
           /\ LET e == [d EXCEPT !.state = s, !.coin = c]
              IN  e \in Drafts /\ e.state = s /\ e.coin = c /\ e.roles = d.roles
BY DEF Drafts

LEMMA RecordEffect ==
    ASSUME AuditTyped, NEW p \in Pairs, audit[p] # None,
           NEW s \in {"DRAFT", "VERIFIED", "SAVING", "SAVED", "RECOVERY_REQUIRED"},
           Record(p, s)
    PROVE  /\ AuditTyped'
           /\ \A q \in Pairs : q # p => audit'[q] = audit[q]
           /\ audit'[p] # None /\ audit'[p].state = s
           /\ audit'[p].coin = audit[p].coin /\ audit'[p].roles = audit[p].roles
<1>1. audit[p] \in Drafts
    BY DEF AuditTyped
<1>. QED
    BY <1>1, PhoneAssumption DEF Record, AuditTyped, Drafts

\* What no step of an action touches keeps what was said of it.
LEMMA Frames ==
    /\ IInv
    => /\ UNCHANGED collection => CoinsTyped'
       /\ UNCHANGED pairs => PairsTyped' /\ PairInv'
       /\ UNCHANGED audit => AuditTyped'
       /\ UNCHANGED <<pc, job>> => JobsTyped' /\ OneJob'
       /\ UNCHANGED fresh => FreshTyped'
       /\ UNCHANGED <<importLock, media>> => ShelfTyped'
       /\ UNCHANGED <<intakeLock, auditLock>> => LocksTyped'
       /\ UNCHANGED faults => FaultsTyped'
       /\ UNCHANGED <<pairs, pc, job>> => JobInv'
       /\ UNCHANGED <<pairs, media, pc, job>> => Intents'
       /\ UNCHANGED <<collection, media, pairs>> => CoinInv'
       /\ UNCHANGED <<audit, pairs, pc, job>> => AuditInv'
<1>. SUFFICES ASSUME IInv
     PROVE  /\ UNCHANGED collection => CoinsTyped'
            /\ UNCHANGED pairs => PairsTyped' /\ PairInv'
            /\ UNCHANGED audit => AuditTyped'
            /\ UNCHANGED <<pc, job>> => JobsTyped' /\ OneJob'
            /\ UNCHANGED fresh => FreshTyped'
            /\ UNCHANGED <<importLock, media>> => ShelfTyped'
            /\ UNCHANGED <<intakeLock, auditLock>> => LocksTyped'
            /\ UNCHANGED faults => FaultsTyped'
            /\ UNCHANGED <<pairs, pc, job>> => JobInv'
            /\ UNCHANGED <<pairs, media, pc, job>> => Intents'
            /\ UNCHANGED <<collection, media, pairs>> => CoinInv'
            /\ UNCHANGED <<audit, pairs, pc, job>> => AuditInv'
    OBVIOUS
<1>1. UNCHANGED collection => CoinsTyped'
    BY DEF IInv, Typed, CoinsTyped
<1>2. UNCHANGED pairs => PairsTyped' /\ PairInv'
    BY DEF IInv, Typed, PairsTyped, PairInv, PairOf, Apart
<1>3. UNCHANGED audit => AuditTyped'
    BY DEF IInv, Typed, AuditTyped
<1>4. UNCHANGED <<pc, job>> => JobsTyped' /\ OneJob'
    BY DEF IInv, Typed, JobsTyped, OneJob
<1>5. UNCHANGED fresh => FreshTyped'
    BY DEF IInv, Typed, FreshTyped
<1>6. UNCHANGED <<importLock, media>> => ShelfTyped'
    BY DEF IInv, Typed, ShelfTyped
<1>7. UNCHANGED <<intakeLock, auditLock>> => LocksTyped'
    BY DEF IInv, Typed, LocksTyped
<1>8. UNCHANGED faults => FaultsTyped'
    BY DEF IInv, Typed, FaultsTyped
<1>9. UNCHANGED <<pairs, pc, job>> => JobInv'
    BY DEF IInv, JobInv, JobOf
<1>10. UNCHANGED <<pairs, media, pc, job>> => Intents'
    BY DEF IInv, Intents, Intended
<1>11. UNCHANGED <<collection, media, pairs>> => CoinInv'
    BY DEF IInv, CoinInv, CoinOf
<1>12. UNCHANGED <<audit, pairs, pc, job>> => AuditInv'
    BY DEF IInv, AuditInv, Audited, AuditOf
<1>. QED
    BY <1>1, <1>2, <1>3, <1>4, <1>5, <1>6, <1>7, <1>8, <1>9, <1>10, <1>11, <1>12

\* The effects of the edits on a coin's record.
LEMMA ItemEffect ==
    /\ \A i \in Items : [i EXCEPT !.edited = TRUE] \in Items
                        /\ [i EXCEPT !.edited = TRUE].roles = i.roles
    /\ \A r \in Roles : [roles |-> r, edited |-> FALSE] \in Items
BY DEF Items

\* A move of one actor: where it stands, with which job.
LEMMA GoToEffect ==
    ASSUME JobsTyped, NEW a \in Actors, NEW step \in Steps, NEW j \in Jobs \cup {None},
           GoTo(a, step, j)
    PROVE  /\ JobsTyped'
           /\ pc'[a] = step /\ job'[a] = IF step = "idle" THEN None ELSE j
           /\ \A b \in Actors : b # a => pc'[b] = pc[b] /\ job'[b] = job[b]
BY DEF GoTo, JobsTyped

\* reserve, once the pair was seen to be ready: the intent is this job's alone.
LEMMA Reserving ==
    ASSUME IInv, NEW a \in Actors, NEW c \in Coins, NEW blank \in BOOLEAN,
           pc[a] \in {"review", "recheck", "packed"}, Unreserved(c),
           Ready(a, job[a].pair), Intent(a, c, blank), UNCHANGED <<shelf, audit>>,
           \/ GoTo(a, "reserved", [job[a] EXCEPT !.coin = c]) \/ GoTo(a, "idle", job[a])
    PROVE  /\ PairsTyped' /\ JobsTyped' /\ JobInv' /\ Intents' /\ OneJob'
           /\ PairInv' /\ CoinInv' /\ AuditInv'
<1>. DEFINE p == job[a].pair
            j == [job[a] EXCEPT !.coin = c]
<1>1. job[a] \in Jobs /\ job[a] # None /\ p \in Pairs
    BY PhoneAssumption DEF IInv, Typed, JobsTyped, Jobs, JobInv, JobOf
<1>2. pairs[p] # None /\ pairs[p].state = "READY" /\ pairs[p].store = Store(a)
    BY DEF Ready, Has
<1>3. /\ PairsTyped'
      /\ \A q \in Pairs : q # p => pairs'[q] = pairs[q]
      /\ pairs'[p] # None /\ pairs'[p].state = "SAVING" /\ pairs'[p].coin = c
      /\ pairs'[p].store = pairs[p].store /\ pairs'[p].roles = pairs[p].roles
    BY <1>1, <1>2, IntentEffect DEF IInv, Typed
<1>4. /\ j \in Jobs /\ j # None /\ j.pair = p /\ j.coin = c
      /\ j.roles = job[a].roles /\ j.kind = job[a].kind
    BY <1>1, PhoneAssumption DEF Jobs
<1>5. /\ JobsTyped'
      /\ \/ pc'[a] = "reserved" /\ job'[a] = j
         \/ pc'[a] = "idle" /\ job'[a] = None
      /\ \A b \in Actors : b # a => pc'[b] = pc[b] /\ job'[b] = job[b]
  <2>1. CASE GoTo(a, "reserved", j)
      BY <1>4, <2>1, GoToEffect DEF IInv, Typed, Steps, Saving
  <2>2. CASE GoTo(a, "idle", job[a])
      BY <1>1, <2>2, GoToEffect DEF IInv, Typed, Steps
  <2>. QED
      BY <2>1, <2>2
<1>6. /\ \A b \in Actors : pc[b] \in Busy => job[b].pair # p
      /\ \A q \in Pairs : pairs[q] # None => pairs[q].coin # c
      /\ pairs[p].coin = None
    BY <1>1, <1>2 DEF IInv, Intents, Intended, PairInv, PairOf, Untried, Unreserved, Confirmed
<1>7. JobInv'
    BY <1>1, <1>2, <1>3, <1>4, <1>5 DEF IInv, Typed, JobsTyped, Jobs, JobInv, JobOf, Reviewed,
       Saving, Ending
<1>8. OneJob'
  <2>1. \A b \in Actors : b # a /\ pc'[b] \in Busy => job'[b].pair # p
      BY <1>5, <1>6
  <2>2. pc'[a] \in Busy => job'[a].pair = p
      BY <1>4, <1>5 DEF Busy, Saving
  <2>3. \A b, d \in Actors : b # d /\ b # a /\ d # a /\ pc'[b] \in Busy /\ pc'[d] \in Busy
            => job'[b].pair # job'[d].pair
      BY <1>5 DEF IInv, OneJob
  <2>. QED
      BY <2>1, <2>2, <2>3 DEF OneJob
<1>9. Intents'
    BY <1>1, <1>2, <1>3, <1>4, <1>5, <1>6 DEF IInv, Typed, JobsTyped, Jobs, Intents, Intended, Busy,
       Saving, JobInv, JobOf, shelf
<1>10. PairInv'
  <2>1. \A q \in Pairs : pairs'[q] # None => PairOf(q)'
      BY <1>1, <1>2, <1>3, PhoneAssumption DEF IInv, PairInv, PairOf, Untried
  <2>2. \A q, s \in Pairs : pairs'[q] # None /\ pairs'[s] # None /\ q # s => Apart(q, s)'
      BY <1>1, <1>2, <1>3, <1>6 DEF IInv, PairInv, Apart
  <2>. QED
      BY <2>1, <2>2 DEF PairInv
<1>11. CoinInv'
    BY <1>1, <1>2, <1>3, <1>6, PhoneAssumption DEF IInv, CoinInv, CoinOf, shelf
<1>12. AuditInv'
  <2>1. \A q \in Pairs : audit'[q] # None => AuditOf(q)'
    <3>1. audit[p] # None => audit[p].state \notin {"DRAFT", "VERIFIED", "SAVED"}
        BY <1>1, <1>2, PhoneAssumption DEF IInv, AuditInv, Audited, AuditOf, Drafting, JobInv,
           JobOf,
           Store
    <3>. QED
        BY <1>1, <1>2, <1>3, <3>1 DEF IInv, AuditInv, AuditOf
  <2>2. Audited'
    <3>1. CASE a = Phone
      <4>1. pc[Phone] = "packed"
          BY <1>1, <3>1 DEF IInv, JobInv, JobOf
      <4>2. audit[p] # None /\ audit[p].state = "SAVING"
          BY <3>1, <4>1 DEF IInv, AuditInv, Audited, Drafting
      <4>. QED
          BY <1>4, <1>5, <3>1, <4>2 DEF Audited, Drafting, Saving, Ending
    <3>2. CASE a # Phone
      <4>1. pc'[Phone] = pc[Phone] /\ job'[Phone] = job[Phone]
          BY <1>5, <3>2 DEF Actors
      <4>2. pc[Phone] # "idle" => job[Phone].pair # p /\ job[Phone].pair \in Pairs
          BY <1>2, <3>2, PhoneAssumption DEF IInv, Typed, JobsTyped, Jobs, JobInv, JobOf, Store,
             Actors
      <4>. QED
          BY <1>3, <4>1, <4>2 DEF IInv, AuditInv, Audited, Drafting, Saving, Ending
    <3>. QED
        BY <3>1, <3>2
  <2>. QED
      BY <2>1, <2>2 DEF AuditInv
<1>. QED
    BY <1>3, <1>5, <1>7, <1>8, <1>9, <1>10, <1>11, <1>12

\* A call that ends or is only to be marked, with nothing changed.
LEMMA Leaving ==
    ASSUME IInv, NEW a \in Actors, job[a] # None, UNCHANGED <<shelf, pairs, audit>>,
           \/ GoTo(a, "idle", job[a])
           \/ /\ a = Phone /\ pc[a] \in Drafting \cup Ending
              /\ GoTo(a, "marking", job[a])
    PROVE  /\ PairsTyped' /\ JobsTyped' /\ JobInv' /\ Intents' /\ OneJob'
           /\ PairInv' /\ CoinInv' /\ AuditInv'
<1>1. job[a] \in Jobs
    BY DEF IInv, Typed, JobsTyped
<1>2. /\ JobsTyped'
      /\ \/ pc'[a] = "idle" /\ job'[a] = None
         \/ /\ a = Phone /\ pc[a] \in Drafting \cup Ending
            /\ pc'[a] = "marking" /\ job'[a] = job[a]
      /\ \A b \in Actors : b # a => pc'[b] = pc[b] /\ job'[b] = job[b]
  <2>1. CASE GoTo(a, "idle", job[a])
      BY <1>1, <2>1, GoToEffect DEF IInv, Typed, Steps
  <2>2. CASE a = Phone /\ pc[a] \in Drafting \cup Ending /\ GoTo(a, "marking", job[a])
      BY <1>1, <2>2, GoToEffect DEF IInv, Typed, Steps
  <2>. QED
      BY <2>1, <2>2
<1>3. JobInv'
    BY <1>2 DEF IInv, JobInv, JobOf, Reviewed, Saving, Ending
<1>4. Intents' /\ OneJob'
    BY <1>2 DEF IInv, Intents, Intended, OneJob, Busy, Saving, shelf
<1>5. PairsTyped' /\ PairInv' /\ CoinInv'
    BY DEF IInv, Typed, PairsTyped, PairInv, PairOf, Apart, CoinInv, CoinOf, shelf
<1>6. AuditInv'
  <2>1. Audited'
      BY <1>2 DEF IInv, AuditInv, Audited, Drafting, Saving, Ending, Actors
  <2>. QED
      BY <2>1 DEF IInv, AuditInv, AuditOf
<1>. QED
    BY <1>2, <1>3, <1>4, <1>5, <1>6

\* complete writes: the coin of the pair was seen on disk.
LEMMA Completing ==
    ASSUME IInv, NEW a \in Actors, job[a] # None,
           pc[a] = IF a = Phone THEN "recorded" ELSE "persisted",
           Has(a, job[a].pair), pairs[job[a].pair].state \in {"SAVING", "SAVED"},
           Saved(job[a].pair), UNCHANGED <<shelf, audit>>,
           NEW step \in {"idle", "completed"}, step = "completed" => a = Phone,
           GoTo(a, step, job[a])
    PROVE  /\ PairsTyped' /\ JobsTyped' /\ JobInv' /\ Intents' /\ OneJob'
           /\ PairInv' /\ CoinInv' /\ AuditInv'
<1>. DEFINE p == job[a].pair
<1>1. job[a] \in Jobs /\ p \in Pairs
    BY DEF IInv, Typed, JobsTyped, Jobs
<1>2. /\ pairs[p] # None /\ pairs[p].state \in {"SAVING", "SAVED"}
      /\ pairs[p].store = Store(a)
    BY DEF Has
<1>3. /\ PairsTyped'
      /\ \A q \in Pairs : q # p => pairs'[q] = pairs[q]
      /\ pairs'[p] # None /\ pairs'[p].state = "SAVED" /\ pairs'[p].coin = pairs[p].coin
      /\ pairs'[p].store = pairs[p].store /\ pairs'[p].roles = pairs[p].roles
    BY <1>1, <1>2, SavedEffect DEF IInv, Typed
<1>4. /\ JobsTyped'
      /\ \/ a = Phone /\ pc'[a] = "completed" /\ job'[a] = job[a]
         \/ pc'[a] = "idle" /\ job'[a] = None
      /\ \A b \in Actors : b # a => pc'[b] = pc[b] /\ job'[b] = job[b]
    BY <1>1, GoToEffect DEF IInv, Typed, Steps
<1>5. JobInv'
    BY <1>1, <1>2, <1>3, <1>4 DEF IInv, Typed, JobsTyped, Jobs, JobInv, JobOf, Reviewed, Saving,
       Ending
<1>6. OneJob'
    BY <1>4 DEF IInv, OneJob, Busy, Saving
<1>7. Intents'
    BY <1>1, <1>2, <1>3, <1>4 DEF IInv, Typed, JobsTyped, Jobs, Intents, Intended, Busy, Saving,
       JobInv, JobOf, shelf
<1>8. PairInv' /\ CoinInv'
  <2>1. \A q \in Pairs : pairs'[q] # None => PairOf(q)'
      BY <1>1, <1>2, <1>3 DEF IInv, PairInv, PairOf, Untried
  <2>2. \A q, s \in Pairs : pairs'[q] # None /\ pairs'[s] # None /\ q # s => Apart(q, s)'
      BY <1>1, <1>2, <1>3 DEF IInv, PairInv, Apart
  <2>3. CoinInv'
      BY <1>1, <1>2, <1>3 DEF IInv, CoinInv, CoinOf, shelf
  <2>. QED
      BY <2>1, <2>2, <2>3 DEF PairInv
<1>9. AuditInv'
  <2>1. \A q \in Pairs : audit'[q] # None => AuditOf(q)'
      BY <1>1, <1>2, <1>3 DEF IInv, AuditInv, AuditOf
  <2>2. Audited'
    <3>1. CASE a = Phone
        BY <1>1, <1>3, <1>4, <3>1 DEF IInv, AuditInv, Audited, Drafting, Saving, Ending
    <3>2. CASE a # Phone
      <4>1. pc'[Phone] = pc[Phone] /\ job'[Phone] = job[Phone]
          BY <1>4, <3>2 DEF Actors
      <4>2. pc[Phone] # "idle" => job[Phone].pair # p /\ job[Phone].pair \in Pairs
          BY <1>2, <3>2, PhoneAssumption DEF IInv, Typed, JobsTyped, Jobs, JobInv, JobOf, Store,
             Actors
      <4>. QED
          BY <1>3, <4>1, <4>2 DEF IInv, AuditInv, Audited, Drafting, Saving, Ending
    <3>. QED
        BY <3>1, <3>2
  <2>. QED
      BY <2>1, <2>2 DEF AuditInv
<1>. QED
    BY <1>3, <1>4, <1>5, <1>6, <1>7, <1>8, <1>9

\* confirm_pair.
LEMMA ConfirmPairStep ==
    ASSUME IInv, NEW w \in Windows, NEW p \in Pairs, NEW r \in Roles, ConfirmPair(w, p, r)
    PROVE  IInv'
<1>1. UNCHANGED <<collection, fresh, importLock, media, audit, auditLock, pc, job>>
    BY DEF ConfirmPair, Dialog, diary, shelf
<1>2. CoinsTyped' /\ AuditTyped' /\ JobsTyped' /\ FreshTyped' /\ ShelfTyped'
    /\ OneJob'
    BY <1>1, Frames
<1>3. PairsTyped'
    BY NewPairEffect DEF Actors, ConfirmPair, Dialog, IInv, Typed
<1>4. LocksTyped'
    BY PhoneAssumption, <1>1, NewPairEffect, StoreTyped DEF Actors,
        ConfirmPair, Dialog, IInv, LocksTyped, Typed, diary, shelf
<1>5. FaultsTyped'
    BY PhoneAssumption DEF ConfirmPair, Dialog, Fail, FaultsTyped, IInv,
        Typed
<1>6. JobInv'
    BY NewPairEffect DEF Actors, ConfirmPair, Dialog, IInv, JobInv, JobOf,
        Jobs, JobsTyped, Typed
<1>7. Intents'
    BY NewPairEffect DEF Actors, Busy, ConfirmPair, Dialog, IInv, Intended,
        Intents, JobInv, JobOf, Jobs, JobsTyped, PairInv, Saving, Typed,
        shelf
<1>8. PairInv'
    BY NewPairEffect, NewPairApart, SwapPhotos DEF Actors, Apart,
        ConfirmPair, Dialog, Entries, Has, IInv, PairInv, PairOf, PairsTyped,
        Typed, Untried
<1>9. CoinInv'
    BY NewPairEffect DEF Actors, CoinInv, CoinOf, ConfirmPair, Dialog, IInv,
        Typed, shelf
<1>10. AuditInv'
    BY NewPairEffect DEF Actors, AuditInv, AuditOf, Audited, ConfirmPair,
        Dialog, IInv, JobInv, JobOf, Jobs, JobsTyped, Typed, diary
<1>. QED
    BY <1>2, <1>3, <1>4, <1>5, <1>6, <1>7, <1>8, <1>9, <1>10 DEF IInv, Typed

\* swap.
LEMMA SwapStep ==
    ASSUME IInv, NEW w \in Windows, NEW p \in Pairs, Swap(w, p)
    PROVE  IInv'
<1>1. UNCHANGED <<collection, fresh, importLock, media, audit, auditLock, pc, job>>
    BY DEF Dialog, Swap, diary, shelf
<1>2. CoinsTyped' /\ AuditTyped' /\ JobsTyped' /\ FreshTyped' /\ ShelfTyped'
    /\ OneJob'
    BY <1>1, Frames
<1>3. PairsTyped'
    BY SwapPhotos DEF Dialog, Entries, Has, IInv, PairsTyped, Ready, Swap,
        Typed
<1>4. LocksTyped'
    BY PhoneAssumption, <1>1, SwapPhotos, StoreTyped DEF Actors, Dialog, Has,
        IInv, LocksTyped, Ready, Swap, Swapped, Typed, diary, shelf
<1>5. FaultsTyped'
    BY PhoneAssumption DEF Dialog, Fail, FaultsTyped, IInv, Swap, Typed
<1>6. JobInv'
    BY PhoneAssumption, SwapPhotos DEF Dialog, Entries, IInv, JobInv, JobOf,
        PairsTyped, Swap, Typed
<1>7. Intents'
    BY DEF Dialog, IInv, Intended, Intents, Swap, shelf
<1>8. PairInv'
    BY SwapPhotos DEF Apart, Dialog, Entries, Has, IInv, PairInv, PairOf,
        PairsTyped, Ready, Swap, Typed
<1>9. CoinInv'
    BY PhoneAssumption DEF CoinInv, CoinOf, Dialog, IInv, PairInv, PairOf,
        Ready, Swap, Untried, shelf
<1>10. AuditInv'
    BY PhoneAssumption DEF AuditInv, AuditOf, Audited, Dialog, Has, IInv,
        Ready, Store, Swap, diary
<1>. QED
    BY <1>2, <1>3, <1>4, <1>5, <1>6, <1>7, <1>8, <1>9, <1>10 DEF IInv, Typed

\* release.
LEMMA ReleasePairStep ==
    ASSUME IInv, NEW w \in Windows, NEW p \in Pairs, ReleasePair(w, p)
    PROVE  IInv'
<1>1. UNCHANGED <<collection, fresh, importLock, media, audit, auditLock, pc, job>>
    BY DEF Dialog, ReleasePair, diary, shelf
<1>2. CoinsTyped' /\ AuditTyped' /\ JobsTyped' /\ FreshTyped' /\ ShelfTyped'
    /\ OneJob'
    BY <1>1, Frames
<1>3. PairsTyped'
    BY DEF Dialog, Entries, Has, IInv, PairsTyped, Ready, ReleasePair, Typed
<1>4. LocksTyped'
    BY PhoneAssumption, <1>1, StoreTyped DEF Actors, Dialog, Has, IInv,
        LocksTyped, Ready, ReleasePair, Typed, diary, shelf
<1>5. FaultsTyped'
    BY PhoneAssumption DEF Dialog, Fail, FaultsTyped, IInv, ReleasePair,
        Typed
<1>6. JobInv'
    BY PhoneAssumption DEF Dialog, Entries, IInv, JobInv, JobOf, PairsTyped,
        ReleasePair, Typed
<1>7. Intents'
    BY DEF Dialog, IInv, Intended, Intents, Ready, ReleasePair, shelf
<1>8. PairInv'
    BY DEF Apart, Dialog, Has, IInv, PairInv, PairOf, Ready, ReleasePair,
        Untried
<1>9. CoinInv'
    BY PhoneAssumption DEF CoinInv, CoinOf, Dialog, IInv, PairInv, PairOf,
        Ready, ReleasePair, Untried, shelf
<1>10. AuditInv'
    BY PhoneAssumption DEF Actors, AuditInv, AuditOf, Audited, Dialog, Has,
        IInv, JobInv, JobOf, Ready, ReleasePair, Store, diary
<1>. QED
    BY <1>2, <1>3, <1>4, <1>5, <1>6, <1>7, <1>8, <1>9, <1>10 DEF IInv, Typed

\* A look at the collection changes none of this.
LEMMA LookedStep ==
    ASSUME IInv, UNCHANGED <<shelf, pairs, intakeLock, diary, pc, job, faults>>
    PROVE  IInv'
BY Frames DEF shelf, diary, IInv, Typed

\* Reconcile Save in the dialog writes.
LEMMA ReconcileStep ==
    ASSUME IInv, NEW w \in Windows, seen[w] \in Pairs, SeenBy(w), Reconcile(w)
    PROVE  IInv'
<1>. DEFINE p == seen[w]
<1>1. UNCHANGED <<collection, fresh, importLock, media, audit, auditLock, pc, job>>
    BY DEF Reconcile, diary, shelf
<1>2. CoinsTyped' /\ AuditTyped' /\ JobsTyped' /\ FreshTyped' /\ ShelfTyped'
    /\ OneJob'
    BY <1>1, Frames
<1>3. LocksTyped'
    BY <1>1, StoreTyped DEF Reconcile, IInv, LocksTyped, Typed
<1>4. FaultsTyped'
    BY PhoneAssumption DEF Fail, FaultsTyped, IInv, Reconcile, Typed
<1>5. CASE UNCHANGED pairs
    BY <1>1, <1>2, <1>3, <1>4, <1>5, Frames DEF IInv, Typed
<1>6. CASE Saved(p)
  <2>1. pairs[p] # None /\ pairs[p].state \in {"SAVING", "SAVED"}
      BY DEF SeenBy, Has
  <2>2. /\ PairsTyped'
        /\ \A q \in Pairs : q # p => pairs'[q] = pairs[q]
        /\ pairs'[p] # None /\ pairs'[p].state = "SAVED" /\ pairs'[p].coin = pairs[p].coin
        /\ pairs'[p].store = pairs[p].store /\ pairs'[p].roles = pairs[p].roles
      BY <1>6, <2>1, SavedEffect DEF IInv, Typed
  <2>3. JobInv'
      BY <1>1, <2>1, <2>2 DEF IInv, JobInv, JobOf, Jobs, JobsTyped, Typed
  <2>4. Intents'
      BY <1>1, <2>1, <2>2 DEF Busy, IInv, Intended, Intents, JobInv, JobOf, Jobs, JobsTyped,
         Saving, Typed
  <2>5. PairInv'
      BY <2>1, <2>2 DEF Apart, IInv, PairInv, PairOf, Untried
  <2>6. CoinInv'
      BY <1>1, <2>1, <2>2 DEF CoinInv, CoinOf, IInv
  <2>7. AuditInv'
      BY <1>1, <2>1, <2>2 DEF Actors, AuditInv, AuditOf, Audited, IInv, JobInv, JobOf, Jobs,
         JobsTyped, Typed, Drafting, Saving, Ending
  <2>. QED
      BY <1>2, <1>3, <1>4, <2>2, <2>3, <2>4, <2>5, <2>6, <2>7 DEF IInv, Typed
<1>. QED
    BY <1>5, <1>6 DEF Reconcile

\* The review of a pair begins.
LEMMA ReviewStep ==
    ASSUME IInv, NEW w \in Windows, NEW p \in Pairs, NEW k \in {"visual", "unidentified"},
    Review(w, p, k)
    PROVE  IInv'
<1>1. UNCHANGED <<collection, fresh, importLock, media, pairs, intakeLock, audit, auditLock,
faults>>
    BY DEF Review, diary, intake, shelf
<1>2. CoinsTyped' /\ PairsTyped' /\ AuditTyped' /\ FreshTyped' /\ ShelfTyped'
    /\ LocksTyped' /\ FaultsTyped' /\ PairInv' /\ CoinInv'
    BY <1>1, Frames
<1>3. JobsTyped'
    BY DEF Actors, Entries, GoTo, Has, IInv, Job, Jobs, JobsTyped, Kinds,
        Outcomes, PairsTyped, Ready, Review, Steps, Typed
<1>4. JobInv'
    BY PhoneAssumption DEF Ending, Entries, GoTo, Has, IInv, Job, JobInv,
        JobOf, Jobs, JobsTyped, Kinds, Outcomes, PairsTyped, Ready, Review,
        Typed, intake
<1>5. Intents'
    BY DEF Busy, GoTo, IInv, Intended, Intents, Review, Saving, intake, shelf
<1>6. OneJob'
    BY DEF GoTo, IInv, Intended, Intents, Job, JobsTyped, OneJob, Ready,
        Review, Typed
<1>7. AuditInv'
    BY DEF AuditInv, AuditOf, Audited, Drafting, Ending, GoTo, IInv, Review,
        Saving, diary, intake
<1>. QED
    BY <1>2, <1>3, <1>4, <1>5, <1>6, <1>7 DEF IInv, Typed

\* The collector declines.
LEMMA CancelStep ==
    ASSUME IInv, NEW w \in Windows, Cancel(w)
    PROVE  IInv'
<1>1. UNCHANGED <<collection, fresh, importLock, media, pairs, intakeLock, audit, auditLock,
faults>>
    BY DEF Cancel, diary, intake, shelf
<1>2. CoinsTyped' /\ PairsTyped' /\ AuditTyped' /\ FreshTyped' /\ ShelfTyped'
    /\ LocksTyped' /\ FaultsTyped' /\ PairInv' /\ CoinInv'
    BY <1>1, Frames
<1>3. JobsTyped'
    BY DEF Actors, Cancel, GoTo, IInv, JobsTyped, Steps, Typed
<1>4. JobInv'
    BY DEF Cancel, Ending, GoTo, IInv, JobInv, JobOf, JobsTyped, Typed,
        intake
<1>5. Intents'
    BY DEF Busy, Cancel, GoTo, IInv, Intended, Intents, Saving, intake, shelf
<1>6. OneJob'
    BY DEF Busy, Cancel, GoTo, IInv, OneJob, Saving
<1>7. AuditInv'
    BY DEF AuditInv, AuditOf, Audited, Cancel, GoTo, IInv, JobInv, JobOf,
        JobsTyped, Typed, diary, intake
<1>. QED
    BY <1>2, <1>3, <1>4, <1>5, <1>6, <1>7 DEF IInv, Typed

\* The reviewed pair is compared with the intake.
LEMMA RecheckStep ==
    ASSUME IInv, NEW w \in Windows, Recheck(w)
    PROVE  IInv'
<1>1. UNCHANGED <<collection, fresh, importLock, media, pairs, intakeLock, audit, auditLock,
faults>>
    BY DEF Recheck, diary, intake, shelf
<1>2. CoinsTyped' /\ PairsTyped' /\ AuditTyped' /\ FreshTyped' /\ ShelfTyped'
    /\ LocksTyped' /\ FaultsTyped' /\ PairInv' /\ CoinInv'
    BY <1>1, Frames
<1>3. JobsTyped'
    BY DEF Actors, GoTo, IInv, JobsTyped, Recheck, Steps, Typed
<1>4. JobInv'
    BY DEF Actors, Busy, Ending, Entries, GoTo, IInv, JobInv, JobOf, Jobs,
        JobsTyped, Kinds, Outcomes, PairsTyped, Recheck, Saving, Store,
        Typed, diary, intake
<1>5. Intents'
    BY DEF Busy, GoTo, IInv, Intended, Intents, Recheck, Saving, intake,
        shelf
<1>6. OneJob'
    BY DEF Busy, GoTo, IInv, OneJob, Recheck, Saving
<1>7. AuditInv'
    BY PhoneAssumption DEF Actors, AuditInv, AuditOf, Audited, Drafting,
        Ending, Entries, GoTo, IInv, JobsTyped, Kinds, Recheck, Store, Typed,
        diary, intake
<1>. QED
    BY <1>2, <1>3, <1>4, <1>5, <1>6, <1>7 DEF IInv, Typed

\* clean_save_failure.
LEMMA ClearStep ==
    ASSUME IInv, NEW w \in Windows, Clear(w)
    PROVE  IInv'
<1>1. UNCHANGED <<collection, fresh, importLock, media, audit, auditLock>>
    BY DEF Clear, diary, shelf
<1>2. CoinsTyped' /\ AuditTyped' /\ FreshTyped' /\ ShelfTyped'
    BY <1>1, Frames
<1>3. PairsTyped'
    BY DEF Clear, EditIntake, EndEdit, Entries, Has, IInv, PairsTyped, Typed, intake
<1>4. JobsTyped'
    BY DEF Clear, EditIntake, EndEdit, GoTo, IInv, JobsTyped, Steps, Typed
<1>5. LocksTyped'
    BY DEF Clear, EditIntake, EndEdit, IInv, LocksTyped, Typed, diary, intake
<1>6. FaultsTyped'
    BY PhoneAssumption DEF Clear, EditIntake, EndEdit, Fail, FaultsTyped, IInv, Typed
<1>7. JobInv'
    BY PhoneAssumption DEF Clear, EditIntake, EndEdit, Ending, Entries, GoTo, IInv,
        JobInv, JobOf, Jobs, JobsTyped, PairsTyped, Typed, intake
<1>8. Intents'
    BY DEF Busy, Clear, EditIntake, EndEdit, Entries, GoTo, IInv, Intended, Intents,
        JobInv, JobOf, Jobs, JobsTyped, PairInv, PairOf, PairsTyped, Saving,
        Typed, Untried, intake, shelf
<1>9. OneJob'
    BY DEF Busy, Clear, EditIntake, EndEdit, GoTo, IInv, JobsTyped, OneJob, Saving,
        Typed
<1>10. PairInv'
    BY DEF Apart, Clear, EditIntake, EndEdit, Entries, Has, IInv, PairInv, PairOf,
        PairsTyped, Typed, Untried, intake
<1>11. CoinInv'
    BY DEF Clear, CoinInv, CoinOf, EditIntake, EndEdit, IInv, PairsTyped, Typed,
        Unsaved, intake, shelf
<1>12. AuditInv'
    BY DEF Actors, AuditInv, AuditOf, Audited, Clear, EditIntake, EndEdit, GoTo, IInv,
        JobInv, JobOf, Jobs, JobsTyped, PairsTyped, Store, Typed, diary,
        intake
<1>. QED
    BY <1>2, <1>3, <1>4, <1>5, <1>6, <1>7, <1>8, <1>9, <1>10, <1>11, <1>12
        DEF IInv, Typed

\* reserve_unidentified.
LEMMA ReserveUnidentifiedStep ==
    ASSUME IInv, NEW w \in Windows, NEW c \in Coins, ReserveUnidentified(w, c)
    PROVE  IInv'
<1>1. UNCHANGED <<collection, fresh, importLock, media, audit, auditLock>>
    BY DEF ReserveUnidentified, diary, shelf
<1>2. CoinsTyped' /\ AuditTyped' /\ FreshTyped' /\ ShelfTyped'
    BY <1>1, Frames
<1>3. \/ /\ Ready(w, job[w].pair) /\ Intent(w, c, TRUE)
         /\ \/ GoTo(w, "reserved", [job[w] EXCEPT !.coin = c]) \/ GoTo(w, "idle", job[w])
      \/ /\ UNCHANGED pairs
         /\ \/ GoTo(w, "idle", job[w])
            \/ w = Phone /\ GoTo(w, "marking", job[w])
    BY DEF ReserveUnidentified, EditIntake, EndEdit, Blocked, Failing, intake
<1>4. job[w] # None /\ w # Phone
    BY PhoneAssumption DEF ReserveUnidentified, IInv, JobInv, JobOf, Actors
<1>5. /\ PairsTyped' /\ JobsTyped' /\ JobInv' /\ Intents' /\ OneJob'
      /\ PairInv' /\ CoinInv' /\ AuditInv'
  <2>1. CASE Ready(w, job[w].pair) /\ Intent(w, c, TRUE)
             /\ (GoTo(w, "reserved", [job[w] EXCEPT !.coin = c]) \/ GoTo(w, "idle", job[w]))
      BY <1>1, <2>1, Reserving DEF ReserveUnidentified, shelf, Actors
  <2>2. CASE UNCHANGED pairs /\ GoTo(w, "idle", job[w])
      BY <1>1, <1>4, <2>2, Leaving DEF ReserveUnidentified, Actors
  <2>. QED
      BY <1>3, <1>4, <2>1, <2>2
<1>6. LocksTyped'
    BY DEF Blocked, Failing, EditIntake, EndEdit, IInv, Intent, LocksTyped,
        ReserveUnidentified, Typed, diary, intake
<1>7. FaultsTyped'
    BY PhoneAssumption DEF Blocked, Failing, EditIntake, EndEdit, Fail, FaultsTyped, IInv,
        Intent, ReserveUnidentified, Typed
<1>. QED
    BY <1>2, <1>5, <1>6, <1>7 DEF IInv, Typed

\* A coin is edited or deleted in a window.
LEMMA EditCoinStep ==
    ASSUME IInv, NEW w \in Windows, NEW c \in Coins, EditCoin(w, c)
    PROVE  IInv'
<1>1. UNCHANGED <<importLock, media, pairs, intakeLock, audit, auditLock, pc, job, faults>>
    BY DEF EditCoin, diary, intake
<1>2. PairsTyped' /\ AuditTyped' /\ JobsTyped' /\ ShelfTyped' /\ LocksTyped'
    /\ FaultsTyped' /\ JobInv' /\ Intents' /\ OneJob' /\ PairInv' /\
    AuditInv'
    BY <1>1, Frames
<1>3. CoinsTyped'
    BY ItemEffect DEF CoinsTyped, EditCoin, IInv, Typed
<1>4. FreshTyped'
    BY DEF EditCoin, FreshTyped
<1>5. CoinInv'
    BY DEF CoinInv, CoinOf, CoinsTyped, EditCoin, IInv, Items, Typed, intake
<1>. QED
    BY <1>2, <1>3, <1>4, <1>5 DEF IInv, Typed

\* create_draft confirms the pair.
LEMMA DraftStep ==
    ASSUME IInv, NEW p \in Pairs, NEW r \in Roles, Draft(p, r)
    PROVE  IInv'
<1>1. UNCHANGED <<collection, fresh, importLock, media, audit, auditLock>>
    BY DEF Draft, diary, shelf
<1>2. CoinsTyped' /\ AuditTyped' /\ FreshTyped' /\ ShelfTyped'
    BY <1>1, Frames
<1>3. PairsTyped'
    BY PhoneAssumption, NewPairEffect DEF Actors, Draft, EditIntake, EndEdit, IInv,
        PairsTyped, Typed, intake
<1>4. JobsTyped'
    BY DEF Actors, Draft, EditIntake, EndEdit, GoTo, IInv, Job, Jobs, JobsTyped,
        Kinds, Outcomes, Steps, Typed
<1>5. LocksTyped'
    BY DEF Draft, EditIntake, EndEdit, IInv, LocksTyped, Typed, diary, intake
<1>6. FaultsTyped'
    BY PhoneAssumption DEF Draft, EditIntake, EndEdit, Fail, FaultsTyped, IInv, Typed
<1>7. JobInv'
    BY PhoneAssumption, NewPairEffect DEF Actors, Draft, EditIntake, EndEdit, GoTo,
        IInv, Job, JobInv, JobOf, Jobs, JobsTyped, Kinds, Outcomes, Typed,
        intake
<1>8. Intents'
    BY PhoneAssumption, NewPairEffect DEF Actors, Busy, Draft, EditIntake, EndEdit,
        GoTo, IInv, Intended, Intents, JobInv, JobOf, Jobs, JobsTyped,
        Saving, Typed, intake, shelf
<1>9. OneJob'
    BY DEF Busy, Draft, EditIntake, EndEdit, GoTo, IInv, JobsTyped, OneJob, Saving,
        Typed
<1>10. PairInv'
    BY PhoneAssumption, NewPairEffect, NewPairApart, SwapPhotos DEF Actors,
        Apart, Draft, EditIntake, EndEdit, Entries, Has, IInv, PairInv, PairOf,
        PairsTyped, Typed, Untried, diary, intake, shelf
<1>11. CoinInv'
    BY PhoneAssumption, NewPairEffect DEF Actors, CoinInv, CoinOf, Draft,
        EditIntake, EndEdit, IInv, Typed, intake, shelf
<1>12. AuditInv'
    BY PhoneAssumption, NewPairEffect DEF Actors, AuditInv, AuditOf, Audited,
        Draft, Drafting, EditIntake, EndEdit, Ending, GoTo, IInv, Job, JobsTyped,
        Saving, Typed, diary, intake
<1>. QED
    BY <1>2, <1>3, <1>4, <1>5, <1>6, <1>7, <1>8, <1>9, <1>10, <1>11, <1>12
        DEF IInv, Typed

\* A draft is verified.
LEMMA VerifyStep ==
    ASSUME IInv, NEW p \in Pairs, Verify(p)
    PROVE  IInv'
<1>1. UNCHANGED <<collection, fresh, importLock, media, pairs, intakeLock>>
    BY DEF Verify, intake, shelf
<1>2. CoinsTyped' /\ PairsTyped' /\ FreshTyped' /\ ShelfTyped' /\ PairInv' /\
    CoinInv'
    BY <1>1, Frames
<1>3. AuditTyped'
    BY RecordEffect DEF AuditTyped, EditAudit, IInv, Typed, Verify, diary
<1>4. JobsTyped'
    BY DEF EditAudit, GoTo, IInv, JobsTyped, Typed, Verify
<1>5. LocksTyped'
    BY DEF EditAudit, IInv, LocksTyped, Typed, Verify, diary, intake
<1>6. FaultsTyped'
    BY PhoneAssumption DEF EditAudit, Fail, FaultsTyped, IInv, Typed, Verify
<1>7. JobInv'
    BY DEF EditAudit, GoTo, IInv, JobInv, JobOf, JobsTyped, Typed, Verify,
        intake
<1>8. Intents'
    BY DEF EditAudit, GoTo, IInv, Intended, Intents, JobInv, JobOf,
        JobsTyped, Typed, Verify, intake, shelf
<1>9. OneJob'
    BY DEF EditAudit, GoTo, IInv, JobInv, JobOf, JobsTyped, OneJob, Typed,
        Verify
<1>10. AuditInv'
    BY RecordEffect DEF AuditInv, AuditOf, Audited, Drafting, EditAudit,
        Ending, GoTo, IInv, JobsTyped, Saving, Typed, Verify, diary, intake
<1>. QED
    BY <1>2, <1>3, <1>4, <1>5, <1>6, <1>7, <1>8, <1>9, <1>10 DEF IInv, Typed

\* A draft begins to be saved.
LEMMA BeginSaveStep ==
    ASSUME IInv, NEW p \in Pairs, BeginSave(p)
    PROVE  IInv'
<1>1. UNCHANGED <<collection, fresh, importLock, media, pairs, intakeLock>>
    BY DEF BeginSave, intake, shelf
<1>2. CoinsTyped' /\ PairsTyped' /\ FreshTyped' /\ ShelfTyped' /\ PairInv' /\
    CoinInv'
    BY <1>1, Frames
<1>3. AuditTyped'
    BY RecordEffect DEF AuditTyped, BeginSave, EditAudit, IInv, Typed, diary
<1>4. JobsTyped'
    BY DEF Actors, AuditTyped, BeginSave, Drafts, EditAudit, GoTo, IInv, Job,
        Jobs, JobsTyped, Kinds, Outcomes, Steps, Typed
<1>5. LocksTyped'
    BY DEF BeginSave, EditAudit, IInv, LocksTyped, Typed, diary, intake
<1>6. FaultsTyped'
    BY PhoneAssumption DEF BeginSave, EditAudit, Fail, FaultsTyped, IInv,
        Typed
<1>7. JobInv'
    BY PhoneAssumption DEF AuditInv, AuditOf, BeginSave, EditAudit, Entries,
        GoTo, IInv, Job, JobInv, JobOf, Jobs, JobsTyped, Kinds, Outcomes,
        PairsTyped, Store, Typed, intake
<1>8. Intents'
    BY DEF BeginSave, Busy, EditAudit, GoTo, IInv, Intended, Intents,
        JobsTyped, Saving, Typed, intake, shelf
<1>9. OneJob'
    BY DEF BeginSave, Busy, EditAudit, GoTo, IInv, JobsTyped, OneJob, Saving,
        Typed
<1>10. AuditInv'
    BY RecordEffect DEF AuditInv, AuditOf, Audited, BeginSave, Drafting,
        EditAudit, Ending, GoTo, IInv, Job, JobsTyped, Saving, Typed, diary,
        intake
<1>. QED
    BY <1>2, <1>3, <1>4, <1>5, <1>6, <1>7, <1>8, <1>9, <1>10 DEF IInv, Typed

\* The service reconciles a draft.
LEMMA ReconcileEntryStep ==
    ASSUME IInv, NEW p \in Pairs, ReconcileEntry(p)
    PROVE  IInv'
<1>1. UNCHANGED <<collection, fresh, importLock, media, pairs, intakeLock, audit, auditLock,
faults>>
    BY DEF ReconcileEntry, diary, intake, shelf
<1>2. CoinsTyped' /\ PairsTyped' /\ AuditTyped' /\ FreshTyped' /\ ShelfTyped'
    /\ LocksTyped' /\ FaultsTyped' /\ PairInv' /\ CoinInv'
    BY <1>1, Frames
<1>3. JobsTyped'
    BY DEF Actors, AuditTyped, Drafts, GoTo, IInv, Job, Jobs, JobsTyped,
        Kinds, Outcomes, ReconcileEntry, Steps, Typed
<1>4. JobInv'
    BY PhoneAssumption DEF AuditInv, AuditOf, Ending, Entries, GoTo, IInv,
        Job, JobInv, JobOf, Jobs, JobsTyped, Kinds, Outcomes, PairsTyped,
        ReconcileEntry, Store, Typed, intake
<1>5. Intents'
    BY DEF Busy, GoTo, IInv, Intended, Intents, ReconcileEntry, Saving,
        intake, shelf
<1>6. OneJob'
    BY DEF Busy, GoTo, IInv, OneJob, ReconcileEntry, Saving
<1>7. AuditInv'
    BY DEF AuditInv, AuditOf, Audited, Drafting, GoTo, IInv, Job, JobsTyped,
        ReconcileEntry, Saving, Typed, diary, intake
<1>. QED
    BY <1>2, <1>3, <1>4, <1>5, <1>6, <1>7 DEF IInv, Typed

\* create_draft writes the draft.
LEMMA CreateEntryStep ==
    ASSUME IInv, CreateEntry
    PROVE  IInv'
<1>1. UNCHANGED <<collection, fresh, importLock, media, pairs, intakeLock>>
    BY DEF CreateEntry, intake, shelf
<1>2. CoinsTyped' /\ PairsTyped' /\ FreshTyped' /\ ShelfTyped' /\ PairInv' /\
    CoinInv'
    BY <1>1, Frames
<1>3. AuditTyped'
    BY DEF Actors, AuditTyped, CreateEntry, Drafts, EditAudit, Entries, IInv,
        JobInv, JobOf, PairsTyped, Typed, diary
<1>4. JobsTyped'
    BY DEF CreateEntry, EditAudit, GoTo, IInv, JobsTyped, Steps, Typed
<1>5. LocksTyped'
    BY DEF CreateEntry, EditAudit, IInv, LocksTyped, Typed, diary, intake
<1>6. FaultsTyped'
    BY PhoneAssumption DEF CreateEntry, EditAudit, Fail, FaultsTyped, IInv,
        Typed
<1>7. JobInv'
    BY DEF CreateEntry, EditAudit, GoTo, IInv, JobInv, JobOf, JobsTyped,
        Typed, intake
<1>8. Intents'
    BY DEF Busy, CreateEntry, EditAudit, GoTo, IInv, Intended, Intents,
        JobsTyped, Saving, Typed, intake, shelf
<1>9. OneJob'
    BY DEF Busy, CreateEntry, EditAudit, GoTo, IInv, JobsTyped, OneJob,
        Saving, Typed
<1>10. AuditInv'
    BY DEF Actors, AuditInv, AuditOf, AuditTyped, Audited, CreateEntry,
        Drafting, EditAudit, Ending, GoTo, IInv, JobInv, JobOf, JobsTyped,
        Saving, Store, Typed, diary, intake
<1>. QED
    BY <1>2, <1>3, <1>4, <1>5, <1>6, <1>7, <1>8, <1>9, <1>10 DEF IInv, Typed

\* The capture package of the phone.
LEMMA PackStep ==
    ASSUME IInv, Pack
    PROVE  IInv'
<1>1. UNCHANGED <<collection, fresh, importLock, media, pairs, intakeLock, audit, auditLock>>
    BY DEF Pack, diary, intake, shelf
<1>2. CoinsTyped' /\ PairsTyped' /\ AuditTyped' /\ FreshTyped' /\ ShelfTyped'
    /\ LocksTyped' /\ PairInv' /\ CoinInv'
    BY <1>1, Frames
<1>3. JobsTyped'
    BY DEF Entries, GoTo, IInv, JobInv, JobOf, Jobs, JobsTyped, Pack,
        PairsTyped, Steps, Typed
<1>4. FaultsTyped'
    BY PhoneAssumption DEF Fail, FaultsTyped, IInv, Pack, Typed
<1>5. JobInv'
    BY PhoneAssumption DEF Ending, Entries, GoTo, IInv, JobInv, JobOf, Jobs,
        JobsTyped, Pack, PairsTyped, Reviewed, Saving, Typed, intake
<1>6. Intents'
    BY DEF Busy, GoTo, IInv, Intended, Intents, JobsTyped, Pack, Saving,
        Typed, intake, shelf
<1>7. OneJob'
    BY DEF Busy, GoTo, IInv, JobsTyped, OneJob, Pack, Saving, Typed
<1>8. AuditInv'
    BY DEF AuditInv, AuditOf, Audited, Drafting, GoTo, IInv, JobInv, JobOf,
        Jobs, JobsTyped, Pack, Typed, diary, intake
<1>. QED
    BY <1>2, <1>3, <1>4, <1>5, <1>6, <1>7, <1>8 DEF IInv, Typed

\* The coin is recorded in the draft.
LEMMA RecordPersistedStep ==
    ASSUME IInv, RecordPersisted
    PROVE  IInv'
<1>1. UNCHANGED <<collection, fresh, importLock, media, pairs, intakeLock>>
    BY DEF RecordPersisted, intake, shelf
<1>2. CoinsTyped' /\ PairsTyped' /\ FreshTyped' /\ ShelfTyped' /\ PairInv' /\
    CoinInv'
    BY <1>1, Frames
<1>3. AuditTyped'
    BY DEF Actors, AuditInv, AuditTyped, Audited, Drafting, Drafts,
        EditAudit, IInv, JobInv, JobOf, Jobs, JobsTyped, RecordPersisted,
        Typed, diary
<1>4. JobsTyped'
    BY DEF EditAudit, GoTo, IInv, JobsTyped, RecordPersisted, Steps, Typed
<1>5. LocksTyped'
    BY DEF EditAudit, IInv, LocksTyped, RecordPersisted, Typed, diary, intake
<1>6. FaultsTyped'
    BY PhoneAssumption DEF EditAudit, Fail, FaultsTyped, IInv,
        RecordPersisted, Typed
<1>7. JobInv'
    BY DEF EditAudit, Ending, GoTo, IInv, JobInv, JobOf, JobsTyped,
        RecordPersisted, Reviewed, Saving, Typed, intake
<1>8. Intents'
    BY DEF Busy, EditAudit, GoTo, IInv, Intended, Intents, JobsTyped,
        RecordPersisted, Saving, Typed, intake, shelf
<1>9. OneJob'
    BY DEF Busy, EditAudit, GoTo, IInv, JobsTyped, OneJob, RecordPersisted,
        Saving, Typed
<1>10. AuditInv'
    BY PhoneAssumption DEF Actors, AuditInv, AuditOf, AuditTyped, Audited,
        Drafting, Drafts, EditAudit, Ending, GoTo, IInv, JobInv, JobOf, Jobs,
        JobsTyped, RecordPersisted, Saving, Typed, diary, intake
<1>. QED
    BY <1>2, <1>3, <1>4, <1>5, <1>6, <1>7, <1>8, <1>9, <1>10 DEF IInv, Typed

\* A draft in recovery is reopened.
LEMMA ReopenStep ==
    ASSUME IInv, Reopen
    PROVE  IInv'
<1>1. UNCHANGED <<collection, fresh, importLock, media, pairs, intakeLock>>
    BY DEF Reopen, intake, shelf
<1>2. CoinsTyped' /\ PairsTyped' /\ FreshTyped' /\ ShelfTyped' /\ PairInv' /\
    CoinInv'
    BY <1>1, Frames
<1>3. AuditTyped'
    BY RecordEffect DEF Actors, AuditInv, AuditTyped, Audited, EditAudit,
        Ending, IInv, JobInv, JobOf, Jobs, JobsTyped, Reopen, Typed, diary
<1>4. JobsTyped'
    BY DEF EditAudit, GoTo, IInv, JobsTyped, Reopen, Steps, Typed
<1>5. LocksTyped'
    BY DEF EditAudit, IInv, LocksTyped, Reopen, Typed, diary, intake
<1>6. FaultsTyped'
    BY PhoneAssumption DEF EditAudit, Fail, FaultsTyped, IInv, Reopen, Typed
<1>7. JobInv'
    BY DEF EditAudit, Ending, GoTo, IInv, JobInv, JobOf, JobsTyped, Reopen, Reviewed, Saving,
        Typed, intake
<1>8. Intents'
    BY DEF Busy, EditAudit, GoTo, IInv, Intended, Intents, JobsTyped, Reopen,
        Saving, Typed, intake, shelf
<1>9. OneJob'
    BY DEF Busy, EditAudit, GoTo, IInv, JobsTyped, OneJob, Reopen, Saving,
        Typed
<1>10. AuditInv'
    BY RecordEffect DEF Actors, AuditInv, AuditOf, Audited, Drafting,
        EditAudit, Ending, GoTo, IInv, JobInv, JobOf, Jobs, JobsTyped,
        Reopen, Saving, Typed, diary, intake
<1>. QED
    BY <1>2, <1>3, <1>4, <1>5, <1>6, <1>7, <1>8, <1>9, <1>10 DEF IInv, Typed

\* A draft is finished.
LEMMA FinalizeStep ==
    ASSUME IInv, Finalize
    PROVE  IInv'
<1>1. UNCHANGED <<collection, fresh, importLock, media, pairs, intakeLock>>
    BY DEF Finalize, intake, shelf
<1>2. CoinsTyped' /\ PairsTyped' /\ FreshTyped' /\ ShelfTyped' /\ PairInv' /\
    CoinInv'
    BY <1>1, Frames
<1>. DEFINE p == job[Phone].pair
<1>3. p \in Pairs /\ audit[p] \in Drafts /\ pairs[p] \in Entries /\ pairs[p].state = "SAVED"
  <2>1. Phone \in Actors /\ job[Phone] \in Jobs /\ pairs[p] # None
      BY DEF Finalize, IInv, Typed, JobsTyped, JobInv, JobOf, Actors
  <2>2. audit[p] # None /\ pairs[p].state = "SAVED"
      BY DEF Finalize, IInv, AuditInv, Audited, Ending
  <2>3. p \in Pairs
      BY <2>1 DEF Jobs
  <2>. QED
      BY <2>1, <2>2, <2>3 DEF IInv, Typed, AuditTyped, PairsTyped
<1>4. \/ /\ audit'[p] \in Drafts /\ audit'[p].state = "SAVED"
         /\ audit'[p].coin = pairs[p].coin /\ audit'[p].roles = audit[p].roles
         /\ \A q \in Pairs : q # p => audit'[q] = audit[q]
         /\ GoTo(Phone, "idle", job[Phone]) \/ GoTo(Phone, "idle", None)
      \/ /\ UNCHANGED audit
         /\ GoTo(Phone, "idle", job[Phone]) \/ GoTo(Phone, "marking", job[Phone])
  <2>1. pairs[p].coin \in Coins \cup {None}
      BY <1>3 DEF Entries
  <2>2. LET e == [audit[p] EXCEPT !.state = "SAVED", !.coin = pairs[p].coin]
        IN  e \in Drafts /\ e.state = "SAVED" /\ e.coin = pairs[p].coin /\ e.roles = audit[p].roles
      BY <1>3, <2>1 DEF Drafts
  <2>. QED
      BY <1>3, <2>2 DEF Finalize, EditAudit, diary, IInv, Typed, AuditTyped
<1>5. AuditTyped'
    BY <1>3, <1>4, PhoneAssumption DEF IInv, Typed, AuditTyped, Finalize, EditAudit, diary
<1>6. AuditInv'
  <2>1. \A q \in Pairs : audit'[q] # None => AuditOf(q)'
    <3>1. audit[p] # None
        BY <1>3, PhoneAssumption
    <3>. QED
        BY <1>1, <1>3, <1>4, <3>1 DEF IInv, AuditInv, AuditOf
  <2>2. Audited'
      BY <1>1, <1>3, <1>4 DEF IInv, AuditInv, Audited, Drafting, Saving, Ending, GoTo, Finalize,
         Typed, JobsTyped, Actors
  <2>. QED
      BY <2>1, <2>2 DEF AuditInv
<1>7. JobsTyped'
    BY DEF EditAudit, Finalize, GoTo, IInv, JobsTyped, Steps, Typed
<1>8. LocksTyped'
    BY DEF EditAudit, Finalize, IInv, LocksTyped, Typed, diary, intake
<1>9. FaultsTyped'
    BY PhoneAssumption DEF EditAudit, Fail, FaultsTyped, Finalize, IInv,
        Typed
<1>10. JobInv'
    BY DEF EditAudit, Ending, Finalize, GoTo, IInv, JobInv, JobOf, JobsTyped,
        Reviewed, Saving, Typed, intake
<1>11. Intents'
    BY DEF Busy, EditAudit, Finalize, GoTo, IInv, Intended, Intents,
        JobsTyped, Saving, Typed, intake, shelf
<1>12. OneJob'
    BY DEF Busy, EditAudit, Finalize, GoTo, IInv, JobsTyped, OneJob, Saving,
        Typed
<1>. QED
    BY <1>2, <1>5, <1>6, <1>7, <1>8, <1>9, <1>10, <1>11, <1>12 DEF IInv,
        Typed

\* mark_recovery_required.
LEMMA MarkStep ==
    ASSUME IInv, Mark
    PROVE  IInv'
<1>1. UNCHANGED <<collection, fresh, importLock, media, pairs, intakeLock>>
    BY DEF Mark, intake, shelf
<1>2. CoinsTyped' /\ PairsTyped' /\ FreshTyped' /\ ShelfTyped' /\ PairInv' /\
    CoinInv'
    BY <1>1, Frames
<1>3. AuditTyped'
    BY RecordEffect DEF Actors, AuditInv, AuditTyped, Audited, EditAudit,
        Ending, IInv, JobInv, JobOf, Jobs, JobsTyped, Mark, Typed, diary
<1>4. JobsTyped'
    BY DEF EditAudit, GoTo, IInv, JobsTyped, Mark, Steps, Typed
<1>5. LocksTyped'
    BY DEF EditAudit, IInv, LocksTyped, Mark, Typed, diary, intake
<1>6. FaultsTyped'
    BY PhoneAssumption DEF EditAudit, Fail, FaultsTyped, IInv, Mark, Typed
<1>7. JobInv'
    BY DEF EditAudit, GoTo, IInv, JobInv, JobOf, JobsTyped, Mark, Typed,
        intake
<1>8. Intents'
    BY DEF Busy, EditAudit, GoTo, IInv, Intended, Intents, JobsTyped, Mark,
        Saving, Typed, intake, shelf
<1>9. OneJob'
    BY DEF Busy, EditAudit, GoTo, IInv, JobsTyped, Mark, OneJob, Saving,
        Typed
<1>10. AuditInv'
    BY RecordEffect DEF Actors, AuditInv, AuditOf, Audited, Drafting,
        EditAudit, Ending, GoTo, IInv, JobInv, JobOf, Jobs, JobsTyped, Mark,
        Saving, Typed, diary, intake
<1>. QED
    BY <1>2, <1>3, <1>4, <1>5, <1>6, <1>7, <1>8, <1>9, <1>10 DEF IInv, Typed

\* reserve.
LEMMA ReserveStep ==
    ASSUME IInv, NEW a \in Actors, NEW c \in Coins, Reserve(a, c)
    PROVE  IInv'
<1>1. UNCHANGED <<collection, fresh, importLock, media, audit, auditLock>>
    BY DEF Reserve, diary, shelf
<1>2. CoinsTyped' /\ AuditTyped' /\ FreshTyped' /\ ShelfTyped'
    BY <1>1, Frames
<1>3. \/ /\ Ready(a, job[a].pair) /\ Intent(a, c, FALSE)
         /\ \/ GoTo(a, "reserved", [job[a] EXCEPT !.coin = c]) \/ GoTo(a, "idle", job[a])
      \/ /\ UNCHANGED pairs
         /\ \/ GoTo(a, "idle", job[a])
            \/ a = Phone /\ GoTo(a, "marking", job[a])
    BY DEF Reserve, EditIntake, EndEdit, Blocked, Failing, intake
<1>4. job[a] # None /\ (a = Phone => pc[a] \in Drafting)
    BY DEF Reserve, IInv, JobInv, JobOf, Drafting, Actors
<1>5. /\ PairsTyped' /\ JobsTyped' /\ JobInv' /\ Intents' /\ OneJob'
      /\ PairInv' /\ CoinInv' /\ AuditInv'
  <2>1. CASE Ready(a, job[a].pair) /\ Intent(a, c, FALSE)
             /\ (GoTo(a, "reserved", [job[a] EXCEPT !.coin = c]) \/ GoTo(a, "idle", job[a]))
      BY <1>1, <2>1, Reserving DEF Reserve, shelf, Actors
  <2>2. CASE UNCHANGED pairs /\ GoTo(a, "idle", job[a])
      BY <1>1, <1>4, <2>2, Leaving DEF Reserve, Actors
  <2>3. CASE UNCHANGED pairs /\ a = Phone /\ GoTo(a, "marking", job[a])
      BY <1>1, <1>4, <2>3, Leaving DEF Reserve, Actors
  <2>. QED
      BY <1>3, <2>1, <2>2, <2>3
<1>6. LocksTyped'
    BY DEF Blocked, Failing, EditIntake, EndEdit, IInv, Intent, LocksTyped, Reserve, Typed,
        diary, intake
<1>7. FaultsTyped'
    BY PhoneAssumption DEF Blocked, Failing, EditIntake, EndEdit, Fail, FaultsTyped, IInv,
        Intent, Reserve, Typed
<1>. QED
    BY <1>2, <1>5, <1>6, <1>7 DEF IInv, Typed

\* Where a caller goes on after its save.
LEMMA HandledSteps ==
    \A k \in Kinds : \A o \in Outcomes \cup {"raised"} :
        /\ Handled(k, o) \in {"persisted", "clearing", "marking", "idle"}
        /\ Handled(k, o) = "marking" => k \in {"phone", "reconcile"}
        /\ Handled(k, o) = "clearing" => k \notin {"phone", "reconcile"}
BY DEF Kinds, Outcomes, Handled, AfterVisual, AfterUnidentified, AfterPhone

\* The lock of the collection is taken, or not.
LEMMA LockStep ==
    ASSUME IInv, NEW a \in Actors, Lock(a)
    PROVE  IInv'
<1>1. UNCHANGED <<collection, fresh, media, pairs, intakeLock, audit, auditLock>>
    BY DEF Lock, diary, intake
<1>2. CoinsTyped' /\ PairsTyped' /\ AuditTyped' /\ FreshTyped' /\ LocksTyped'
    /\ PairInv' /\ CoinInv'
    BY <1>1, Frames
<1>3. JobsTyped'
    BY DEF GoTo, Handled, AfterVisual, AfterUnidentified, AfterPhone, IInv, JobsTyped, Lock,
       Saving, Steps, Typed
<1>4. ShelfTyped'
    BY DEF IInv, Lock, ShelfTyped, Typed
<1>5. FaultsTyped'
    BY PhoneAssumption DEF Fail, FaultsTyped, IInv, Lock, Typed
<1>6. JobInv'
    BY DEF Ending, GoTo, Handled, AfterVisual, AfterUnidentified, AfterPhone, IInv, JobInv,
       JobOf, JobsTyped, Lock,
        Reviewed, Steps, Typed, intake
<1>7. Intents'
    BY DEF Busy, GoTo, Handled, AfterVisual, AfterUnidentified, AfterPhone, IInv, Intended,
       Intents, JobsTyped, Lock,
        Saving, Typed, intake
<1>8. OneJob'
    BY DEF Busy, GoTo, IInv, JobsTyped, Lock, OneJob, Saving, Typed
<1>9. AuditInv'
    BY DEF Actors, AuditInv, AuditOf, Audited, Drafting, Ending, GoTo,
        Handled, AfterVisual, AfterUnidentified, AfterPhone, IInv, JobsTyped, Lock, Saving,
        Typed, diary, intake
<1>. QED
    BY <1>2, <1>3, <1>4, <1>5, <1>6, <1>7, <1>8, <1>9 DEF IInv, Typed

\* The managed copies are made.
LEMMA CopyStep ==
    ASSUME IInv, NEW a \in Actors, Copy(a)
    PROVE  IInv'
<1>1. UNCHANGED <<collection, fresh, importLock, pairs, intakeLock, audit, auditLock>>
    BY DEF Copy, diary, intake
<1>2. CoinsTyped' /\ PairsTyped' /\ AuditTyped' /\ FreshTyped' /\ LocksTyped'
    /\ PairInv'
    BY <1>1, Frames
<1>3. JobsTyped'
    BY DEF Copy, GoTo, IInv, JobInv, JobOf, Jobs, JobsTyped, Outcome,
        Outcomes, Saving, Steps, Typed
<1>4. ShelfTyped'
    BY DEF Copy, IInv, ShelfTyped, Typed
<1>5. FaultsTyped'
    BY PhoneAssumption DEF Copy, Fail, FaultsTyped, IInv, Typed
<1>6. JobInv'
    BY PhoneAssumption DEF Copy, Ending, GoTo, IInv, JobInv, JobOf, Jobs,
        JobsTyped, Outcome, Outcomes, Reviewed, Steps, Typed, intake
<1>7. Intents'
    BY DEF Actors, Busy, Copy, GoTo, IInv, Intended, Intents, JobInv, JobOf,
        Jobs, JobsTyped, Outcome, ShelfTyped, Steps, Typed, intake
<1>8. OneJob'
    BY DEF Busy, Copy, GoTo, IInv, JobInv, JobOf, Jobs, JobsTyped, OneJob,
        Outcome, Steps, Typed
<1>9. CoinInv'
    BY DEF CoinInv, CoinOf, Copy, IInv, ShelfTyped, Typed, intake
<1>10. AuditInv'
    BY DEF Actors, AuditInv, AuditOf, Audited, Copy, Drafting, GoTo, IInv,
        JobInv, JobOf, Jobs, JobsTyped, Outcome, Steps, Typed, diary, intake
<1>. QED
    BY <1>2, <1>3, <1>4, <1>5, <1>6, <1>7, <1>8, <1>9, <1>10 DEF IInv, Typed

\* add_item.
LEMMA PublishStep ==
    ASSUME IInv, NEW a \in Actors, Publish(a)
    PROVE  IInv'
<1>1. UNCHANGED <<importLock, media, pairs, intakeLock, audit, auditLock>>
    BY DEF Publish, diary, intake
<1>2. PairsTyped' /\ AuditTyped' /\ ShelfTyped' /\ LocksTyped' /\ PairInv'
    BY <1>1, Frames
<1>3. CoinsTyped'
    BY ItemEffect DEF CoinsTyped, IInv, JobInv, JobOf, Jobs, JobsTyped,
        Publish, Typed
<1>4. JobsTyped'
    BY DEF GoTo, IInv, JobInv, JobOf, Jobs, JobsTyped, Outcome, Outcomes,
        Publish, Saving, Steps, Typed
<1>5. FreshTyped'
    BY PhoneAssumption, <1>1 DEF Actors, FreshTyped, GoTo, IInv, Outcome,
        Publish, Typed, diary, intake
<1>6. FaultsTyped'
    BY PhoneAssumption DEF Fail, FaultsTyped, IInv, Publish, Typed
<1>7. JobInv'
    BY PhoneAssumption DEF Ending, GoTo, IInv, JobInv, JobOf, Jobs,
        JobsTyped, Outcome, Outcomes, Publish, Reviewed, Steps, Typed, intake
<1>8. Intents'
    BY DEF Busy, Entries, GoTo, IInv, Intended, Intents, JobInv, JobOf, Jobs,
        JobsTyped, Outcome, Publish, Steps, Typed, intake
<1>9. OneJob'
    BY DEF Busy, GoTo, IInv, JobInv, JobOf, Jobs, JobsTyped, OneJob, Outcome,
        Publish, Steps, Typed
<1>10. CoinInv'
    BY DEF Actors, Busy, CoinInv, CoinOf, CoinsTyped, IInv, Intended,
        Intents, JobInv, JobOf, Jobs, JobsTyped, Publish, Reviewed, Steps,
        Typed, intake
<1>11. AuditInv'
    BY DEF Actors, AuditInv, AuditOf, Audited, Drafting, GoTo, IInv, JobInv,
        JobOf, Jobs, JobsTyped, Outcome, Publish, Steps, Typed, diary, intake
<1>. QED
    BY <1>2, <1>3, <1>4, <1>5, <1>6, <1>7, <1>8, <1>9, <1>10, <1>11 DEF IInv,
        Typed

\* The copies of a failed save are removed.
LEMMA RollBackStep ==
    ASSUME IInv, NEW a \in Actors, RollBack(a)
    PROVE  IInv'
<1>1. UNCHANGED <<collection, fresh, importLock, pairs, intakeLock, audit, auditLock>>
    BY DEF RollBack, diary, intake
<1>2. CoinsTyped' /\ PairsTyped' /\ AuditTyped' /\ FreshTyped' /\ LocksTyped'
    /\ PairInv'
    BY <1>1, Frames
<1>3. JobsTyped'
    BY DEF GoTo, IInv, JobInv, JobOf, Jobs, JobsTyped, Outcome, Outcomes,
        RollBack, Saving, Steps, Typed
<1>4. ShelfTyped'
    BY DEF IInv, RollBack, ShelfTyped, Typed
<1>5. FaultsTyped'
    BY PhoneAssumption DEF Fail, FaultsTyped, IInv, RollBack, Typed
<1>6. JobInv'
    BY PhoneAssumption DEF Ending, GoTo, IInv, JobInv, JobOf, Jobs,
        JobsTyped, Outcome, Outcomes, Reviewed, RollBack, Steps, Typed,
        intake
<1>7. Intents'
    BY PhoneAssumption DEF Apart, Busy, GoTo, IInv, Intended, Intents,
        JobInv, JobOf, Jobs, JobsTyped, OneJob, Outcome, PairInv, RollBack,
        ShelfTyped, Steps, Typed, intake
<1>8. OneJob'
    BY DEF Busy, GoTo, IInv, JobInv, JobOf, Jobs, JobsTyped, OneJob, Outcome,
        RollBack, Steps, Typed
<1>9. CoinInv'
    BY DEF CoinInv, CoinOf, IInv, RollBack, ShelfTyped, Typed, intake
<1>10. AuditInv'
    BY DEF Actors, AuditInv, AuditOf, Audited, Drafting, GoTo, IInv, JobInv,
        JobOf, Jobs, JobsTyped, Outcome, RollBack, Steps, Typed, diary,
        intake
<1>. QED
    BY <1>2, <1>3, <1>4, <1>5, <1>6, <1>7, <1>8, <1>9, <1>10 DEF IInv, Typed

\* The lock of the collection is released.
LEMMA UnlockStep ==
    ASSUME IInv, NEW a \in Actors, Unlock(a)
    PROVE  IInv'
<1>1. UNCHANGED <<collection, fresh, media, pairs, intakeLock, audit, auditLock>>
    BY DEF Unlock, diary, intake
<1>2. CoinsTyped' /\ PairsTyped' /\ AuditTyped' /\ FreshTyped' /\ LocksTyped'
    /\ PairInv' /\ CoinInv'
    BY <1>1, Frames
<1>3. JobsTyped'
    BY DEF GoTo, Handled, AfterVisual, AfterUnidentified, AfterPhone, IInv, JobsTyped, Steps,
       Typed, Unlock
<1>4. ShelfTyped'
    BY DEF IInv, ShelfTyped, Typed, Unlock
<1>5. FaultsTyped'
    BY PhoneAssumption DEF Fail, FaultsTyped, IInv, Typed, Unlock
<1>6. JobInv'
  <2>1. job[a] \in Jobs /\ job[a] # None /\ pc[a] = "release"
      BY DEF Unlock, IInv, Typed, JobsTyped, JobInv, JobOf
  <2>2. job[a].kind \in Kinds /\ job[a].outcome \in Outcomes
      BY <2>1 DEF Jobs
  <2>3. PICK o \in Outcomes \cup {"raised"} : GoTo(a, Handled(job[a].kind, o), job[a])
      BY <2>2 DEF Unlock
  <2>4. /\ pc'[a] \in {"persisted", "clearing", "marking", "idle"}
        /\ pc'[a] = "marking" => job[a].kind \in {"phone", "reconcile"}
        /\ pc'[a] = "clearing" => job[a].kind \notin {"phone", "reconcile"}
        /\ job'[a] = IF pc'[a] = "idle" THEN None ELSE job[a]
        /\ \A b \in Actors : b # a => pc'[b] = pc[b] /\ job'[b] = job[b]
      BY <2>2, <2>3, HandledSteps DEF GoTo, IInv, Typed, JobsTyped
  <2>. QED
      BY <1>1, <2>1, <2>4 DEF IInv, JobInv, JobOf, Ending, Reviewed, Saving
<1>7. Intents'
    BY DEF Busy, GoTo, Handled, AfterVisual, AfterUnidentified, AfterPhone, IInv, Intended,
       Intents, JobsTyped, Saving,
        Typed, Unlock, intake
<1>8. OneJob'
    BY DEF Busy, GoTo, IInv, JobsTyped, OneJob, Saving, Typed, Unlock
<1>9. AuditInv'
    BY DEF Actors, AuditInv, AuditOf, Audited, Drafting, Ending, GoTo,
        Handled, AfterVisual, AfterUnidentified, AfterPhone, IInv, JobsTyped, Saving, Typed,
        Unlock, diary, intake
<1>. QED
    BY <1>2, <1>3, <1>4, <1>5, <1>6, <1>7, <1>8, <1>9 DEF IInv, Typed

\* PhoneIntake.complete looks, and leaves when there is nothing to complete.
LEMMA LookStep ==
    ASSUME IInv, NEW a \in Actors, Look(a)
    PROVE  IInv'
<1>1. UNCHANGED <<collection, fresh, importLock, media, audit, auditLock, pairs>>
    BY DEF Look, Blocked, EditIntake, EndEdit, diary, shelf, intake
<1>2. CoinsTyped' /\ AuditTyped' /\ FreshTyped' /\ ShelfTyped'
    BY <1>1, Frames
<1>3. job[a] # None /\ (a = Phone => pc[a] \in Ending)
    BY DEF Look, IInv, JobInv, JobOf, Ending
<1>4. \/ UNCHANGED <<pc, job>>
      \/ GoTo(a, "idle", job[a])
      \/ a = Phone /\ GoTo(a, "marking", job[a])
    BY DEF Look, Blocked, Failing, EditIntake, EndEdit
<1>5. /\ PairsTyped' /\ JobsTyped' /\ JobInv' /\ Intents' /\ OneJob'
      /\ PairInv' /\ CoinInv' /\ AuditInv'
  <2>1. CASE UNCHANGED <<pc, job>>
      BY <1>1, <2>1, Frames
  <2>2. CASE GoTo(a, "idle", job[a]) \/ (a = Phone /\ GoTo(a, "marking", job[a]))
      BY <1>1, <1>3, <2>2, Leaving DEF Look
  <2>. QED
      BY <1>4, <2>1, <2>2
<1>6. LocksTyped'
    BY <1>1, StoreTyped DEF Look, Blocked, EditIntake, EndEdit, IInv, LocksTyped, Typed, intake
<1>7. FaultsTyped'
    BY PhoneAssumption DEF Look, Blocked, EditIntake, EndEdit, Fail, FaultsTyped, IInv, Typed
<1>. QED
    BY <1>2, <1>5, <1>6, <1>7 DEF IInv, Typed

\* PhoneIntake.complete writes.
LEMMA CompleteStep ==
    ASSUME IInv, NEW a \in Actors, seen[a] # None, SeenBy(a), Complete(a)
    PROVE  IInv'
<1>1. UNCHANGED <<collection, fresh, importLock, media, audit, auditLock>>
    BY DEF Complete, diary, shelf
<1>2. CoinsTyped' /\ AuditTyped' /\ FreshTyped' /\ ShelfTyped'
    BY <1>1, Frames
<1>. DEFINE p == job[a].pair
            next == IF a = Phone THEN "completed" ELSE "idle"
<1>3. Has(a, p) /\ pairs[p].state \in {"SAVING", "SAVED"} /\ seen[a] = p
    BY DEF Complete, SeenBy
<1>4. \/ Saved(p) /\ (GoTo(a, next, job[a]) \/ GoTo(a, "idle", job[a]))
      \/ UNCHANGED pairs /\ GoTo(a, "idle", job[a])
      \/ UNCHANGED pairs /\ a = Phone /\ GoTo(a, "marking", job[a])
    BY <1>3 DEF Complete, EndEdit, Failing
<1>5. /\ job[a] # None /\ (a = Phone => pc[a] \in Ending)
      /\ next \in {"idle", "completed"} /\ (next = "completed" => a = Phone)
    BY DEF Complete, IInv, JobInv, JobOf, Ending
<1>. HIDE DEF next
<1>6. /\ PairsTyped' /\ JobsTyped' /\ JobInv' /\ Intents' /\ OneJob'
      /\ PairInv' /\ CoinInv' /\ AuditInv'
  <2>1. CASE Saved(p) /\ GoTo(a, next, job[a])
      BY <1>1, <1>3, <1>5, <2>1, Completing DEF Complete, shelf
  <2>2. CASE Saved(p) /\ GoTo(a, "idle", job[a])
      BY <1>1, <1>3, <1>5, <2>2, Completing DEF Complete, shelf
  <2>3. CASE UNCHANGED pairs /\ GoTo(a, "idle", job[a])
      BY <1>1, <1>5, <2>3, Leaving DEF Complete
  <2>4. CASE UNCHANGED pairs /\ a = Phone /\ GoTo(a, "marking", job[a])
      BY <1>1, <1>5, <2>4, Leaving DEF Complete
  <2>. QED
      BY <1>4, <2>1, <2>2, <2>3, <2>4
<1>7. LocksTyped'
    BY <1>1, StoreTyped DEF Complete, EndEdit, IInv, LocksTyped, Typed
<1>8. FaultsTyped'
    BY PhoneAssumption DEF Complete, EndEdit, Fail, FaultsTyped, IInv, Typed
<1>. QED
    BY <1>2, <1>6, <1>7, <1>8 DEF IInv, Typed

\* A process ends.
LEMMA CrashStep ==
    ASSUME IInv, NEW a \in Actors, Crash(a)
    PROVE  IInv'
<1>1. UNCHANGED <<collection, media, pairs, audit>>
    BY DEF Crash
<1>2. CoinsTyped' /\ PairsTyped' /\ AuditTyped' /\ PairInv' /\ CoinInv'
    BY <1>1, Frames
<1>3. JobsTyped'
    BY DEF Crash, GoTo, IInv, JobsTyped, Steps, Typed
<1>4. FreshTyped'
    BY DEF Crash, FreshTyped, IInv, Typed
<1>5. ShelfTyped'
    BY DEF Crash, IInv, ShelfTyped, Typed
<1>6. LocksTyped'
    BY PhoneAssumption, <1>1, StoreTyped DEF Actors, Crash, GoTo, IInv,
        LocksTyped, Typed
<1>7. FaultsTyped'
    BY PhoneAssumption DEF Crash, Fail, FaultsTyped, IInv, Typed
<1>8. JobInv'
    BY DEF Crash, Ending, GoTo, IInv, JobInv, JobOf, JobsTyped, Typed
<1>9. Intents'
    BY DEF Busy, Crash, GoTo, IInv, Intended, Intents, JobsTyped, Saving,
        Typed
<1>10. OneJob'
    BY DEF Busy, Crash, GoTo, IInv, JobsTyped, OneJob, Saving, Typed
<1>11. AuditInv'
    BY DEF AuditInv, AuditOf, Audited, Crash, Drafting, Ending, GoTo, IInv,
        JobsTyped, Saving, Typed
<1>. QED
    BY <1>2, <1>3, <1>4, <1>5, <1>6, <1>7, <1>8, <1>9, <1>10, <1>11 DEF IInv,
        Typed

\* A process loads the collection.
LEMMA LoadStep ==
    ASSUME IInv, NEW a \in Actors, Load(a)
    PROVE  IInv'
<1>1. UNCHANGED <<collection, importLock, media, pairs, intakeLock, audit, auditLock, pc, job,
faults>>
    BY DEF Load, diary, intake
<1>2. CoinsTyped' /\ PairsTyped' /\ AuditTyped' /\ JobsTyped' /\ ShelfTyped'
    /\ LocksTyped' /\ FaultsTyped' /\ JobInv' /\ Intents' /\ OneJob' /\
    PairInv' /\ CoinInv' /\ AuditInv'
    BY <1>1, Frames
<1>3. FreshTyped'
    BY DEF FreshTyped, IInv, Load, Typed
<1>. QED
    BY <1>2, <1>3 DEF IInv, Typed

\* The locks left behind are removed.
LEMMA ClearLocksStep ==
    ASSUME IInv, ClearLocks
    PROVE  IInv'
<1>1. UNCHANGED <<collection, fresh, media, pairs, audit, pc, job, faults>>
    BY DEF ClearLocks
<1>2. CoinsTyped' /\ PairsTyped' /\ AuditTyped' /\ JobsTyped' /\ FreshTyped'
    /\ FaultsTyped' /\ JobInv' /\ Intents' /\ OneJob' /\ PairInv' /\ CoinInv'
    /\ AuditInv'
    BY <1>1, Frames
<1>3. ShelfTyped'
    BY DEF ClearLocks, IInv, ShelfTyped, Typed
<1>4. LocksTyped'
    BY PhoneAssumption, <1>1, StoreTyped DEF Actors, ClearLocks, IInv,
        LocksTyped, Typed
<1>. QED
    BY <1>2, <1>3, <1>4 DEF IInv, Typed

\* Nothing has been confirmed, saved or drafted when the program is first used.
LEMMA Initial == Init => IInv
<1>. SUFFICES ASSUME Init PROVE IInv
    OBVIOUS
<1>1. Typed
  <2>1. CoinsTyped /\ PairsTyped /\ AuditTyped
      BY DEF Init, CoinsTyped, PairsTyped, AuditTyped
  <2>2. JobsTyped /\ FreshTyped
      BY DEF Init, JobsTyped, FreshTyped, Steps
  <2>3. ShelfTyped /\ LocksTyped
      BY DEF Init, ShelfTyped, LocksTyped
  <2>4. FaultsTyped
      BY PhoneAssumption DEF Init, FaultsTyped
  <2>. QED
      BY <2>1, <2>2, <2>3, <2>4 DEF Typed
<1>2. JobInv /\ Intents /\ OneJob
    BY DEF Init, JobInv, JobOf, Intents, Intended, OneJob, Busy, Saving, Ending
<1>3. PairInv /\ CoinInv
    BY DEF Init, PairInv, CoinInv
<1>4. AuditInv
    BY DEF Init, AuditInv, Audited, Drafting, Ending, Saving, Actors
<1>. QED
    BY <1>1, <1>2, <1>3, <1>4 DEF IInv

\* Every step of the system keeps the invariant.
LEMMA Preserved == IInv /\ EInv /\ [Next]_vars => IInv'
<1>. SUFFICES ASSUME IInv, EInv, [Next]_vars PROVE IInv'
    OBVIOUS
<1>0. ASSUME NEW w \in Windows, NEW p \in Pairs, Seek(w, p) PROVE IInv'
    BY <1>0, LookedStep DEF Seek
<1>1. ASSUME NEW w \in Windows, Window(w) PROVE IInv'
    BY <1>0, <1>1, ConfirmPairStep, SwapStep, ReleasePairStep, ReviewStep, CancelStep, RecheckStep,
       ClearStep, ReserveUnidentifiedStep, EditCoinStep DEF Window, Pairing
<1>2. CASE Service
    BY <1>2, DraftStep, VerifyStep, BeginSaveStep, ReconcileEntryStep, CreateEntryStep, PackStep,
       RecordPersistedStep, ReopenStep, FinalizeStep, MarkStep DEF Service
<1>3. ASSUME NEW a \in Actors, Save(a) PROVE IInv'
    BY <1>3, ReserveStep, LockStep, CopyStep, PublishStep, RollBackStep, UnlockStep, LookStep,
       LoadStep DEF Save
<1>4. CASE UNCHANGED vars
    BY <1>4, Frames DEF vars, IInv, Typed
<1>5. ASSUME NEW w \in Windows, Reconcile(w) PROVE IInv'
  <2>1. w \in Actors /\ seen[w] # None
      BY <1>5 DEF Reconcile, Actors
  <2>2. seen[w] \in Pairs /\ SeenBy(w)
      BY <2>1 DEF EInv, EvidenceTyped, SeenInv
  <2>. QED
      BY <1>5, <2>2, ReconcileStep
<1>6. ASSUME NEW a \in Actors, Complete(a) PROVE IInv'
  <2>1. seen[a] # None
      BY <1>6 DEF Complete
  <2>. QED
      BY <1>6, <2>1, CompleteStep DEF EInv, SeenInv
<1>. QED
    BY <1>1, <1>2, <1>3, <1>4, <1>5, <1>6, CrashStep, ClearLocksStep DEF Next

-----------------------------------------------------------------------------
(* The evidence of a save, from the look at the collection to the write.   *)

SeenPairsStay == \A b \in Actors : seen[b] # None => pairs'[seen[b]] = pairs[seen[b]]
OthersStay(a) == \A b \in Actors : b # a => pc'[b] = pc[b] /\ job'[b] = job[b]
CoinsAsSaved == \A c \in Coins : collection'[c] # None => published[c] = collection'[c].roles
MediaStay == \A c \in Coins : media'[c] = "none" => media[c] = "none"

\* A step of an actor that has found nothing, which publishes no coin.
LEMMA Kept ==
    ASSUME IInv, EInv, NEW a \in Actors, seen[a] = None, UNCHANGED <<seen, published>>,
           CoinsAsSaved, MediaStay, SeenPairsStay, OthersStay(a),
           pc'[a] \in Unsent => published[job'[a].coin] = None
    PROVE  EInv'
<1>1. EvidenceTyped'
    BY DEF EInv, EvidenceTyped
<1>2. SeenInv'
  <2>. SUFFICES ASSUME NEW b \in Actors, seen[b] # None PROVE SeenBy(b)'
      BY DEF SeenInv
  <2>1. SeenBy(b) /\ pc'[b] = pc[b] /\ job'[b] = job[b] /\ pairs'[seen[b]] = pairs[seen[b]]
      BY DEF EInv, SeenInv, OthersStay, SeenPairsStay
  <2>. QED
      BY <2>1 DEF SeenBy, Has
<1>3. PublishedInv'
    BY DEF EInv, PublishedInv, CoinsAsSaved, MediaStay, OthersStay
<1>. QED
    BY <1>1, <1>2, <1>3 DEF EInv

\* The same of a step that only moves the actor, and perhaps edits pairs.
LEMMA Moved ==
    ASSUME IInv, EInv, NEW a \in Actors, seen[a] = None,
           UNCHANGED <<collection, published, media, seen>>, SeenPairsStay,
           NEW step \in Steps, NEW j, GoTo(a, step, j),
           step \in Unsent => published[j.coin] = None
    PROVE  EInv'
<1>1. pc'[a] = step /\ (step # "idle" => job'[a] = j) /\ OthersStay(a)
    BY DEF GoTo, IInv, Typed, JobsTyped, OthersStay
<1>2. CoinsAsSaved /\ MediaStay
    BY DEF EInv, PublishedInv, CoinsAsSaved, MediaStay
<1>. QED
    BY <1>1, <1>2, Kept DEF Unsent

LEMMA Untouched == UNCHANGED pairs => SeenPairsStay
BY DEF SeenPairsStay

\* An edit of another pair of an intake whose lock nobody holds.
LEMMA OtherPairs ==
    ASSUME EInv, NEW a \in Actors, ~Held(Store(a)), NEW p \in Pairs,
           pairs[p] = None \/ pairs[p].store = Store(a),
           \A q \in Pairs : q # p => pairs'[q] = pairs[q]
    PROVE  SeenPairsStay
<1>. SUFFICES ASSUME NEW b \in Actors, seen[b] # None PROVE pairs'[seen[b]] = pairs[seen[b]]
    BY DEF SeenPairsStay
<1>1. SeenBy(b) /\ seen[b] \in Pairs
    BY DEF EInv, SeenInv, EvidenceTyped
<1>2. Store(b) # Store(a)
    BY DEF Held
<1>. QED
    BY <1>1, <1>2 DEF SeenBy, Has

\* An edit of the intake by a call.
LEMMA EditKept ==
    ASSUME IInv, EInv, NEW a \in Actors, seen[a] = None, UNCHANGED shelf,
           NEW next \in Steps, NEW j, NEW error \in {"idle", "marking"}, NEW p \in Pairs,
           NEW change \in BOOLEAN, EditIntake(a, change, next, j, error),
           change => /\ pairs[p] = None \/ pairs[p].store = Store(a)
                     /\ \A q \in Pairs : q # p => pairs'[q] = pairs[q],
           next \in Unsent => published[j.coin] = None
    PROVE  EInv'
<1>1. \/ GoTo(a, "idle", job[a]) \/ GoTo(a, error, job[a]) \/ GoTo(a, next, j)
    BY DEF EditIntake, EndEdit
<1>2. UNCHANGED seen /\ (UNCHANGED pairs \/ (~Held(Store(a)) /\ change))
    BY DEF EditIntake, EndEdit
<1>3. SeenPairsStay
    BY <1>2, OtherPairs, Untouched
<1>4. "idle" \in Steps /\ "marking" \in Steps /\ "idle" \notin Unsent /\ "marking" \notin Unsent
    BY DEF Steps, Unsent
<1>5. UNCHANGED <<collection, published, media, seen>>
    BY <1>2 DEF shelf
<1>6. CASE GoTo(a, next, j)
    BY <1>3, <1>5, <1>6, Moved
<1>7. CASE GoTo(a, "idle", job[a])
    BY <1>3, <1>4, <1>5, <1>7, Moved
<1>8. CASE GoTo(a, error, job[a])
    BY <1>3, <1>4, <1>5, <1>8, Moved
<1>. QED
    BY <1>1, <1>6, <1>7, <1>8

\* The dialog's edits of a pair.
LEMMA DialogKept ==
    ASSUME IInv, EInv, NEW w \in Windows, seen[w] = None, NEW p \in Pairs,
           \/ \E r \in Roles : ConfirmPair(w, p, r)
           \/ Swap(w, p) \/ ReleasePair(w, p)
    PROVE  EInv'
<1>1. UNCHANGED <<shelf, seen, pc, job>> /\ ~Held("desktop")
    BY DEF ConfirmPair, Swap, ReleasePair, Dialog
<1>2. w \in Actors /\ Store(w) = "desktop"
    BY PhoneAssumption DEF Actors, Store
<1>3. /\ pairs[p] = None \/ pairs[p].store = "desktop"
      /\ \A q \in Pairs : q # p => pairs'[q] = pairs[q]
    BY <1>2 DEF ConfirmPair, Swap, ReleasePair, Dialog, NewPair, Ready, Has, IInv, Typed, PairsTyped
<1>4. SeenPairsStay
    BY <1>1, <1>2, <1>3, OtherPairs
<1>5. CoinsAsSaved /\ MediaStay /\ OthersStay(w)
    BY <1>1 DEF EInv, PublishedInv, CoinsAsSaved, MediaStay, OthersStay, shelf
<1>6. pc'[w] \in Unsent => published[job'[w].coin] = None
    BY <1>1, <1>2 DEF EInv, PublishedInv
<1>. QED
    BY <1>1, <1>2, <1>4, <1>5, <1>6, Kept DEF shelf

\* A reserved coin has never been saved.
LEMMA FreshCoin ==
    ASSUME EInv, NEW c \in Coins, media[c] = "none"
    PROVE  published[c] = None
BY DEF EInv, PublishedInv

LEMMA ReserveKept ==
    ASSUME IInv, EInv, NEW a \in Actors, seen[a] = None, NEW c \in Coins,
           Reserve(a, c) \/ (a # Phone /\ ReserveUnidentified(a, c))
    PROVE  EInv'
<1>. DEFINE p == job[a].pair
            j == [job[a] EXCEPT !.coin = c]
<1>1. job[a] \in Jobs /\ p \in Pairs /\ pairs[p] # None /\ pairs[p].store = Store(a)
    BY DEF Reserve, ReserveUnidentified, IInv, Typed, JobsTyped, JobInv, JobOf, Jobs
<1>2. j.coin = c /\ published[c] = None
    BY <1>1, FreshCoin DEF Jobs, Reserve, ReserveUnidentified
<1>3. \/ \E blank \in BOOLEAN : EditIntake(a, Intent(a, c, blank), "reserved", j, Failing(a))
      \/ Blocked(a)
    BY DEF Reserve, ReserveUnidentified, Failing
<1>4. UNCHANGED shelf /\ Failing(a) \in {"idle", "marking"} /\ "reserved" \in Steps
    BY DEF Reserve, ReserveUnidentified, Failing, Steps, Saving
<1>5. ASSUME NEW blank \in BOOLEAN, EditIntake(a, Intent(a, c, blank), "reserved", j, Failing(a))
      PROVE  EInv'
  <2>1. Intent(a, c, blank) \in BOOLEAN
      BY DEF Intent
  <2>2. Intent(a, c, blank) => \A q \in Pairs : q # p => pairs'[q] = pairs[q]
      BY <1>1 DEF Intent, IInv, Typed, PairsTyped
  <2>. QED
      BY <1>1, <1>2, <1>4, <1>5, <2>1, <2>2, EditKept
<1>6. CASE Blocked(a)
    BY <1>4, <1>6, Moved, Untouched DEF Blocked, intake, shelf, Steps, Unsent
<1>. QED
    BY <1>3, <1>5, <1>6

LEMMA ClearKept ==
    ASSUME IInv, EInv, NEW w \in Windows, seen[w] = None, Clear(w)
    PROVE  EInv'
<1>. DEFINE p == job[w].pair
            change == pairs' = [pairs EXCEPT ![p].state = "READY", ![p].coin = None]
<1>1. w \in Actors /\ job[w] \in Jobs /\ p \in Pairs /\ pairs[p] # None /\ pairs[p].store = Store(w)
    BY DEF Clear, IInv, Typed, JobsTyped, JobInv, JobOf, Jobs, Actors
<1>2. UNCHANGED shelf /\ "idle" \in Steps /\ "idle" \notin Unsent
    BY DEF Clear, Steps, Unsent
<1>3. \/ EditIntake(w, change, "idle", None, "idle")
      \/ GoTo(w, "idle", None) /\ UNCHANGED intake
    BY DEF Clear
<1>4. CASE EditIntake(w, change, "idle", None, "idle")
  <2>1. change \in BOOLEAN
      OBVIOUS
  <2>2. change => \A q \in Pairs : q # p => pairs'[q] = pairs[q]
      BY <1>1 DEF IInv, Typed, PairsTyped
  <2>. HIDE DEF change
  <2>. QED
      BY <1>1, <1>2, <1>4, <2>1, <2>2, EditKept
<1>5. CASE GoTo(w, "idle", None) /\ UNCHANGED intake
    BY <1>1, <1>2, <1>5, Moved, Untouched DEF intake, shelf
<1>. QED
    BY <1>3, <1>4, <1>5

LEMMA DraftKept ==
    ASSUME IInv, EInv, seen[Phone] = None, NEW p \in Pairs, NEW r \in Roles, Draft(p, r)
    PROVE  EInv'
<1>1. Phone \in Actors /\ UNCHANGED shelf /\ "drafted" \in Steps /\ "drafted" \notin Unsent
    BY DEF Draft, Actors, Steps, Unsent
<1>2. NewPair(Phone, p, r) \in BOOLEAN
    BY DEF NewPair
<1>3. NewPair(Phone, p, r) =>
          pairs[p] = None /\ \A q \in Pairs : q # p => pairs'[q] = pairs[q]
    BY DEF NewPair, IInv, Typed, PairsTyped
<1>. QED
    BY <1>1, <1>2, <1>3, EditKept DEF Draft

\* The steps of a window that only move it.
LEMMA WindowMoved ==
    ASSUME IInv, EInv, NEW w \in Windows, seen[w] = None,
           \/ \E p \in Pairs, k \in {"visual", "unidentified"} : Review(w, p, k)
           \/ Cancel(w) \/ Recheck(w)
    PROVE  EInv'
<1>1. w \in Actors /\ UNCHANGED <<shelf, pairs, seen>>
    BY DEF Actors, Review, Cancel, Recheck, intake
<1>2. \E step \in {"review", "idle", "recheck"} : \E j : GoTo(w, step, j)
    BY DEF Review, Cancel, Recheck
<1>3. \A step \in {"review", "idle", "recheck"} : step \in Steps /\ step \notin Unsent
    BY DEF Steps, Unsent
<1>. QED
    BY <1>1, <1>2, <1>3, Moved, Untouched DEF shelf

\* The steps of the phone service that do not edit the intake.
LEMMA ServiceMoved ==
    ASSUME IInv, EInv, seen[Phone] = None,
           \/ \E p \in Pairs : Verify(p) \/ BeginSave(p) \/ ReconcileEntry(p)
           \/ CreateEntry \/ Pack \/ RecordPersisted \/ Reopen \/ Finalize \/ Mark
    PROVE  EInv'
<1>1. Phone \in Actors /\ UNCHANGED <<shelf, pairs, seen>>
    BY DEF Actors, Verify, BeginSave, ReconcileEntry, CreateEntry, Pack, RecordPersisted, Reopen,
       Finalize, Mark, intake
<1>. DEFINE Later == {"idle", "began", "packed", "marking", "recorded", "completed"}
<1>2. \E step \in Later : \E j : GoTo(Phone, step, j)
    BY DEF Verify, BeginSave, ReconcileEntry, CreateEntry, Pack, RecordPersisted, Reopen,
       Finalize, Mark, EditAudit
<1>3. \A step \in Later : step \in Steps /\ step \notin Unsent
    BY DEF Steps, Unsent
<1>. HIDE DEF Later
<1>. QED
    BY <1>1, <1>2, <1>3, Moved, Untouched DEF shelf

\* The save, up to the write of the collection and after it.
LEMMA SaveKept ==
    ASSUME IInv, EInv, NEW a \in Actors, seen[a] = None,
           Lock(a) \/ Copy(a) \/ RollBack(a) \/ Unlock(a) \/ Load(a)
    PROVE  EInv'
<1>1. UNCHANGED <<collection, published, pairs, seen>> /\ SeenPairsStay
    BY Untouched DEF Lock, Copy, RollBack, Unlock, Load, intake
<1>2. CoinsAsSaved
    BY <1>1 DEF EInv, PublishedInv, CoinsAsSaved
<1>3. MediaStay
    BY DEF Lock, Copy, RollBack, Unlock, Load, MediaStay, IInv, Typed, ShelfTyped
<1>4. OthersStay(a)
    BY DEF Lock, Copy, RollBack, Unlock, Load, OthersStay, GoTo, IInv, Typed, JobsTyped
<1>5. pc'[a] \in Unsent => pc[a] \in Unsent /\ job'[a] = job[a]
  <2>1. CASE Lock(a)
      BY <2>1 DEF Lock, GoTo, IInv, Typed, JobsTyped, Unsent, Handled, AfterVisual,
         AfterUnidentified, AfterPhone
  <2>2. CASE Copy(a) \/ RollBack(a)
      BY <2>2 DEF Copy, RollBack, GoTo, IInv, Typed, JobsTyped, Unsent
  <2>3. CASE Unlock(a)
      BY <2>3 DEF Unlock, GoTo, IInv, Typed, JobsTyped, Unsent, Handled, AfterVisual,
         AfterUnidentified, AfterPhone
  <2>4. CASE Load(a)
      BY <2>4 DEF Load
  <2>. QED
      BY <2>1, <2>2, <2>3, <2>4
<1>6. pc'[a] \in Unsent => published[job'[a].coin] = None
    BY <1>5 DEF EInv, PublishedInv
<1>. QED
    BY <1>1, <1>2, <1>3, <1>4, <1>6, Kept

\* A coin is edited or deleted: neither changes the roles it was saved with.
LEMMA EditCoinKept ==
    ASSUME IInv, EInv, NEW w \in Windows, seen[w] = None, NEW c \in Coins, EditCoin(w, c)
    PROVE  EInv'
<1>1. w \in Actors /\ UNCHANGED <<published, media, pairs, seen, pc, job>>
    BY DEF Actors, EditCoin, intake
<1>2. CoinsAsSaved
  <2>1. collection[c] \in Items
      BY DEF EditCoin, IInv, Typed, CoinsTyped
  <2>2. /\ \A d \in Coins : d # c => collection'[d] = collection[d]
        /\ collection'[c] = None \/ collection'[c].roles = collection[c].roles
      BY <2>1, ItemEffect DEF EditCoin, IInv, Typed, CoinsTyped
  <2>3. collection[c] # None
      BY DEF EditCoin
  <2>. QED
      BY <2>2, <2>3 DEF CoinsAsSaved, EInv, PublishedInv
<1>3. MediaStay /\ OthersStay(w) /\ SeenPairsStay
    BY <1>1 DEF MediaStay, OthersStay, SeenPairsStay
<1>. QED
    BY <1>1, <1>2, <1>3, Kept DEF EInv, PublishedInv

\* The coin is saved: nobody had found it, and no other call is about to save it.
LEMMA PublishKept ==
    ASSUME IInv, EInv, NEW a \in Actors, seen[a] = None, Publish(a)
    PROVE  EInv'
<1>. DEFINE c == job[a].coin
<1>1. /\ c \in Coins /\ job[a] \in Jobs /\ published[c] = None /\ media[c] = "copied"
      /\ pairs[job[a].pair].coin = c /\ job[a].pair \in Pairs
    BY DEF Publish, IInv, Intents, Intended, Busy, Saving, Typed, JobsTyped, Jobs, EInv,
       PublishedInv, Unsent, JobInv, JobOf
<1>2. UNCHANGED <<media, pairs, seen>> /\ pc[a] = "copied" /\ pc'[a] \in {"release", "failed"}
    BY DEF Publish, intake, GoTo, IInv, Typed, JobsTyped
<1>3. OthersStay(a)
    BY DEF Publish, GoTo, OthersStay, IInv, Typed, JobsTyped
<1>4. CASE UNCHANGED <<collection, published>>
  <2>1. CoinsAsSaved /\ MediaStay /\ SeenPairsStay
      BY <1>2, <1>4 DEF CoinsAsSaved, MediaStay, SeenPairsStay, EInv, PublishedInv
  <2>. QED
      BY <1>2, <1>3, <1>4, <2>1, Kept DEF Unsent
<1>5. CASE /\ collection' = [collection EXCEPT ![c] = [roles |-> job[a].roles, edited |-> FALSE]]
           /\ published' = [published EXCEPT ![c] = job[a].roles]
  <2>1. job[a].roles \in Roles /\ job[a].roles # None
      BY <1>1, PhoneAssumption DEF Jobs
  <2>2. EvidenceTyped'
      BY <1>1, <1>2, <1>5, <2>1 DEF EInv, EvidenceTyped
  <2>3. SeenInv'
    <3>. SUFFICES ASSUME NEW b \in Actors, seen[b] # None PROVE SeenBy(b)'
        BY <1>2 DEF SeenInv
    <3>1. SeenBy(b) /\ pc'[b] = pc[b] /\ job'[b] = job[b] /\ seen[b] \in Pairs
        BY <1>3 DEF EInv, SeenInv, EvidenceTyped, OthersStay
    <3>2. /\ pairs[seen[b]] \in Entries /\ pairs[seen[b]] # None
          /\ pairs[seen[b]].coin \in Coins /\ pairs[seen[b]].roles # None
        BY <3>1, PhoneAssumption DEF SeenBy, Has, IInv, Typed, PairsTyped, Entries
    <3>3. pairs[seen[b]].coin # c
        BY <1>1, <3>1, <3>2 DEF SeenBy
    <3>4. published'[pairs[seen[b]].coin] = published[pairs[seen[b]].coin]
        BY <1>5, <3>2, <3>3 DEF EInv, EvidenceTyped
    <3>. QED
        BY <1>2, <3>1, <3>4 DEF SeenBy, Has
  <2>4. PublishedInv'
    <3>1. \A d \in Coins : d # c => collection'[d] = collection[d] /\ published'[d] = published[d]
        BY <1>5 DEF EInv, EvidenceTyped, IInv, Typed, CoinsTyped
    <3>2. collection'[c].roles = job[a].roles /\ published'[c] = job[a].roles
        BY <1>1, <1>5 DEF EInv, EvidenceTyped, IInv, Typed, CoinsTyped
    <3>3. \A b \in Actors : pc'[b] \in Unsent => published'[job'[b].coin] = None
      <4>. SUFFICES ASSUME NEW b \in Actors, pc'[b] \in Unsent
           PROVE  published'[job'[b].coin] = None
          OBVIOUS
      <4>1. b # a /\ pc[b] \in Unsent /\ job'[b] = job[b]
          BY <1>2, <1>3 DEF Unsent, OthersStay
      <4>2. /\ job[b].coin \in Coins /\ job[b].pair \in Pairs /\ pairs[job[b].pair] # None
            /\ pairs[job[b].pair].coin = job[b].coin
          BY <4>1 DEF IInv, Intents, Intended, Busy, Saving, Unsent, Typed, JobsTyped, Jobs,
             JobInv, JobOf
      <4>3. job[b].pair # job[a].pair /\ pairs[job[a].pair] # None
          BY <1>2, <4>1 DEF IInv, OneJob, Busy, Saving, Unsent, JobInv, JobOf
      <4>4. job[b].coin # c
          BY <1>1, <4>2, <4>3, PhoneAssumption DEF IInv, PairInv, Apart
      <4>. QED
          BY <3>1, <4>1, <4>2, <4>4 DEF EInv, PublishedInv
    <3>. QED
        BY <1>1, <1>2, <3>1, <3>2, <3>3 DEF EInv, PublishedInv
  <2>. QED
      BY <2>2, <2>3, <2>4 DEF EInv
<1>. QED
    BY <1>4, <1>5 DEF Publish

\* An actor finds its pair's coin on disk.
LEMMA Found ==
    ASSUME IInv, EInv, NEW a \in Actors, NEW p \in Pairs, Completable(a, p),
           UNCHANGED <<shelf, pairs, pc, job>>, seen' = [seen EXCEPT ![a] = p],
           pc[a] \in {"idle", "review", "recorded", "persisted"},
           pc[a] \in {"recorded", "persisted"} => p = job[a].pair
    PROVE  EInv'
<1>1. pairs[p] \in Entries /\ pairs[p] # None /\ pairs[p].coin # None /\ pairs[p].coin \in Coins
    BY PhoneAssumption DEF Completable, Has, IInv, Typed, PairsTyped, Entries, PairInv, PairOf,
       Untried
<1>2. published[pairs[p].coin] = pairs[p].roles
    BY <1>1 DEF Completable, Matches, EInv, PublishedInv
<1>3. seen'[a] = p /\ \A b \in Actors : b # a => seen'[b] = seen[b]
    BY DEF EInv, EvidenceTyped
<1>4. EvidenceTyped'
    BY DEF EInv, EvidenceTyped, shelf
<1>5. SeenInv'
  <2>1. SeenBy(a)'
      BY <1>1, <1>2, <1>3 DEF SeenBy, Has, Completable, shelf
  <2>2. ASSUME NEW b \in Actors, b # a, seen[b] # None PROVE SeenBy(b)'
      BY <1>3, <2>2 DEF EInv, SeenInv, SeenBy, Has, shelf
  <2>. QED
      BY <1>3, <2>1, <2>2 DEF SeenInv
<1>6. PublishedInv'
    BY DEF EInv, PublishedInv, shelf
<1>. QED
    BY <1>4, <1>5, <1>6 DEF EInv

LEMMA LookKept ==
    ASSUME IInv, EInv, NEW a \in Actors, seen[a] = None, Look(a)
    PROVE  EInv'
<1>. DEFINE p == job[a].pair
<1>1. p \in Pairs /\ UNCHANGED shelf
    BY DEF Look, IInv, Typed, JobsTyped, JobInv, JobOf, Jobs
<1>2. Failing(a) \in {"idle", "marking"} /\ Failing(a) \in Steps /\ Failing(a) \notin Unsent
      /\ "idle" \in Steps /\ "idle" \notin Unsent
    BY DEF Failing, Steps, Unsent
<1>3. CASE /\ Completable(a, p) /\ seen' = [seen EXCEPT ![a] = p]
           /\ UNCHANGED <<pairs, intakeLock, pc, job, faults>>
    BY <1>1, <1>3, Found DEF Look
<1>4. CASE Blocked(a)
    BY <1>1, <1>2, <1>4, Moved, Untouched DEF Blocked, intake, shelf
<1>5. CASE EditIntake(a, FALSE, "idle", None, Failing(a))
    BY <1>1, <1>2, <1>5, EditKept
<1>. QED
    BY <1>3, <1>4, <1>5 DEF Look

LEMMA SeekKept ==
    ASSUME IInv, EInv, NEW w \in Windows, NEW p \in Pairs, Seek(w, p)
    PROVE  EInv'
BY Found DEF Seek, Actors

\* The actor that has found a coin writes, or ends.
LEMMA Forgotten ==
    ASSUME IInv, EInv, NEW a \in Actors, Forget(a), UNCHANGED <<collection, published, media>>,
           \/ UNCHANGED pairs
           \/ seen[a] # None /\ Saved(seen[a]),
           OthersStay(a), pc'[a] \in Unsent => pc[a] \in Unsent /\ job'[a] = job[a]
    PROVE  EInv'
<1>1. seen'[a] = None /\ \A b \in Actors : b # a => seen'[b] = seen[b]
    BY DEF Forget, EInv, EvidenceTyped
<1>2. EvidenceTyped'
    BY DEF Forget, EInv, EvidenceTyped
<1>3. \A q \in Pairs : pairs[q] # None =>
          /\ pairs'[q] # None /\ pairs'[q].coin = pairs[q].coin
          /\ pairs'[q].store = pairs[q].store /\ pairs'[q].roles = pairs[q].roles
          /\ pairs'[q].state \in {pairs[q].state, "SAVED"}
  <2>1. CASE UNCHANGED pairs
      BY <2>1
  <2>2. CASE seen[a] # None /\ Saved(seen[a])
    <3>1. seen[a] \in Pairs /\ pairs[seen[a]] # None
        BY <2>2 DEF EInv, EvidenceTyped, SeenInv, SeenBy, Has
    <3>2. PairsTyped
        BY DEF IInv, Typed
    <3>. QED
        BY <2>2, <3>1, <3>2, SavedEffect
  <2>. QED
      BY <2>1, <2>2
<1>4. SeenInv'
  <2>. SUFFICES ASSUME NEW b \in Actors, b # a, seen[b] # None PROVE SeenBy(b)'
      BY <1>1 DEF SeenInv
  <2>1. SeenBy(b) /\ seen[b] \in Pairs /\ pc'[b] = pc[b] /\ job'[b] = job[b]
      BY DEF EInv, EvidenceTyped, SeenInv, OthersStay
  <2>2. pairs[seen[b]] # None
      BY <2>1 DEF SeenBy, Has
  <2>. QED
      BY <1>1, <1>3, <2>1, <2>2 DEF SeenBy, Has
<1>5. PublishedInv'
    BY DEF EInv, PublishedInv, OthersStay
<1>. QED
    BY <1>2, <1>4, <1>5 DEF EInv

LEMMA WrittenKept ==
    ASSUME IInv, EInv,
           \/ \E w \in Windows : Reconcile(w)
           \/ \E a \in Actors : Complete(a) \/ Crash(a)
    PROVE  EInv'
<1>1. ASSUME NEW w \in Windows, Reconcile(w) PROVE EInv'
  <2>1. w \in Actors /\ OthersStay(w) /\ UNCHANGED <<pc, job>>
      BY <1>1 DEF Reconcile, Actors, OthersStay
  <2>. QED
      BY <1>1, <2>1, Forgotten DEF Reconcile, shelf
<1>2. ASSUME NEW a \in Actors, Complete(a) PROVE EInv'
  <2>1. OthersStay(a) /\ pc'[a] \in {"completed", "idle", "marking"}
      BY <1>2 DEF Complete, EndEdit, Failing, GoTo, OthersStay, IInv, Typed, JobsTyped
  <2>2. UNCHANGED <<collection, published, media>>
        /\ (UNCHANGED pairs \/ (seen[a] # None /\ Saved(seen[a])))
      BY <1>2 DEF Complete, EndEdit, shelf
  <2>. QED
      BY <1>2, <2>1, <2>2, Forgotten DEF Complete, Unsent
<1>3. ASSUME NEW a \in Actors, Crash(a) PROVE EInv'
  <2>1. OthersStay(a) /\ pc'[a] = "idle"
      BY <1>3 DEF Crash, GoTo, OthersStay, IInv, Typed, JobsTyped
  <2>. QED
      BY <1>3, <2>1, Forgotten DEF Crash, Unsent
<1>. QED
    BY <1>1, <1>2, <1>3

\* Nothing was saved or found when the program is first used.
LEMMA InitialEvidence == Init => EInv
BY DEF Init, EInv, EvidenceTyped, SeenInv, PublishedInv, Unsent

LEMMA EvidenceKept == IInv /\ EInv /\ [Next]_vars => EInv'
<1>. SUFFICES ASSUME IInv, EInv, [Next]_vars PROVE EInv'
    OBVIOUS
<1>1. ASSUME NEW w \in Windows, seen[w] = None, Window(w) PROVE EInv'
  <2>1. w \in Actors /\ w # Phone
      BY PhoneAssumption DEF Actors
  <2>. QED
      BY <1>1, <2>1, DialogKept, SeekKept, WindowMoved, ClearKept, ReserveKept, EditCoinKept
         DEF Window, Pairing
<1>2. CASE seen[Phone] = None /\ Service
    BY <1>2, DraftKept, ServiceMoved DEF Service
<1>3. ASSUME NEW a \in Actors, seen[a] = None, Save(a) PROVE EInv'
    BY <1>3, ReserveKept, SaveKept, PublishKept, LookKept DEF Save
<1>4. CASE ClearLocks \/ UNCHANGED vars
  <2>1. UNCHANGED <<collection, published, media, pairs, seen, pc, job>>
      BY <1>4 DEF ClearLocks, vars
  <2>. QED
      BY <2>1 DEF EInv, EvidenceTyped, SeenInv, SeenBy, Has, PublishedInv
<1>. QED
    BY <1>1, <1>2, <1>3, <1>4, WrittenKept DEF Next

\* IInv and EInv are an inductive invariant of the phone entry.
THEOREM Inductive == Spec => [](IInv /\ EInv)
BY Initial, Preserved, InitialEvidence, EvidenceKept, PTL DEF Spec

\* Every variable keeps its type: the records of the three files are whole.
THEOREM TypeCorrect == Spec => []TypeOK
<1>1. IInv /\ EInv => TypeOK
    BY Types DEF IInv, EInv
<1>. QED
    BY <1>1, Inductive, PTL

\* Two coins of the collection are never made of the same photo, whichever of
\* the windows and the phone saved them and whatever failed.
THEOREM PhotosMakeOneCoin == Spec => []OneCoinPerPhoto
<1>1. ASSUME IInv PROVE OneCoinPerPhoto
  <2>. SUFFICES ASSUME NEW c \in Coins, NEW d \in Coins, c # d,
                       collection[c] # None, collection[d] # None
       PROVE  PhotosOf(collection[c].roles) \cap PhotosOf(collection[d].roles) = {}
      BY DEF OneCoinPerPhoto, PhotosOf
  <2>1. PICK p \in Pairs : CoinOf(c, p)
      BY <1>1 DEF IInv, CoinInv
  <2>2. PICK q \in Pairs : CoinOf(d, q)
      BY <1>1 DEF IInv, CoinInv
  <2>3. /\ PhotosOf(collection[c].roles) = PhotosOf(pairs[p].roles)
        /\ PhotosOf(collection[d].roles) = PhotosOf(pairs[q].roles)
        /\ pairs[p] # None /\ pairs[q] # None /\ p # q
        /\ pairs[p].coin # None /\ pairs[q].coin # None
      BY <2>1, <2>2, PhoneAssumption DEF CoinOf
  <2>4. PairOf(p) /\ PairOf(q) /\ Apart(p, q)
      BY <1>1, <2>3 DEF IInv, PairInv
  <2>5. pairs[p].state # "released" /\ pairs[q].state # "released"
      BY <2>3, <2>4 DEF PairOf, Untried
  <2>6. CASE pairs[p].store = pairs[q].store
      BY <2>3, <2>4, <2>5, <2>6 DEF Apart, Disjoint
  <2>7. CASE pairs[p].store # pairs[q].store
    <3>1. pairs[p].store \in Stores /\ pairs[q].store \in Stores
        BY <1>1, <2>3 DEF IInv, Typed, PairsTyped, Entries
    <3>2. AlbumOf(pairs[p].store) \cap AlbumOf(pairs[q].store) = {}
        BY <2>7, <3>1, PhoneAssumption DEF AlbumOf, Stores
    <3>. QED
        BY <2>3, <2>4, <3>2 DEF PairOf, InAlbum
  <2>. QED
      BY <2>6, <2>7
<1>. QED
    BY <1>1, Inductive, PTL

\* While a save may still publish its coin, its pair carries that intent and no
\* other, so nobody can save the pair again or take it apart.
THEOREM IntentsStand == Spec => []IntentStands
<1>1. IInv => IntentStands
    BY DEF IInv, Intents, Intended, Busy, IntentStands
<1>. QED
    BY <1>1, Inductive, PTL

\* A coin in the collection keeps its managed photos whatever its save reported.
THEOREM CoinsKeepPhotos == Spec => []CoinsHavePhotos
<1>1. IInv => CoinsHavePhotos
    BY DEF IInv, CoinInv, CoinsHavePhotos
<1>. QED
    BY <1>1, Inductive, PTL

\* What the audit says of a draft is what the intake says of its pair.
THEOREM AuditTrue == Spec => []AuditAgrees
<1>1. IInv => AuditAgrees
    BY DEF IInv, AuditInv, AuditOf, AuditAgrees
<1>. QED
    BY <1>1, Inductive, PTL

\* What SavedOnEvidence says of one step.
Evidence(p) ==
    pairs[p] # None =>
        /\ pairs[p].state = "SAVED" => pairs'[p].state = "SAVED"
        /\ pairs[p].state # "SAVED" /\ pairs'[p].state = "SAVED" =>
               pairs[p].coin # None /\ published[pairs[p].coin] = pairs'[p].roles

\* A change of one pair that is not saved and does not become so.
LEMMA NotSaved ==
    ASSUME NEW p \in Pairs, \A q \in Pairs : q # p => pairs'[q] = pairs[q],
           pairs[p] # None => pairs[p].state # "SAVED" /\ pairs'[p].state # "SAVED"
    PROVE  \A q \in Pairs : Evidence(q)
BY DEF Evidence

\* complete writes SAVED, by a window, by the phone or in the dialog.
LEMMA Proved ==
    ASSUME IInv, EInv, NEW a \in Actors, seen[a] # None, Saved(seen[a])
    PROVE  \A q \in Pairs : Evidence(q)
<1>1. seen[a] \in Pairs /\ SeenBy(a)
    BY DEF EInv, EvidenceTyped, SeenInv
<1>2. pairs[seen[a]] # None /\ PairsTyped
    BY <1>1 DEF SeenBy, Has, IInv, Typed
<1>3. /\ \A q \in Pairs : q # seen[a] => pairs'[q] = pairs[q]
      /\ pairs'[seen[a]].state = "SAVED" /\ pairs'[seen[a]].roles = pairs[seen[a]].roles
    BY <1>1, <1>2, SavedEffect
<1>. QED
    BY <1>1, <1>3 DEF Evidence, SeenBy

\* The steps of a window's dialog.
LEMMA PairingEvident ==
    ASSUME IInv, NEW w \in Windows, Pairing(w)
    PROVE  \A q \in Pairs : Evidence(q)
<1>1. ASSUME NEW p \in Pairs, NEW r \in Roles, ConfirmPair(w, p, r)
      PROVE  \A q \in Pairs : Evidence(q)
  <2>1. NewPair(w, p, r)
      BY <1>1 DEF ConfirmPair, Dialog
  <2>. QED
      BY <2>1, NewPairEffect, NotSaved DEF IInv, Typed, Actors
<1>2. ASSUME NEW p \in Pairs, Swap(w, p) PROVE \A q \in Pairs : Evidence(q)
  <2>1. /\ \A q \in Pairs : q # p => pairs'[q] = pairs[q]
        /\ pairs[p].state = "READY" /\ pairs'[p].state = "READY"
      BY <1>2, PhoneAssumption
         DEF Swap, Dialog, Ready, Has, IInv, Typed, PairsTyped, Entries
  <2>. QED
      BY <2>1, NotSaved
<1>3. ASSUME NEW p \in Pairs, ReleasePair(w, p) PROVE \A q \in Pairs : Evidence(q)
  <2>1. /\ \A q \in Pairs : q # p => pairs'[q] = pairs[q]
        /\ pairs[p].state = "READY" /\ pairs'[p].state = "released"
      BY <1>3, PhoneAssumption
         DEF ReleasePair, Dialog, Ready, Has, IInv, Typed, PairsTyped, Entries
  <2>. QED
      BY <2>1, NotSaved
<1>4. ASSUME NEW p \in Pairs, Seek(w, p) PROVE \A q \in Pairs : Evidence(q)
    BY <1>4 DEF Seek, Evidence
<1>5. ASSUME NEW p \in Pairs, NEW k \in {"visual", "unidentified"}, Review(w, p, k)
      PROVE  \A q \in Pairs : Evidence(q)
    BY <1>5 DEF Review, intake, Evidence
<1>. QED
    BY <1>1, <1>2, <1>3, <1>4, <1>5 DEF Pairing

\* The edits of the intake by the calls.
LEMMA IntakeEvident ==
    ASSUME IInv, NEW a \in Actors
    PROVE  \/ \E c \in Coins : Reserve(a, c) \/ ReserveUnidentified(a, c)
           \/ Clear(a) \/ Look(a) \/ \E p \in Pairs, r \in Roles : a = Phone /\ Draft(p, r)
           => \A q \in Pairs : Evidence(q)
<1>. DEFINE p == job[a].pair
<1>0. UNCHANGED pairs => \A q \in Pairs : Evidence(q)
    BY DEF Evidence
<1>1. pc[a] # "idle" => job[a] # None /\ job[a] \in Jobs /\ p \in Pairs
    BY DEF IInv, Typed, JobsTyped, Jobs, JobInv, JobOf
<1>2. ASSUME NEW c \in Coins, NEW blank \in BOOLEAN, pc[a] # "idle",
             Ready(a, p), Intent(a, c, blank)
      PROVE  \A q \in Pairs : Evidence(q)
  <2>1. /\ \A q \in Pairs : q # p => pairs'[q] = pairs[q]
        /\ pairs[p].state = "READY" /\ pairs'[p].state = "SAVING"
      BY <1>1, <1>2, IntentEffect DEF Ready, Has, IInv, Typed
  <2>. QED
      BY <1>1, <1>2, <2>1, NotSaved
<1>3. ASSUME NEW c \in Coins, Reserve(a, c) PROVE \A q \in Pairs : Evidence(q)
  <2>1. pc[a] # "idle"
      BY <1>3 DEF Reserve
  <2>2. UNCHANGED pairs \/ (Ready(a, p) /\ Intent(a, c, FALSE))
      BY <1>3 DEF Reserve, EditIntake, EndEdit, Blocked, Failing, intake
  <2>. QED
      BY <1>0, <1>2, <2>1, <2>2
<1>4. ASSUME NEW c \in Coins, ReserveUnidentified(a, c) PROVE \A q \in Pairs : Evidence(q)
  <2>1. pc[a] # "idle"
      BY <1>4 DEF ReserveUnidentified
  <2>2. UNCHANGED pairs \/ (Ready(a, p) /\ Intent(a, c, TRUE))
      BY <1>4 DEF ReserveUnidentified, EditIntake, EndEdit, Blocked, Failing, intake
  <2>. QED
      BY <1>0, <1>2, <2>1, <2>2
<1>5. CASE Clear(a)
  <2>1. UNCHANGED pairs \/ /\ pairs[p] # None /\ pairs[p].state = "SAVING" /\ pc[a] # "idle"
                           /\ pairs' = [pairs EXCEPT ![p].state = "READY", ![p].coin = None]
      BY <1>5 DEF Clear, EditIntake, EndEdit, intake, Has
  <2>2. CASE /\ pairs[p] # None /\ pairs[p].state = "SAVING" /\ pc[a] # "idle"
             /\ pairs' = [pairs EXCEPT ![p].state = "READY", ![p].coin = None]
    <3>1. /\ \A q \in Pairs : q # p => pairs'[q] = pairs[q]
          /\ pairs'[p].state = "READY"
        BY <1>1, <2>2 DEF IInv, Typed, PairsTyped, Entries
    <3>. QED
        BY <1>1, <2>2, <3>1, NotSaved
  <2>. QED
      BY <1>0, <2>1, <2>2
<1>6. CASE Look(a)
    BY <1>0, <1>6 DEF Look, Blocked, EditIntake, EndEdit, intake
<1>7. ASSUME NEW s \in Pairs, NEW r \in Roles, a = Phone, Draft(s, r)
      PROVE  \A q \in Pairs : Evidence(q)
  <2>1. UNCHANGED pairs \/ NewPair(a, s, r)
      BY <1>7 DEF Draft, EditIntake, EndEdit, intake
  <2>. QED
      BY <1>0, <2>1, NewPairEffect, NotSaved DEF IInv, Typed
<1>. QED
    BY <1>3, <1>4, <1>5, <1>6, <1>7

\* A pair becomes SAVED only when its coin was saved with the roles the pair has
\* then, and stays SAVED.
THEOREM EvidencedSaves == Spec => SavedOnEvidence
<1>1. ASSUME IInv, EInv, [Next]_vars PROVE [\A p \in Pairs : Evidence(p)]_vars
  <2>0. UNCHANGED pairs => \A p \in Pairs : Evidence(p)
      BY DEF Evidence
  <2>1. ASSUME NEW w \in Windows, Cancel(w) \/ Recheck(w) \/ \E c \in Coins : EditCoin(w, c)
        PROVE  UNCHANGED pairs
      BY <2>1 DEF Cancel, Recheck, EditCoin, intake
  <2>2. ASSUME Service
        PROVE  UNCHANGED pairs \/ \E p \in Pairs, r \in Roles : Draft(p, r)
      BY <2>2 DEF Service, Verify, BeginSave, ReconcileEntry, CreateEntry, Pack, RecordPersisted,
         Reopen, Finalize, Mark, intake
  <2>3. ASSUME NEW a \in Actors, Save(a)
        PROVE  UNCHANGED pairs \/ (\E c \in Coins : Reserve(a, c)) \/ Look(a)
      BY <2>3 DEF Save, Lock, Copy, Publish, RollBack, Unlock, Load, intake
  <2>4. ASSUME NEW w \in Windows, Reconcile(w)
        PROVE  UNCHANGED pairs \/ (seen[w] # None /\ Saved(seen[w]))
      BY <2>4 DEF Reconcile
  <2>5. ASSUME NEW a \in Actors, Complete(a) \/ Crash(a)
        PROVE  UNCHANGED pairs \/ (seen[a] # None /\ Saved(seen[a]))
      BY <2>5 DEF Complete, EndEdit, Crash
  <2>6. ClearLocks => UNCHANGED pairs
      BY DEF ClearLocks
  <2>7. Phone \in Actors /\ \A w \in Windows : w \in Actors
      BY DEF Actors
  <2>8. ASSUME NEW w \in Windows, Window(w) PROVE \A p \in Pairs : Evidence(p)
    <3>1. CASE Pairing(w)
        BY <1>1, <3>1, PairingEvident
    <3>2. CASE Clear(w) \/ \E c \in Coins : ReserveUnidentified(w, c)
        BY <1>1, <2>7, <3>2, IntakeEvident
    <3>. QED
        BY <2>0, <2>1, <2>8, <3>1, <3>2 DEF Window
  <2>. QED
      BY <1>1, <2>0, <2>2, <2>3, <2>4, <2>5, <2>6, <2>7, <2>8, Proved, IntakeEvident DEF Next
<1>. QED
    BY <1>1, Inductive, PTL DEF Spec, SavedOnEvidence, Evidence
=============================================================================
