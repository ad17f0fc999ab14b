------------------------ MODULE BackupRestore_proofs ------------------------
(***************************************************************************)
(* Theorems about BackupRestore, for any windows, any package of files and *)
(* any bounds on what they do.                                             *)
(*                                                                         *)
(* A restore is a program of some fifteen steps over several files, and    *)
(* any window may save, restore or crash between two of them.  IInv says   *)
(* what holds in between:                                                  *)
(*   Flow         what each stage of a restore relies on, file by file;    *)
(*                it speaks of what no other window changes                *)
(*   Known        a name is one of an object that has been made            *)
(*   Distinct     an object has one name                                   *)
(*   InPlace      the object of a collection is never written to           *)
(*   Gone         what a rollback has deleted has no name left             *)
(*   FromPackage  the new file of a plan has the bytes of the package      *)
(*   BackingUp    what the backup has taken so far of an original that is  *)
(*                still in its place                                       *)
(*   BackedUp     from the end of the backup on, such an original is safe: *)
(*                it has the bytes of the package or of a finished backup  *)
(*   AsideSafe    so is one that was moved aside and recognised            *)
(*   Replacing    and so is what a saver replaces, unless it has seen it   *)
(* What is safe stays so, as backups are only added.  Moves says what a    *)
(* step does to the names of the objects: the layers about objects follow  *)
(* from it, and Flow from the steps of the restore one by one.             *)
(***************************************************************************)
EXTENDS BackupRestore, SequenceTheorems, TLAPS

Places == DOMAIN Order

Idle == {"idle", "saving", "overwriting", "writing", "clearing"}
Checking == {"check", "displace", "displaced", "publish", "published"}

\* The new file of a plan is beside the live one until it is published.
NewAside(w, f) == temp[w][f] = IF plan[w][f].published THEN 0 ELSE plan[w][f].new
\* The original that was moved aside is there.
OldAside(w, f) ==
    plan[w][f].displaced /\ ~plan[w][f].ambiguous =>
        old[w][f] = plan[w][f].original /\ old[w][f] # 0
\* A plan of which nothing has been done yet, one that is done, one that can be undone as
\* far as its objects go, and one of which nothing is left to undo.
Untouched(w, f) ==
    /\ plan[w][f] # None /\ NewAside(w, f)
    /\ ~plan[w][f].displaced /\ ~plan[w][f].published /\ ~plan[w][f].ambiguous
Replaced(w, f) ==
    /\ plan[w][f] # None /\ NewAside(w, f)
    /\ plan[w][f].published /\ ~plan[w][f].ambiguous
Undoable(w, f) == plan[w][f] = None \/ (NewAside(w, f) /\ OldAside(w, f))
Undone(w, f) ==
    \/ plan[w][f] = None
    \/ /\ ~plan[w][f].displaced
       /\ temp[w][f] = 0 \/ (temp[w][f] = plan[w][f].new /\ plan[w][f].ambiguous)

\* A window has names of its own only for the files it has a plan for.
Planned(w) == \A f \in Files :
    IF plan[w][f] = None THEN temp[w][f] = 0 /\ old[w][f] = 0
    ELSE /\ \E i \in Places : Order[i] = f
         /\ plan[w][f].new # 0
         /\ ~plan[w][f].displaced => old[w][f] = 0

\* Between restores there is no plan; on the way forward the files before the one at hand
\* are done and those after it untouched; on the way back those before it can be undone.
Resting(w) == pc[w] \in Idle => \A f \in Files : plan[w][f] = None

Going(w) ==
    /\ pc[w] = "stage" => \A i \in Places :
            IF i < at[w] THEN Untouched(w, Order[i]) ELSE plan[w][Order[i]] = None
    /\ pc[w] \in {"hash", "archive", "open"} => \A i \in Places : Untouched(w, Order[i])
    /\ pc[w] \in Checking => \A i \in Places :
            /\ i < at[w] => Replaced(w, Order[i]) /\ OldAside(w, Order[i])
            /\ i > at[w] => Untouched(w, Order[i])
    /\ pc[w] \in {"check", "displace"} => Untouched(w, File(w))
    /\ pc[w] = "displace" => Plan(w).original # 0
    /\ pc[w] \in {"displaced", "publish"} =>
            /\ Plan(w) # None /\ NewAside(w, File(w))
            /\ ~Plan(w).published /\ ~Plan(w).ambiguous
    /\ pc[w] = "displaced" => Plan(w).displaced /\ old[w][File(w)] # 0
    /\ pc[w] = "publish" => OldAside(w, File(w))
    /\ pc[w] = "published" => Replaced(w, File(w)) /\ OldAside(w, File(w))
    /\ pc[w] = "clean" => \A i \in Places :
            /\ Replaced(w, Order[i])
            /\ IF i < at[w] THEN old[w][Order[i]] = 0 ELSE OldAside(w, Order[i])

Returning(w) == pc[w] \in Backward =>
    /\ \A i \in Places : i < at[w] => Undoable(w, Order[i])
    /\ pc[w] \notin {"undo", "unpublished"} => Undoable(w, File(w))
    /\ pc[w] = "undo" => Undoable(w, File(w))
    /\ pc[w] # "undo" => Plan(w) # None
    /\ pc[w] \in {"unpublish", "unpublished"} => Plan(w).published
    /\ pc[w] = "unpublished" => OldAside(w, File(w))
    /\ pc[w] \in {"putback", "discard"} => ~Plan(w).published
    /\ pc[w] = "discard" => ~Plan(w).displaced
    /\ result[w] = "undoing" => \A i \in Places : i > at[w] => Undone(w, Order[i])

FlowOf(w) == Planned(w) /\ Resting(w) /\ Going(w) /\ Returning(w)
Flow == \A w \in Windows : FlowOf(w)

\* A name, and a plan, is of an object that has been made.
Exists == 0..Len(data)
Known ==
    /\ \A f \in Files : live[f] \in Exists
    /\ \A w \in Windows, f \in Files : temp[w][f] \in Exists /\ old[w][f] \in Exists
    /\ kept \subseteq Exists /\ 0 \notin kept
    /\ \A w \in Windows, f \in Files : plan[w][f] # None =>
            plan[w][f].original \in Exists /\ plan[w][f].new \in Exists
    /\ \A w \in Windows : writing[w] \in Exists

\* An object has one name.
LiveOnce == \A f, g \in Files : live[f] # 0 /\ live[f] = live[g] => f = g
LiveApart == \A f, g \in Files, w \in Windows :
    live[f] # 0 => live[f] # temp[w][g] /\ live[f] # old[w][g]
NewOnce == \A f, g \in Files, v, w \in Windows :
    temp[v][f] # 0 /\ temp[v][f] = temp[w][g] => v = w /\ f = g
OldOnce == \A f, g \in Files, v, w \in Windows :
    old[v][f] # 0 /\ old[v][f] = old[w][g] => v = w /\ f = g
NewOldApart == \A f, g \in Files, v, w \in Windows : temp[v][f] # 0 => temp[v][f] # old[w][g]
KeptApart == \A o \in kept, f \in Files :
    live[f] # o /\ \A w \in Windows : temp[w][f] # o /\ old[w][f] # o
Distinct == LiveOnce /\ LiveApart /\ NewOnce /\ OldOnce /\ NewOldApart /\ KeptApart

\* A state is rewritten in place; a collection never is.
InPlace == \A o \in DOMAIN data : Holds(o) => live[Session] # o /\ \A w \in Windows : writing[w] # o

\* The new file of a plan that was undone has no name, unless it is where it was left.
Gone == \A w \in Windows, i \in Places :
    /\ pc[w] \in Backward /\ result[w] = "undoing" /\ i > at[w]
    /\ plan[w][Order[i]] # None /\ temp[w][Order[i]] = 0
    => ~Named(plan[w][Order[i]].new)

\* The package has these bytes, or a finished backup.
Safe(o) == data[o] = Package \/ data[o] \in zips

\* The new file of a plan is the package's.
FromPackage == \A w \in Windows, o \in DOMAIN data :
    plan[w][Collection] # None /\ plan[w][Collection].new = o /\ Holds(o) => data[o] = Package

\* An original that was moved aside, and recognised, is safe.
AsideSafe == \A w \in Windows :
    LET p == plan[w][Collection]
    IN  p # None /\ p.displaced /\ ~p.ambiguous /\ old[w][Collection] # 0
            /\ old[w][Collection] = p.original => Safe(old[w][Collection])

\* While an original is in its place: once the backup is finished it is safe, and before
\* that the backup has the checksum, then the bytes, of what is there.
Unmoved(w) == plan[w][Collection] # None /\ live[Collection] # 0
                 /\ plan[w][Collection].original = live[Collection]
BackedUp == \A w \in Windows :
    pc[w] \in {"open"} \cup Checking /\ Unmoved(w) => Safe(live[Collection])
BackingUp == \A w \in Windows, i \in Places :
    pc[w] \in {"hash", "archive"} /\ Unmoved(w) /\ Order[i] = Collection =>
        \/ Safe(live[Collection])
        \/ /\ i < at[w] \/ (i = at[w] /\ pc[w] = "archive") =>
                pre[w][Collection].hash = Content(Collection)
           /\ i < at[w] => pre[w][Collection].bytes = Content(Collection)

\* Who saves holds the lock, and has seen what it replaces unless that is safe.
Replacing ==
    /\ \A w \in Windows : pc[w] = "saving" <=> saver = w
    /\ saver # None /\ live[Collection] # 0 =>
            Safe(live[Collection]) \/ Content(Collection) = seen[saver]

IInv ==
    /\ TypeOK /\ Flow /\ Known /\ Distinct /\ InPlace /\ Gone
    /\ FromPackage /\ AsideSafe /\ BackedUp /\ BackingUp /\ Replacing
-----------------------------------------------------------------------------
Acts(w) == Restore(w) \/ Saving(w) \/ Crash(w)

LEMMA AtFile ==
  ASSUME TypeOK, NEW w \in Windows
  PROVE  /\ at[w] \in Places /\ File(w) \in Files /\ Len(Order) \in Nat
         /\ Places = 1..Len(Order)
         /\ \A i \in Places : Order[i] \in Files /\ (i # at[w] => Order[i] # File(w))
<1>1. Order \in Seq(Files) /\ Len(Order) \in Nat /\ Places = 1..Len(Order)
  BY RestoreAssumption DEF Places
<1>2. at[w] \in Places
  BY <1>1 DEF TypeOK
<1> QED BY <1>1, <1>2, RestoreAssumption DEF File

\* What a step does to the names of the file objects, and to their bytes.
LiveGets(f, o) == \A g \in Files : live'[g] = IF g = f THEN o ELSE live[g]
TempGets(w, f, o) == \A v \in Windows, g \in Files :
    temp'[v][g] = IF v = w /\ g = f THEN o ELSE temp[v][g]
OldGets(w, f, o) == \A v \in Windows, g \in Files :
    old'[v][g] = IF v = w /\ g = f THEN o ELSE old[v][g]

Aside(w, f) == LiveGets(f, 0) /\ OldGets(w, f, live[f]) /\ UNCHANGED <<temp, kept, data>>
Out(w, f) == LiveGets(f, temp[w][f]) /\ TempGets(w, f, 0) /\ UNCHANGED <<old, kept, data>>
In(w, f) == LiveGets(f, 0) /\ TempGets(w, f, live[f]) /\ UNCHANGED <<old, kept, data>>
Back(w, f) == LiveGets(f, old[w][f]) /\ OldGets(w, f, 0) /\ UNCHANGED <<temp, kept, data>>
New(w, f) ==
    TempGets(w, f, Made) /\ data' = Append(data, Package) /\ UNCHANGED <<live, old, kept>>
Saved(f) ==
    /\ LiveGets(f, Made) /\ \E d \in Data : data' = Append(data, d)
    /\ UNCHANGED <<temp, old, kept>>
Removed == LiveGets(Session, 0) /\ UNCHANGED <<temp, old, kept, data>>
Rewritten(o) ==
    o # 0 /\ (\E d \in Data : data' = [data EXCEPT ![o] = d]) /\ UNCHANGED names
Dropped(w, f) == TempGets(w, f, 0) /\ UNCHANGED <<live, old, kept, data>>
Cleaned(w, f) ==
    /\ OldGets(w, f, 0) /\ UNCHANGED <<live, temp, data>>
    /\ kept' = kept \/ (old[w][f] # 0 /\ kept' = kept \cup {old[w][f]})
\* A restore is over: what it has at its names, a file it dropped apart, is kept.
Ended(w, dropped) ==
    /\ \A o : o \in kept' <=> o \in kept \/ \E g \in Files :
            o # 0 /\ (old[w][g] = o \/ (temp[w][g] = o /\ g \notin dropped))
    /\ \A v \in Windows, g \in Files :
            /\ temp'[v][g] = IF v = w THEN 0 ELSE temp[v][g]
            /\ old'[v][g] = IF v = w THEN 0 ELSE old[v][g]
    /\ UNCHANGED <<live, data>>

\* What remains of the types when a name is set, read or written one by one.
LEMMA NamesTyped ==
  ASSUME TypeOK
  PROVE  /\ live \in [Files -> Nat] /\ temp \in [Windows -> [Files -> Nat]]
         /\ old \in [Windows -> [Files -> Nat]] /\ kept \subseteq Nat
         /\ Files = {Collection, Session} /\ Collection # Session
         /\ data \in Seq(Data) /\ Len(data) \in Nat /\ Made = Len(data) + 1
<1>1. Files = {Collection, Session} /\ Collection # Session
  BY RestoreAssumption DEF Files
<1>2. data \in Seq(Data) /\ Len(data) \in Nat /\ Made = Len(data) + 1
  BY DEF TypeOK, Made
<1>3. /\ live \in [Files -> Nat] /\ temp \in [Windows -> [Files -> Nat]]
      /\ old \in [Windows -> [Files -> Nat]] /\ kept \subseteq Nat
  BY DEF TypeOK
<1> QED BY <1>1, <1>2, <1>3

LEMMA SetLive ==
  ASSUME TypeOK, NEW f \in Files, NEW o, live' = [live EXCEPT ![f] = o]
  PROVE  LiveGets(f, o)
BY NamesTyped DEF LiveGets

LEMMA SetTemp ==
  ASSUME TypeOK, NEW w \in Windows, NEW f \in Files, NEW o, temp' = [temp EXCEPT ![w][f] = o]
  PROVE  TempGets(w, f, o)
BY NamesTyped DEF TempGets

LEMMA SetOld ==
  ASSUME TypeOK, NEW w \in Windows, NEW f \in Files, NEW o, old' = [old EXCEPT ![w][f] = o]
  PROVE  OldGets(w, f, o)
BY NamesTyped DEF OldGets

LEMMA Moves ==
  ASSUME TypeOK, NEW w \in Windows, Acts(w)
  PROVE  \/ UNCHANGED <<live, temp, old, kept, data>>
         \/ pc[w] = "stage" /\ New(w, File(w))
         \/ pc[w] = "displace" /\ Aside(w, File(w)) /\ live[File(w)] # 0
         \/ pc[w] = "publish" /\ Out(w, File(w)) /\ live[File(w)] = 0
         \/ pc[w] = "unpublish" /\ In(w, File(w)) /\ live[File(w)] # 0
         \/ /\ pc[w] = "putback" /\ Back(w, File(w)) /\ live[File(w)] = 0
            /\ Plan(w).displaced /\ ~Plan(w).ambiguous
         \/ pc[w] = "discard" /\ Dropped(w, File(w)) /\ ~Plan(w).ambiguous
         \/ pc[w] = "clean" /\ Cleaned(w, File(w))
         \/ Ended(w, {})
         \/ pc[w] = "discard" /\ Ended(w, {File(w)}) /\ ~Plan(w).ambiguous
         \/ pc[w] = "saving" /\ Saved(Collection)
         \/ live[Session] = 0 /\ Saved(Session)
         \/ Removed
         \/ \E o \in {live[Session], writing[w]} : Rewritten(o)
<1>0. File(w) \in Files /\ Collection \in Files /\ Session \in Files
  BY AtFile, NamesTyped
<1> USE DEF names
<1>1. CASE Begin(w) \/ Hash(w) \/ Archive(w) \/ Open(w) \/ Check(w)
  BY <1>1 DEF Begin, Hash, Archive, Open, Check, Step
<1>2. CASE Stage(w)
  BY <1>0, <1>2, SetTemp DEF Stage, Step, Staged, Make, New
<1>3. CASE Displace(w)
  BY <1>0, <1>3, SetLive, SetOld DEF Displace, Step, Aside
<1>4. CASE Publish(w)
  BY <1>0, <1>4, SetLive, SetTemp DEF Publish, Step, Out
<1>5. CASE Displaced(w) \/ Published(w)
  BY <1>5 DEF Displaced, Published, Look
<1>6. CASE Clean(w)
  <2>1. kept' = kept \/ (old[w][File(w)] # 0 /\ kept' = kept \cup {old[w][File(w)]})
    BY <1>6 DEF Clean
  <2> QED BY <1>0, <1>6, <2>1, SetOld DEF Clean, Cleaned
<1>7. ASSUME NEW c \in BOOLEAN, NextPlan(w, c, temp), UNCHANGED <<live, data>>
      PROVE  UNCHANGED <<live, temp, old, kept, data>> \/ Ended(w, {})
  <2>1. ASSUME kept' = kept \cup Leftovers(w, temp) \cup Leftovers(w, old),
               temp' = [temp EXCEPT ![w] = [f \in Files |-> 0]],
               old' = [old EXCEPT ![w] = [f \in Files |-> 0]]
        PROVE  Ended(w, {})
    BY <1>7, <2>1, NamesTyped DEF Ended, Leftovers
  <2> QED BY <1>7, <2>1 DEF NextPlan
<1>8. CASE Undo(w) \/ Unpublished(w)
  BY <1>7, <1>8 DEF Undo, Unpublished, Undoing
<1>9. CASE Unpublish(w)
  BY <1>0, <1>7, <1>9, SetLive, SetTemp DEF Unpublish, Undoing, In
<1>10. CASE PutBack(w)
  BY <1>0, <1>7, <1>10, SetLive, SetOld DEF PutBack, Undoing, Back
<1>11. CASE Discard(w)
  <2> DEFINE t == [temp EXCEPT ![w][File(w)] = 0]
  <2>1. CASE NextPlan(w, TRUE, t) /\ ~Plan(w).ambiguous /\ UNCHANGED <<live, data>>
    <3>1. \A v \in Windows, g \in Files :
            t[v][g] = IF v = w /\ g = File(w) THEN 0 ELSE temp[v][g]
      BY <1>0, NamesTyped
    <3>2. t \in [Windows -> [Files -> Nat]]
      BY <1>0, NamesTyped
    <3> HIDE DEF t
    <3>3. ASSUME kept' = kept \cup Leftovers(w, t) \cup Leftovers(w, old),
                 temp' = [t EXCEPT ![w] = [f \in Files |-> 0]],
                 old' = [old EXCEPT ![w] = [f \in Files |-> 0]]
          PROVE  Ended(w, {File(w)})
      <4>1. \A o : o \in Leftovers(w, t) <=>
                \E g \in Files : o # 0 /\ temp[w][g] = o /\ g \notin {File(w)}
        BY <3>1 DEF Leftovers
      <4> QED BY <1>0, <2>1, <3>1, <3>2, <3>3, <4>1, NamesTyped DEF Ended, Leftovers
    <3>4. temp' = t /\ UNCHANGED <<old, kept>> => Dropped(w, File(w))
      BY <2>1, <3>1 DEF Dropped, TempGets
    <3> QED BY <1>11, <2>1, <3>3, <3>4 DEF NextPlan, Discard, Undoing
  <2> QED BY <1>7, <1>11, <2>1 DEF Discard, Undoing
<1>12. CASE CheckSave(w) \/ Reload(w) \/ BackUpState(w, "overwriting") \/ BackUpState(w, "clearing")
  BY <1>12 DEF CheckSave, Reload, BackUpState
<1>13. CASE Replace(w)
  BY <1>0, <1>13, SetLive DEF Replace, Make, Saved, TypeOK, Data, Versions
<1>14. CASE Truncate(w)
  BY <1>0, <1>14, SetLive DEF Truncate, Make, Saved, Rewritten, Data
<1>15. CASE Write(w)
  <2>0. saves \in Data
    BY DEF TypeOK, Data, Versions
  <2>1. CASE UNCHANGED data
    BY <1>15, <2>1 DEF Write
  <2>2. CASE writing[w] # 0
    BY <1>15, <2>0, <2>2 DEF Write, Rewritten, Data
  <2>3. CASE writing[w] = 0
    BY <1>15, <2>3 DEF Write, TypeOK
  <2> QED BY <2>1, <2>2, <2>3
<1>16. CASE Clear(w)
  BY <1>0, <1>16, SetLive DEF Clear, Removed
<1>17. CASE Crash(w)
  BY <1>17, NamesTyped DEF Crash, Ended, Leftovers
<1> QED BY <1>1, <1>2, <1>3, <1>4, <1>5, <1>6, <1>8, <1>9, <1>10, <1>11, <1>12, <1>13, <1>14, <1>15,
           <1>16, <1>17 DEF Acts, Restore, Saving

-----------------------------------------------------------------------------
(* Distinct: an object has one name.                                       *)

LEMMA DistinctStep ==
  ASSUME TypeOK, Known, Distinct, NEW w \in Windows, Acts(w)
  PROVE  Distinct'
<1> DEFINE f == File(w)
<1>0. /\ f \in Files /\ Len(data) \in Nat /\ Made = Len(data) + 1
      /\ Collection \in Files /\ Session \in Files
  BY AtFile, NamesTyped
<1> HIDE DEF f
<1>1. /\ Made \notin kept /\ 0 \notin kept /\ Made # 0
      /\ \A g \in Files, v \in Windows :
                live[g] # Made /\ temp[v][g] # Made /\ old[v][g] # Made
  BY <1>0 DEF Known, Exists
<1> USE DEF Distinct
<1>2. CASE Aside(w, f)
  <2> USE <1>0, <1>2 DEF Aside, LiveGets, OldGets
  <2>1. NewOnce'
    BY DEF NewOnce
  <2>2. LiveOnce'
    BY DEF LiveOnce, LiveApart
  <2>3. LiveApart'
    BY DEF LiveOnce, LiveApart, NewOnce, OldOnce, NewOldApart
  <2>4. OldOnce'
    BY DEF LiveApart, OldOnce
  <2>5. NewOldApart'
    BY DEF LiveApart, NewOldApart
  <2>6. KeptApart'
    BY <1>1 DEF LiveOnce, LiveApart, NewOnce, OldOnce, NewOldApart, KeptApart
  <2> QED BY <2>1, <2>2, <2>3, <2>4, <2>5, <2>6
<1>3. CASE Out(w, f)
  <2> USE <1>0, <1>3 DEF Out, LiveGets, TempGets
  <2>1. OldOnce'
    BY DEF OldOnce
  <2>2. LiveOnce'
    BY DEF LiveOnce, LiveApart
  <2>3. LiveApart'
    BY DEF LiveOnce, LiveApart, NewOnce, OldOnce, NewOldApart
  <2>4. NewOnce'
    BY DEF LiveApart, NewOnce
  <2>5. NewOldApart'
    BY DEF LiveApart, NewOldApart
  <2>6. KeptApart'
    BY <1>1 DEF LiveOnce, LiveApart, NewOnce, OldOnce, NewOldApart, KeptApart
  <2> QED BY <2>1, <2>2, <2>3, <2>4, <2>5, <2>6
<1>4. CASE In(w, f)
  <2> USE <1>0, <1>4 DEF In, LiveGets, TempGets
  <2>1. OldOnce'
    BY DEF OldOnce
  <2>2. LiveOnce'
    BY DEF LiveOnce, LiveApart
  <2>3. LiveApart'
    BY DEF LiveOnce, LiveApart, NewOnce, OldOnce, NewOldApart
  <2>4. NewOnce'
    BY DEF LiveApart, NewOnce
  <2>5. NewOldApart'
    BY DEF LiveApart, NewOldApart
  <2>6. KeptApart'
    BY <1>1 DEF LiveOnce, LiveApart, NewOnce, OldOnce, NewOldApart, KeptApart
  <2> QED BY <2>1, <2>2, <2>3, <2>4, <2>5, <2>6
<1>5. CASE Back(w, f)
  <2> USE <1>0, <1>5 DEF Back, LiveGets, OldGets
  <2>1. NewOnce'
    BY DEF NewOnce
  <2>2. LiveOnce'
    BY DEF LiveOnce, LiveApart
  <2>3. LiveApart'
    BY DEF LiveOnce, LiveApart, NewOnce, OldOnce, NewOldApart
  <2>4. OldOnce'
    BY DEF LiveApart, OldOnce
  <2>5. NewOldApart'
    BY DEF LiveApart, NewOldApart
  <2>6. KeptApart'
    BY <1>1 DEF LiveOnce, LiveApart, NewOnce, OldOnce, NewOldApart, KeptApart
  <2> QED BY <2>1, <2>2, <2>3, <2>4, <2>5, <2>6
<1>6. CASE New(w, f)
  <2> USE <1>0, <1>6 DEF New, TempGets
  <2>1. LiveOnce' /\ OldOnce'
    BY DEF LiveOnce, OldOnce
  <2>2. LiveApart'
    BY <1>1 DEF LiveOnce, LiveApart, NewOnce, OldOnce, NewOldApart
  <2>3. NewOnce'
    BY <1>1 DEF LiveApart, NewOnce
  <2>4. NewOldApart'
    BY <1>1 DEF LiveApart, NewOldApart
  <2>5. KeptApart'
    BY <1>1 DEF LiveOnce, LiveApart, NewOnce, OldOnce, NewOldApart, KeptApart
  <2> QED BY <2>1, <2>2, <2>3, <2>4, <2>5
<1>7. ASSUME NEW g \in Files, Saved(g) PROVE Distinct'
  <2> USE <1>0, <1>7 DEF Saved, LiveGets
  <2>1. NewOnce' /\ OldOnce' /\ NewOldApart'
    BY DEF NewOnce, OldOnce, NewOldApart
  <2>2. LiveOnce'
    BY <1>1 DEF LiveOnce, LiveApart
  <2>3. LiveApart'
    BY <1>1 DEF LiveOnce, LiveApart, NewOnce, OldOnce, NewOldApart
  <2>4. KeptApart'
    BY <1>1 DEF LiveOnce, LiveApart, NewOnce, OldOnce, NewOldApart, KeptApart
  <2> QED BY <2>1, <2>2, <2>3, <2>4
<1>8. CASE Removed
  <2> USE <1>0, <1>8 DEF Removed, LiveGets
  <2>1. NewOnce' /\ OldOnce' /\ NewOldApart'
    BY DEF NewOnce, OldOnce, NewOldApart
  <2>2. LiveOnce'
    BY DEF LiveOnce, LiveApart
  <2>3. LiveApart'
    BY DEF LiveOnce, LiveApart, NewOnce, OldOnce, NewOldApart
  <2>4. KeptApart'
    BY <1>1 DEF LiveOnce, LiveApart, NewOnce, OldOnce, NewOldApart, KeptApart
  <2> QED BY <2>1, <2>2, <2>3, <2>4
<1>9. CASE Dropped(w, f)
  <2> USE <1>0, <1>9 DEF Dropped, TempGets
  <2>1. LiveOnce' /\ OldOnce'
    BY DEF LiveOnce, OldOnce
  <2>2. LiveApart'
    BY DEF LiveOnce, LiveApart, NewOnce, OldOnce, NewOldApart
  <2>3. NewOnce'
    BY DEF LiveApart, NewOnce
  <2>4. NewOldApart'
    BY DEF LiveApart, NewOldApart
  <2>5. KeptApart'
    BY <1>1 DEF LiveOnce, LiveApart, NewOnce, OldOnce, NewOldApart, KeptApart
  <2> QED BY <2>1, <2>2, <2>3, <2>4, <2>5
<1>10. CASE Cleaned(w, f)
  <2> USE <1>0, <1>10 DEF Cleaned, OldGets
  <2>1. LiveOnce' /\ NewOnce'
    BY DEF LiveOnce, NewOnce
  <2>2. LiveApart'
    BY DEF LiveOnce, LiveApart, NewOnce, OldOnce, NewOldApart
  <2>3. OldOnce'
    BY DEF LiveApart, OldOnce
  <2>4. NewOldApart'
    BY DEF LiveApart, NewOldApart
  <2>5. KeptApart'
    BY <1>1 DEF LiveOnce, LiveApart, NewOnce, OldOnce, NewOldApart, KeptApart
  <2> QED BY <2>1, <2>2, <2>3, <2>4, <2>5
<1>11. ASSUME NEW d, Ended(w, d) PROVE Distinct'
  <2> USE <1>0, <1>11 DEF Ended
  <2>1. LiveOnce'
    BY DEF LiveOnce
  <2>2. LiveApart'
    BY DEF LiveOnce, LiveApart, NewOnce, OldOnce, NewOldApart
  <2>3. NewOnce'
    BY DEF LiveApart, NewOnce
  <2>4. OldOnce'
    BY DEF LiveApart, OldOnce
  <2>5. NewOldApart'
    BY DEF LiveApart, NewOldApart
  <2>6. KeptApart'
    BY <1>1 DEF LiveOnce, LiveApart, NewOnce, OldOnce, NewOldApart, KeptApart
  <2> QED BY <2>1, <2>2, <2>3, <2>4, <2>5, <2>6
<1>12. CASE UNCHANGED <<live, temp, old, kept>>
  BY <1>12 DEF LiveOnce, LiveApart, NewOnce, OldOnce, NewOldApart, KeptApart
<1> QED BY <1>0, <1>2, <1>3, <1>4, <1>5, <1>6, <1>7, <1>8, <1>9, <1>10, <1>11, <1>12, Moves DEF f, names, Rewritten

-----------------------------------------------------------------------------
(* Known: a name is one of an object that has been made.                   *)

LEMMA KnownNames ==
  ASSUME TypeOK, Known, NEW w \in Windows, Acts(w)
  PROVE  /\ Len(data') \in Nat /\ Len(data) <= Len(data')
         /\ kept' \subseteq Exists' /\ 0 \notin kept'
         /\ \A g \in Files : live'[g] \in Exists'
         /\ \A v \in Windows, g \in Files : temp'[v][g] \in Exists' /\ old'[v][g] \in Exists'
<1> DEFINE f == File(w)
<1>0. /\ f \in Files /\ Len(data) \in Nat /\ Made = Len(data) + 1
      /\ Collection \in Files /\ Session \in Files /\ data \in Seq(Data) /\ 0 \in Exists
  BY AtFile, NamesTyped DEF Known, Exists
<1> HIDE DEF f
<1>1. ASSUME \E d \in Data : data' = Append(data, d)
      PROVE  Len(data') = Made /\ Exists \subseteq Exists' /\ Made \in Exists'
  BY <1>0, <1>1 DEF Exists
<1>2. ASSUME NEW o \in Nat, \E d \in Data : data' = [data EXCEPT ![o] = d]
      PROVE  Len(data') = Len(data)
  BY <1>0, <1>2
<1>3. CASE New(w, f) \/ \E g \in Files : Saved(g)
  <2>1. Package \in Data
    BY DEF Data
  <2>2. Len(data') = Made /\ Exists \subseteq Exists' /\ Made \in Exists'
    BY <1>1, <1>3, <2>1 DEF New, Saved
  <2>3. /\ \A g \in Files : live'[g] \in {live[g], Made}
        /\ \A v \in Windows, g \in Files :
                temp'[v][g] \in {temp[v][g], Made} /\ old'[v][g] = old[v][g]
        /\ kept' = kept
    BY <1>3 DEF New, Saved, LiveGets, TempGets
  <2>4. Len(data') \in Nat /\ Len(data) <= Len(data')
    BY <1>0, <2>2
  <2>5. kept' \subseteq Exists' /\ 0 \notin kept'
    BY <2>2, <2>3 DEF Known
  <2>6. \A g \in Files : live'[g] \in Exists'
    BY <2>2, <2>3 DEF Known
  <2>7. \A v \in Windows, g \in Files : temp'[v][g] \in Exists' /\ old'[v][g] \in Exists'
    BY <2>2, <2>3 DEF Known
  <2> QED BY <2>4, <2>5, <2>6, <2>7
<1>4. CASE \E o \in {live[Session], writing[w]} : Rewritten(o)
  <2>1. Len(data') = Len(data) /\ UNCHANGED names
    BY <1>0, <1>2, <1>4 DEF Rewritten, TypeOK
  <2> QED BY <1>0, <2>1 DEF names, Known, Exists
<1>5. CASE UNCHANGED <<live, temp, old, kept, data>>
  BY <1>0, <1>5 DEF Known, Exists
<1>6. CASE Aside(w, f) \/ Out(w, f) \/ In(w, f) \/ Back(w, f) \/ Dropped(w, f) \/ Removed
  <2>1. Exists' = Exists
    BY <1>6 DEF Exists, Aside, Out, In, Back, Dropped, Removed
  <2> QED BY <1>0, <1>6, <2>1 DEF Aside, Out, In, Back, Dropped, Removed, Known, LiveGets, TempGets, OldGets
<1>7. CASE Cleaned(w, f)
  <2>1. Exists' = Exists
    BY <1>7 DEF Exists, Cleaned
  <2> QED BY <1>0, <1>7, <2>1 DEF Cleaned, Known, OldGets
<1>8. CASE Ended(w, {}) \/ Ended(w, {f})
  <2>1. Exists' = Exists
    BY <1>8 DEF Exists, Ended
  <2> QED BY <1>0, <1>8, <2>1 DEF Ended, Known
<1> QED BY <1>0, <1>3, <1>4, <1>5, <1>6, <1>7, <1>8, Moves DEF f

-----------------------------------------------------------------------------
(* What a step leaves alone.                                               *)

\* A step changes the restore of its own window only.
LEMMA OthersStay ==
  ASSUME TypeOK, NEW w \in Windows, Acts(w), NEW v \in Windows, v # w
  PROVE  /\ pc'[v] = pc[v] /\ at'[v] = at[v] /\ result'[v] = result[v]
         /\ plan'[v] = plan[v] /\ pre'[v] = pre[v]
         /\ temp'[v] = temp[v] /\ old'[v] = old[v]
         /\ seen'[v] = seen[v] /\ writing'[v] = writing[v]
<1> USE DEF TypeOK, GoTo, Raise, Finish, names, backup, savers, job
<1>1. CASE Begin(w)
  BY <1>1 DEF Begin
<1>2. CASE Stage(w)
  BY <1>2 DEF Stage, Step, Staged, Advance
<1>3. CASE Hash(w) \/ Archive(w)
  BY <1>3 DEF Hash, Archive, Step, Packed, Advance
<1>4. CASE Open(w) \/ Check(w)
  BY <1>4 DEF Open, Check, Step, Advance
<1>5. CASE Displace(w) \/ Publish(w)
  BY <1>5 DEF Displace, Publish, Step
<1>6. CASE Displaced(w) \/ Published(w)
  BY <1>6 DEF Displaced, Published, Look, Advance
<1>7. CASE Clean(w)
  BY <1>7 DEF Clean
<1>8. ASSUME NEW c, NextPlan(w, c, temp), UNCHANGED <<backup, savers>>
      PROVE  /\ pc'[v] = pc[v] /\ at'[v] = at[v] /\ result'[v] = result[v]
             /\ plan'[v] = plan[v] /\ pre'[v] = pre[v]
             /\ temp'[v] = temp[v] /\ old'[v] = old[v]
             /\ seen'[v] = seen[v] /\ writing'[v] = writing[v]
  BY <1>8 DEF NextPlan
<1>9. CASE Undo(w) \/ Unpublish(w) \/ Unpublished(w) \/ PutBack(w)
  BY <1>8, <1>9 DEF Undo, Unpublish, Unpublished, PutBack, Undoing
<1>10. CASE Discard(w)
  <2> DEFINE t == [temp EXCEPT ![w][File(w)] = 0]
  <2>1. t[v] = temp[v] /\ t \in [Windows -> [Files -> Nat]]
    BY AtFile
  <2> HIDE DEF t
  <2>2. CASE NextPlan(w, TRUE, t) /\ UNCHANGED <<backup, savers>>
    <3>1. /\ pc'[v] = pc[v] /\ at'[v] = at[v] /\ result'[v] = result[v]
          /\ plan'[v] = plan[v] /\ old'[v] = old[v]
      <4>1. CASE at[w] > 1
        BY <2>2, <4>1 DEF NextPlan
      <4>2. CASE ~(at[w] > 1)
        BY <2>2, <4>2 DEF NextPlan
      <4> QED BY <4>1, <4>2
    <3>2. temp'[v] = temp[v]
      <4> DEFINE e == [f \in Files |-> 0]
      <4>1. temp' = t \/ temp' = [t EXCEPT ![w] = e]
        BY <2>2, Zenon DEF NextPlan
      <4> HIDE DEF e
      <4> QED BY <2>1, <4>1
    <3> QED BY <2>2, <3>1, <3>2
  <2> QED BY <1>8, <1>10, <2>2 DEF Discard, Undoing, t
<1>11. CASE Saving(w)
  BY <1>11 DEF Saving, CheckSave, Replace, Reload, BackUpState, Truncate, Write, Clear, Save
<1>12. CASE Crash(w)
  BY <1>12 DEF Crash
<1> QED
  BY <1>1, <1>2, <1>3, <1>4, <1>5, <1>6, <1>7, <1>9, <1>10, <1>11, <1>12 DEF Acts, Restore

\* A file object keeps the file it is of, through all its names.
LEMMA HeldBefore ==
  ASSUME TypeOK, NEW w \in Windows, Acts(w), NEW o \in Nat, o # 0, Holds(o)'
  PROVE  Holds(o) \/ o = Made
<1> DEFINE f == File(w)
<1>0. f \in Files /\ Collection \in Files /\ Session \in Files /\ Collection # Session
  BY AtFile, NamesTyped
<1> HIDE DEF f
<1>1. PICK v \in Windows : live'[Collection] = o \/ temp'[v][Collection] = o \/ old'[v][Collection] = o
  BY DEF Holds
<1> USE <1>0, <1>1 DEF Holds, LiveGets, TempGets, OldGets
<1>2. CASE New(w, f) \/ \E g \in Files : Saved(g)
  BY <1>2 DEF New, Saved
<1>3. CASE Aside(w, f) \/ Out(w, f) \/ In(w, f) \/ Back(w, f) \/ Dropped(w, f) \/ Removed
  BY <1>3 DEF Aside, Out, In, Back, Dropped, Removed
<1>4. CASE Cleaned(w, f) \/ \E d : Ended(w, d)
  BY <1>4 DEF Cleaned, Ended
<1>5. CASE UNCHANGED <<live, temp, old, kept>>
  BY <1>5
<1> QED BY <1>2, <1>3, <1>4, <1>5, Moves DEF f, Rewritten, names

\* An object that has lost its last name never has one again.
LEMMA NamedBefore ==
  ASSUME TypeOK, NEW w \in Windows, Acts(w), NEW o \in Nat, o # 0, Named(o)'
  PROVE  Named(o) \/ o = Made
<1> DEFINE f == File(w)
<1>0. f \in Files /\ Collection \in Files /\ Session \in Files /\ Collection # Session
  BY AtFile, NamesTyped
<1> HIDE DEF f
<1> USE <1>0 DEF Named, LiveGets, TempGets, OldGets
<1>2. CASE New(w, f) \/ \E g \in Files : Saved(g)
  BY <1>2 DEF New, Saved
<1>3. CASE Aside(w, f) \/ Out(w, f) \/ In(w, f) \/ Back(w, f) \/ Dropped(w, f) \/ Removed
  BY <1>3 DEF Aside, Out, In, Back, Dropped, Removed
<1>4. CASE Cleaned(w, f)
  BY <1>4 DEF Cleaned
<1>5. ASSUME NEW d, Ended(w, d) PROVE Named(o) \/ o = Made
  BY <1>5 DEF Ended
<1>6. CASE UNCHANGED <<live, temp, old, kept>>
  BY <1>6
<1> QED BY <1>2, <1>3, <1>4, <1>5, <1>6, Moves DEF f, Rewritten, names

\* Only a state is rewritten in place, so what a restore or a saver holds keeps its bytes.
LEMMA BytesStay ==
  ASSUME TypeOK, InPlace, NEW w \in Windows, Acts(w), NEW o \in DOMAIN data, Holds(o)
  PROVE  o \in DOMAIN data' /\ data'[o] = data[o]
<1>0. o \in 1..Len(data) /\ data \in Seq(Data) /\ Len(data) \in Nat
  BY NamesTyped
<1>1. ASSUME NEW d, data' = Append(data, d) PROVE o \in DOMAIN data' /\ data'[o] = data[o]
  BY <1>0, <1>1
<1>2. ASSUME NEW x \in {live[Session], writing[w]}, NEW d, data' = [data EXCEPT ![x] = d]
      PROVE  o \in DOMAIN data' /\ data'[o] = data[o]
  <2>1. x # o
    BY <1>2 DEF InPlace
  <2> QED BY <1>0, <1>2, <2>1
<1> QED
  BY <1>0, <1>1, <1>2, Moves
  DEF New, Aside, Out, In, Back, Dropped, Cleaned, Ended, Saved, Removed, Rewritten


-----------------------------------------------------------------------------
(* Types.                                                                  *)

PlansTyped == plan \in [Windows -> [Files -> Plans \cup {None}]]

\* A step that changes one field of one plan.
Marked(w, f, d, p, a) ==
    /\ PlansTyped'
    /\ \A v \in Windows, g \in Files : v # w \/ g # f => plan'[v][g] = plan[v][g]
    /\ plan'[w][f] # None
    /\ plan'[w][f].original = plan[w][f].original /\ plan'[w][f].new = plan[w][f].new
    /\ plan'[w][f].displaced = d /\ plan'[w][f].published = p /\ plan'[w][f].ambiguous = a

LEMMA Marks ==
  ASSUME PlansTyped, NEW w \in Windows, NEW f \in Files, plan[w][f] # None, NEW b \in BOOLEAN
  PROVE  LET q == plan[w][f]
         IN  /\ plan' = [plan EXCEPT ![w][f].displaced = b] =>
                    Marked(w, f, b, q.published, q.ambiguous)
             /\ plan' = [plan EXCEPT ![w][f].published = b] =>
                    Marked(w, f, q.displaced, b, q.ambiguous)
             /\ plan' = [plan EXCEPT ![w][f].ambiguous = b] =>
                    Marked(w, f, q.displaced, q.published, b)
<1>1. plan[w][f] \in Plans /\ plan \in [Windows -> [Files -> Plans \cup {None}]]
  BY DEF PlansTyped
<1>2. ASSUME NEW q \in Plans, plan' = [plan EXCEPT ![w][f] = q]
      PROVE  /\ plan'[w][f] = q /\ plan'[w][f] # None /\ PlansTyped'
             /\ \A v \in Windows, g \in Files : v # w \/ g # f => plan'[v][g] = plan[v][g]
  BY <1>1, <1>2, NoPlanAssumption DEF PlansTyped
<1>3. ASSUME plan' = [plan EXCEPT ![w][f].displaced = b]
      PROVE  Marked(w, f, b, plan[w][f].published, plan[w][f].ambiguous)
  <2> DEFINE q == [plan[w][f] EXCEPT !.displaced = b]
  <2>1. /\ q \in Plans /\ q.original = plan[w][f].original /\ q.new = plan[w][f].new
        /\ q.displaced = b /\ q.published = plan[w][f].published
        /\ q.ambiguous = plan[w][f].ambiguous
    BY <1>1 DEF Plans
  <2>2. plan' = [plan EXCEPT ![w][f] = q]
    BY <1>3
  <2> HIDE DEF q
  <2> QED BY <1>2, <2>1, <2>2 DEF Marked
<1>4. ASSUME plan' = [plan EXCEPT ![w][f].published = b]
      PROVE  Marked(w, f, plan[w][f].displaced, b, plan[w][f].ambiguous)
  <2> DEFINE q == [plan[w][f] EXCEPT !.published = b]
  <2>1. /\ q \in Plans /\ q.original = plan[w][f].original /\ q.new = plan[w][f].new
        /\ q.published = b /\ q.displaced = plan[w][f].displaced
        /\ q.ambiguous = plan[w][f].ambiguous
    BY <1>1 DEF Plans
  <2>2. plan' = [plan EXCEPT ![w][f] = q]
    BY <1>4
  <2> HIDE DEF q
  <2> QED BY <1>2, <2>1, <2>2 DEF Marked
<1>5. ASSUME plan' = [plan EXCEPT ![w][f].ambiguous = b]
      PROVE  Marked(w, f, plan[w][f].displaced, plan[w][f].published, b)
  <2> DEFINE q == [plan[w][f] EXCEPT !.ambiguous = b]
  <2>1. /\ q \in Plans /\ q.original = plan[w][f].original /\ q.new = plan[w][f].new
        /\ q.ambiguous = b /\ q.displaced = plan[w][f].displaced
        /\ q.published = plan[w][f].published
    BY <1>1 DEF Plans
  <2>2. plan' = [plan EXCEPT ![w][f] = q]
    BY <1>5
  <2> HIDE DEF q
  <2> QED BY <1>2, <2>1, <2>2 DEF Marked
<1> QED BY <1>3, <1>4, <1>5

FilesTyped ==
    /\ live \in [Files -> Nat] /\ data \in Seq(Data)
    /\ temp \in [Windows -> [Files -> Nat]] /\ old \in [Windows -> [Files -> Nat]]
    /\ kept \subseteq Nat
BackupsTyped == pre \in [Windows -> [Files -> [hash : Read, bytes : Read]]] /\ zips \subseteq Data
PlaceTyped ==
    /\ pc \in [Windows -> Restoring \cup Idle] /\ at \in [Windows -> Places]
    /\ result \in [Windows -> {"none", "undoing", "partial", "ok", "failed", "incomplete"}]
SaversTyped ==
    /\ seen \in [Windows -> Read] /\ saver \in Windows \cup {None}
    /\ writing \in [Windows -> Nat] /\ copies \subseteq Data
    /\ restores \in 0..MaxRestores /\ saves \in 0..MaxSaves /\ faults \in 0..MaxFaults

LEMMA Typed == TypeOK <=> FilesTyped /\ PlansTyped /\ BackupsTyped /\ PlaceTyped /\ SaversTyped
<1>1. Places = 1..Len(Order)
  BY RestoreAssumption DEF Places
<1> QED BY <1>1 DEF TypeOK, FilesTyped, PlansTyped, BackupsTyped, PlaceTyped, SaversTyped, Idle

\* What the file of each step of a restore is known to be.
LEMMA PlanThere ==
  ASSUME TypeOK, Flow, NEW w \in Windows,
         pc[w] \in Checking \cup {"hash", "archive", "open"} \cup (Backward \ {"undo"})
  PROVE  Plan(w) # None
BY AtFile DEF Flow, FlowOf, Going, Returning, Untouched, Replaced, Plan, Checking, Backward, File

LEMMA FilesTypedStep ==
  ASSUME TypeOK, NEW w \in Windows, Acts(w)
  PROVE  FilesTyped'
<1> DEFINE f == File(w)
           Typing == [Windows -> [Files -> Nat]]
           Set(n, m) == \/ n = m \/ \E o \in Nat : m = [n EXCEPT ![w][f] = o]
                        \/ m = [n EXCEPT ![w] = [g \in Files |-> 0]]
           Names == live' \in [Files -> Nat] /\ Set(temp, temp') /\ Set(old, old') /\ kept' \subseteq Nat
<1>0. /\ f \in Files /\ Collection \in Files /\ Session \in Files
      /\ FilesTyped /\ Made \in Nat /\ Len(data) \in Nat
      /\ \A g \in Files : live[g] \in Nat /\ temp[w][g] \in Nat /\ old[w][g] \in Nat
  BY AtFile, NamesTyped, Typed
<1> HIDE DEF f
<1>16. f \in Files /\ live \in [Files -> Nat] /\ temp \in Typing /\ old \in Typing
  BY <1>0 DEF FilesTyped
<1>1. ASSUME NEW n \in Typing, NEW m, Set(n, m) PROVE m \in Typing
  <2>1. CASE n = m
    BY <2>1
  <2>2. ASSUME NEW o \in Nat, m = [n EXCEPT ![w][f] = o] PROVE m \in Typing
    BY <1>0, <2>2
  <2>3. CASE m = [n EXCEPT ![w] = [g \in Files |-> 0]]
    BY <1>0, <2>3
  <2> QED BY <1>1, <2>1, <2>2, <2>3
<1>2. ASSUME NEW d \in Data, data' = Append(data, d) PROVE data' \in Seq(Data)
  BY <1>0, <1>2 DEF FilesTyped
<1>3. ASSUME NEW o \in Nat, NEW d \in Data, data' = [data EXCEPT ![o] = d]
      PROVE  data' \in Seq(Data)
  <2>1. CASE o \in 1..Len(data)
    BY <1>0, <1>3, <2>1, ExceptSeq DEF FilesTyped
  <2>2. CASE o \notin 1..Len(data)
    <3>1. data \in [1..Len(data) -> Data]
      BY <1>0 DEF FilesTyped
    <3>2. data' = data
      BY <1>3, <2>2, <3>1
    <3> QED BY <1>0, <3>2 DEF FilesTyped
  <2> QED BY <2>1, <2>2
<1>4. ASSUME NEW t \in Typing, NEW c, NextPlan(w, c, t) PROVE kept' \subseteq Nat
  <2>1. ASSUME NEW n \in Typing PROVE Leftovers(w, n) \subseteq Nat
    BY <2>1 DEF Leftovers
  <2>2. kept \subseteq Nat /\ old \in Typing
    BY <1>0 DEF FilesTyped
  <2> QED BY <1>4, <2>1, <2>2 DEF NextPlan
<1> HIDE DEF Set
<1>5. ASSUME NEW o \in Nat, NEW n
      PROVE  /\ Set(n, n) /\ Set(n, [n EXCEPT ![w][f] = o])
             /\ Set(n, [n EXCEPT ![w] = [g \in Files |-> 0]])
  BY <1>5 DEF Set
<1>6. ASSUME NEW c, NextPlan(w, c, temp) PROVE Set(temp, temp') /\ Set(old, old') /\ kept' \subseteq Nat
  BY <1>0, <1>4, <1>5, <1>6 DEF NextPlan, FilesTyped
<1>7. CASE Stage(w)
  <2>1. data' \in Seq(Data)
    BY <1>0, <1>2, <1>7 DEF Stage, Step, Staged, Make, Data, names, FilesTyped
  <2>2. Set(temp, temp') /\ UNCHANGED <<live, old, kept>>
    BY <1>0, <1>5, <1>7 DEF Stage, Step, Staged, names, f
  <2> QED BY <1>0, <1>1, <2>1, <2>2 DEF FilesTyped
<1>8. CASE Displace(w)
  <2>1. \/ UNCHANGED <<live, old>>
        \/ live' = [live EXCEPT ![f] = 0] /\ old' = [old EXCEPT ![w][f] = live[f]]
    BY <1>8 DEF Displace, Step, names, f
  <2>2. live[f] \in Nat
    BY <1>16
  <2>3. live' \in [Files -> Nat]
    BY <1>16, <2>1
  <2>4. old' \in Typing
    <3>1. CASE old' = [old EXCEPT ![w][f] = live[f]]
      BY <1>16, <2>2, <3>1
    <3> QED BY <1>16, <2>1, <3>1
  <2> QED BY <1>0, <1>8, <2>3, <2>4 DEF FilesTyped, Displace, Step, names
<1>15. CASE Publish(w)
  <2>1. \/ UNCHANGED <<live, temp>>
        \/ live' = [live EXCEPT ![f] = temp[w][f]] /\ temp' = [temp EXCEPT ![w][f] = 0]
    BY <1>15 DEF Publish, Step, names, f
  <2>2. temp[w][f] \in Nat
    BY <1>16
  <2>3. live' \in [Files -> Nat]
    BY <1>16, <2>1, <2>2
  <2>4. temp' \in Typing
    <3>1. CASE temp' = [temp EXCEPT ![w][f] = 0]
      BY <1>16, <3>1
    <3> QED BY <1>16, <2>1, <3>1
  <2> QED BY <1>0, <1>15, <2>3, <2>4 DEF FilesTyped, Publish, Step, names
<1>9. CASE Clean(w)
  <2>1. /\ old' = [old EXCEPT ![w][f] = 0] /\ UNCHANGED <<live, temp, data>>
        /\ kept' = kept \/ kept' = kept \cup ({old[w][f]} \ {0})
    BY <1>9 DEF Clean, f
  <2>2. old' \in Typing /\ kept' \subseteq Nat
    BY <1>0, <2>1 DEF FilesTyped
  <2> QED BY <1>0, <2>1, <2>2 DEF FilesTyped
<1>10. CASE Undo(w) \/ Unpublish(w) \/ Unpublished(w) \/ PutBack(w)
  <2>1. /\ UNCHANGED data
        /\ \/ UNCHANGED <<live, temp, old, kept>>
           \/ UNCHANGED live /\ \E c : NextPlan(w, c, temp)
           \/ /\ live' = [live EXCEPT ![f] = 0] /\ temp' = [temp EXCEPT ![w][f] = live[f]]
              /\ UNCHANGED <<old, kept>>
           \/ /\ live' = [live EXCEPT ![f] = old[w][f]] /\ old' = [old EXCEPT ![w][f] = 0]
              /\ UNCHANGED <<temp, kept>>
    <3>1. CASE Undo(w)
      BY <3>1 DEF Undo, Undoing
    <3>2. CASE Unpublish(w)
      BY <3>2 DEF Unpublish, Undoing, f
    <3>3. CASE Unpublished(w)
      BY <3>3 DEF Unpublished, Undoing
    <3>4. CASE PutBack(w)
      BY <3>4 DEF PutBack, Undoing, f
    <3> QED BY <1>10, <3>1, <3>2, <3>3, <3>4
  <2>2. live' \in [Files -> Nat]
    BY <1>0, <2>1 DEF FilesTyped
  <2>3. temp' \in Typing /\ old' \in Typing
    <3>1. CASE UNCHANGED <<temp, old>> \/ \E c : NextPlan(w, c, temp)
      BY <1>1, <1>6, <1>16, <3>1
    <3>2. CASE temp' = [temp EXCEPT ![w][f] = live[f]] /\ UNCHANGED old
      BY <1>16, <3>2
    <3>3. CASE old' = [old EXCEPT ![w][f] = 0] /\ UNCHANGED temp
      BY <1>16, <3>3
    <3> QED BY <2>1, <3>1, <3>2, <3>3
  <2>4. kept' \subseteq Nat
    BY <1>0, <1>6, <2>1 DEF FilesTyped
  <2> QED BY <1>0, <2>1, <2>2, <2>3, <2>4 DEF FilesTyped
<1>11. CASE Discard(w)
  <2> DEFINE t == [temp EXCEPT ![w][f] = 0]
  <2>1. t \in Typing
    BY <1>0, <1>1, <1>5 DEF FilesTyped
  <2> HIDE DEF t
  <2>2. (NextPlan(w, TRUE, t) \/ \E c : NextPlan(w, c, temp)) /\ UNCHANGED <<live, data>>
    BY <1>11 DEF Discard, Undoing, f, t
  <2>3. ASSUME NextPlan(w, TRUE, t) PROVE temp' \in Typing /\ old' \in Typing /\ kept' \subseteq Nat
    <3>1. Set(t, temp') /\ Set(old, old')
      BY <1>0, <1>5, <2>3 DEF NextPlan
    <3> QED BY <1>0, <1>1, <1>4, <2>1, <2>3, <3>1 DEF FilesTyped
  <2>4. ASSUME NEW c, NextPlan(w, c, temp) PROVE temp' \in Typing /\ old' \in Typing /\ kept' \subseteq Nat
    BY <1>0, <1>1, <1>6, <2>4 DEF FilesTyped
  <2> QED BY <1>0, <2>2, <2>3, <2>4 DEF FilesTyped
<1>12. CASE Replace(w) \/ Truncate(w) \/ Write(w) \/ Clear(w)
  <2>1. data' \in Seq(Data)
    BY <1>0, <1>2, <1>3, <1>12 DEF Replace, Truncate, Write, Clear, Make, Data, Versions, TypeOK
  <2>2. /\ UNCHANGED <<temp, old, kept>>
        /\ \/ UNCHANGED live
           \/ \E g \in Files, o \in Nat : live' = [live EXCEPT ![g] = o]
    BY <1>0, <1>12 DEF Replace, Truncate, Write, Clear, names
  <2>3. live' \in [Files -> Nat]
    BY <1>0, <2>2 DEF FilesTyped
  <2>4. temp' \in Typing /\ old' \in Typing /\ kept' \subseteq Nat
    BY <1>0, <2>2 DEF FilesTyped
  <2> QED BY <2>1, <2>3, <2>4 DEF FilesTyped
<1>13. CASE Crash(w)
  <2>1. Set(temp, temp') /\ Set(old, old') /\ UNCHANGED <<live, data>>
    BY <1>0, <1>5, <1>13 DEF Crash
  <2>2. ASSUME NEW n \in Typing PROVE Leftovers(w, n) \subseteq Nat
    BY <2>2 DEF Leftovers
  <2>3. kept' \subseteq Nat
    BY <1>0, <1>13, <2>2 DEF Crash, FilesTyped
  <2> QED BY <1>0, <1>1, <2>1, <2>3 DEF FilesTyped
<1>14. CASE \/ Begin(w) \/ Hash(w) \/ Archive(w) \/ Open(w) \/ Check(w) \/ Displaced(w)
            \/ Published(w) \/ CheckSave(w) \/ Reload(w)
            \/ BackUpState(w, "overwriting") \/ BackUpState(w, "clearing")
  <2>1. UNCHANGED <<live, temp, old, kept, data>>
    BY <1>14 DEF Begin, Hash, Archive, Open, Check, Step, Displaced, Published, Look, CheckSave, Reload,
       BackUpState, names
  <2> QED BY <1>0, <2>1 DEF FilesTyped
<1> QED
  BY <1>7, <1>8, <1>9, <1>10, <1>11, <1>12, <1>13, <1>14, <1>15 DEF Acts, Restore, Saving


\* A plan as it is made.
Fresh(w, f) ==
    /\ PlansTyped'
    /\ \A v \in Windows, g \in Files : v # w \/ g # f => plan'[v][g] = plan[v][g]
    /\ plan'[w][f] # None /\ plan'[w][f].original = live[f] /\ plan'[w][f].new = Made
    /\ ~plan'[w][f].displaced /\ ~plan'[w][f].published /\ ~plan'[w][f].ambiguous
\* Plans that are thrown away.
Emptied(w) ==
    /\ PlansTyped'
    /\ \A v \in Windows, g \in Files : plan'[v][g] = IF v = w THEN None ELSE plan[v][g]

LEMMA PlanEmptied ==
  ASSUME TypeOK, NEW w \in Windows, plan' = [plan EXCEPT ![w] = [f \in Files |-> None]]
  PROVE  Emptied(w)
BY Typed DEF PlansTyped, Emptied

LEMMA PlanMade ==
  ASSUME TypeOK, NEW w \in Windows, Staged(w)
  PROVE  Fresh(w, File(w))
<1> DEFINE f == File(w)
           p == [original |-> live[f], new |-> Made, displaced |-> FALSE,
                 published |-> FALSE, ambiguous |-> FALSE]
<1>1. f \in Files /\ live[f] \in Nat /\ Made \in Nat /\ PlansTyped
  BY AtFile, NamesTyped, Typed
<1>2. /\ p \in Plans /\ p.original = live[f] /\ p.new = Made
      /\ ~p.displaced /\ ~p.published /\ ~p.ambiguous
  BY <1>1 DEF Plans
<1>3. plan' = [plan EXCEPT ![w][f] = p]
  BY DEF Staged
<1> HIDE DEF p, f
<1>4. p # None
  BY <1>2, NoPlanAssumption
<1>5. plan'[w][f] = p /\ \A v \in Windows, g \in Files : v # w \/ g # f => plan'[v][g] = plan[v][g]
  BY <1>1, <1>3 DEF PlansTyped
<1>6. PlansTyped'
  BY <1>1, <1>2, <1>3 DEF PlansTyped
<1> QED BY <1>2, <1>4, <1>5, <1>6 DEF Fresh, f

\* A plan that goes on: what it is for stays, and a doubt about it is not forgotten.
Turned(w, f) ==
    /\ PlansTyped' /\ plan[w][f] # None /\ plan'[w][f] # None
    /\ \A v \in Windows, g \in Files : v # w \/ g # f => plan'[v][g] = plan[v][g]
    /\ plan'[w][f].original = plan[w][f].original /\ plan'[w][f].new = plan[w][f].new
    /\ plan[w][f].ambiguous => plan'[w][f].ambiguous
    /\ plan'[w][f].displaced => plan[w][f].displaced \/ (pc[w] = "displace" /\ live[f] # 0)

LEMMA PlanSteps ==
  ASSUME TypeOK, Flow, NEW w \in Windows, Acts(w)
  PROVE  /\ PlansTyped'
         /\ \/ UNCHANGED plan
            \/ Emptied(w)
            \/ pc[w] = "stage" /\ Staged(w) /\ Fresh(w, File(w))
            \/ Turned(w, File(w))
<1> DEFINE f == File(w)
<1>0. f \in Files /\ PlansTyped
  BY AtFile, Typed
<1>1. CASE UNCHANGED plan
  BY <1>0, <1>1 DEF PlansTyped
<1>2. CASE Emptied(w)
  BY <1>2 DEF Emptied
<1>3. CASE Stage(w)
  <2>1. pc[w] = "stage" /\ (Staged(w) \/ UNCHANGED plan)
    BY <1>3 DEF Stage, Step
  <2> QED BY <1>1, <2>1, PlanMade DEF Fresh
<1>4. ASSUME \/ Displace(w) \/ Displaced(w) \/ Publish(w) \/ Published(w)
             \/ Unpublished(w) \/ PutBack(w)
      PROVE  \/ UNCHANGED plan \/ Emptied(w)
             \/ Turned(w, f)
  <2>1. plan[w][f] # None
    BY <1>4, PlanThere DEF Displace, Displaced, Publish, Published, Unpublished, PutBack, Step, Look,
       Undoing, Checking, Backward, Plan
  <2>2. \/ UNCHANGED plan \/ plan' = [plan EXCEPT ![w] = [g \in Files |-> None]]
        \/ plan' = [plan EXCEPT ![w][f].displaced = TRUE] /\ pc[w] = "displace" /\ live[f] # 0
        \/ plan' = [plan EXCEPT ![w][f].displaced = FALSE]
        \/ \E b \in BOOLEAN : plan' = [plan EXCEPT ![w][f].published = b]
        \/ plan' = [plan EXCEPT ![w][f].ambiguous = TRUE]
    BY <1>4 DEF Displace, Displaced, Publish, Published, Unpublished, PutBack, Step, Look,
       Undoing, NextPlan, Finish
  <2> HIDE DEF f
  <2>3. ASSUME plan' = [plan EXCEPT ![w][f].displaced = TRUE], pc[w] = "displace", live[f] # 0
        PROVE  Turned(w, f)
    <3>1. Marked(w, f, TRUE, plan[w][f].published, plan[w][f].ambiguous)
      BY <1>0, <2>1, <2>3, Marks
    <3> QED BY <2>1, <2>3, <3>1 DEF Marked, Turned
  <2>4. ASSUME plan' = [plan EXCEPT ![w][f].displaced = FALSE]
        PROVE  Turned(w, f)
    <3>1. Marked(w, f, FALSE, plan[w][f].published, plan[w][f].ambiguous)
      BY <1>0, <2>1, <2>4, Marks
    <3> QED BY <2>1, <3>1 DEF Marked, Turned
  <2>5. ASSUME NEW b \in BOOLEAN, plan' = [plan EXCEPT ![w][f].published = b]
        PROVE  Turned(w, f)
    <3>1. Marked(w, f, plan[w][f].displaced, b, plan[w][f].ambiguous)
      BY <1>0, <2>1, <2>5, Marks
    <3> QED BY <2>1, <3>1 DEF Marked, Turned
  <2>6. ASSUME plan' = [plan EXCEPT ![w][f].ambiguous = TRUE]
        PROVE  Turned(w, f)
    <3>1. Marked(w, f, plan[w][f].displaced, plan[w][f].published, TRUE)
      BY <1>0, <2>1, <2>6, Marks
    <3> QED BY <2>1, <3>1 DEF Marked, Turned
  <2> QED BY <2>2, <2>3, <2>4, <2>5, <2>6, PlanEmptied
<1>5. CASE \/ Begin(w) \/ Hash(w) \/ Archive(w) \/ Open(w) \/ Check(w) \/ Clean(w)
           \/ Undo(w) \/ Unpublish(w) \/ Discard(w) \/ Saving(w) \/ Crash(w)
  <2>1. UNCHANGED plan \/ plan' = [plan EXCEPT ![w] = [g \in Files |-> None]]
    BY <1>5 DEF Begin, Hash, Archive, Open, Check, Step, Clean, Undo, Unpublish, Discard, Undoing,
       NextPlan, Finish, Saving, CheckSave, Replace, Reload, BackUpState, Truncate, Write, Clear,
       Crash, job
  <2> QED BY <1>1, <1>2, <2>1, PlanEmptied
<1> QED
  BY <1>1, <1>2, <1>3, <1>4, <1>5 DEF Acts, Restore, Turned

LEMMA ContentTyped ==
  ASSUME TypeOK, Known, NEW f \in Files
  PROVE  /\ Content(f) \in Read
         /\ live[f] # 0 => live[f] \in DOMAIN data /\ Content(f) = data[live[f]] /\ Content(f) \in Data
<1>1. data \in Seq(Data) /\ live[f] \in 0..Len(data) /\ Len(data) \in Nat
  BY NamesTyped DEF Known, Exists
<1> QED BY <1>1 DEF Content, Read

LEMMA BackupsTypedStep ==
  ASSUME TypeOK, Known, NEW w \in Windows, Acts(w)
  PROVE  BackupsTyped'
<1> DEFINE f == File(w)
           Rec == [hash : Read, bytes : Read]
<1>0. /\ f \in Files /\ Collection \in Files /\ Content(f) \in Read
      /\ pre \in [Windows -> [Files -> Rec]] /\ zips \subseteq Data
  BY AtFile, NamesTyped, ContentTyped, Typed DEF BackupsTyped
<1>1. CASE UNCHANGED backup
  BY <1>0, <1>1 DEF backup, BackupsTyped
<1>2. Nothing \in [Files -> Rec]
  BY DEF Nothing, Read
<1>3. ASSUME pre' = [pre EXCEPT ![w] = Nothing], UNCHANGED zips PROVE BackupsTyped'
  BY <1>0, <1>2, <1>3 DEF BackupsTyped
<1> HIDE DEF f, Rec
<1>4. ASSUME NEW p \in [Windows -> [Files -> Rec]], Packed(w, p) PROVE BackupsTyped'
  <2>1. [p EXCEPT ![w] = Nothing] \in [Windows -> [Files -> Rec]]
    BY <1>2
  <2>2. p[w][Collection] \in Rec
    BY <1>0
  <2>3. pre' \in [Windows -> [Files -> Rec]]
    BY <1>4, <2>1 DEF Packed
  <2>4. p[w][Collection].bytes \in Read
    BY <2>2 DEF Rec
  <2>5. zips' \subseteq Data
    BY <1>0, <1>4, <2>4 DEF Packed, Read
  <2> QED BY <2>3, <2>5 DEF BackupsTyped, Rec
<1>5. ASSUME NEW c \in Read
      PROVE  /\ [pre EXCEPT ![w][f].hash = c] \in [Windows -> [Files -> Rec]]
             /\ [pre EXCEPT ![w][f].bytes = c] \in [Windows -> [Files -> Rec]]
  <2> DEFINE r == [pre[w][f] EXCEPT !.hash = c]
             s == [pre[w][f] EXCEPT !.bytes = c]
  <2>1. pre[w][f] \in Rec
    BY <1>0
  <2>2. r \in Rec /\ s \in Rec
    BY <1>5, <2>1 DEF Rec
  <2>3. /\ [pre EXCEPT ![w][f].hash = c] = [pre EXCEPT ![w][f] = r]
        /\ [pre EXCEPT ![w][f].bytes = c] = [pre EXCEPT ![w][f] = s]
    OBVIOUS
  <2> HIDE DEF r, s
  <2>4. ASSUME NEW q \in Rec PROVE [pre EXCEPT ![w][f] = q] \in [Windows -> [Files -> Rec]]
    BY <1>0, <2>4
  <2> QED BY <2>2, <2>3, <2>4
<1>6. CASE Begin(w)
  BY <1>3, <1>6 DEF Begin
<1>7. CASE Hash(w)
  <2>1. \/ UNCHANGED backup \/ Packed(w, pre)
        \/ pre' = [pre EXCEPT ![w][f].hash = Content(f)] /\ UNCHANGED zips
    BY <1>7 DEF Hash, Step, f
  <2> QED BY <1>0, <1>1, <1>4, <1>5, <2>1 DEF BackupsTyped, Rec
<1>8. CASE Archive(w)
  <2>1. UNCHANGED backup \/ Packed(w, [pre EXCEPT ![w][f].bytes = Content(f)])
    BY <1>8 DEF Archive, Step, f
  <2> QED BY <1>0, <1>1, <1>4, <1>5, <2>1
<1>9. CASE \/ Stage(w) \/ Open(w) \/ Check(w) \/ Displace(w) \/ Displaced(w) \/ Publish(w)
           \/ Published(w) \/ Clean(w) \/ Undo(w) \/ Unpublish(w) \/ Unpublished(w)
           \/ PutBack(w) \/ Discard(w) \/ Saving(w) \/ Crash(w)
  <2>1. UNCHANGED backup
    BY <1>9 DEF Stage, Staged, Open, Check, Displace, Displaced, Publish, Published, Clean, Undo,
       Unpublish, Unpublished, PutBack, Discard, Step, Look, Undoing, Saving, CheckSave, Replace,
       Reload, BackUpState, Truncate, Write, Clear, Crash, backup, job
  <2> QED BY <1>1, <2>1
<1> QED BY <1>6, <1>7, <1>8, <1>9 DEF Acts, Restore

LEMMA PlaceTypedStep ==
  ASSUME TypeOK, NEW w \in Windows, Acts(w)
  PROVE  PlaceTyped'
<1>0. PlaceTyped /\ Places = 1..Len(Order) /\ Len(Order) \in Places /\ 1 \in Places /\ at[w] \in Places
  <2>1. Order \in Seq(Files) /\ Order # <<>>
    BY RestoreAssumption
  <2>2. Len(Order) \in Nat /\ Len(Order) # 0
    BY <2>1, EmptySeq
  <2> QED BY <2>2, AtFile, Typed
<1> DEFINE Goes == pc' = pc \/ \E s \in Restoring \cup Idle : GoTo(w, s)
           Gets == result' = result \/ \E r \in {"none", "undoing", "partial", "ok", "failed", "incomplete"} :
                                            result' = [result EXCEPT ![w] = r]
           Shifts == at' = at \/ \E i \in Places : at' = [at EXCEPT ![w] = i]
<1>1. SUFFICES Goes /\ Gets /\ Shifts
  BY <1>0 DEF PlaceTyped, GoTo
<1>2. at[w] < Len(Order) => at[w] + 1 \in Places
  BY <1>0
<1>3. at[w] > 1 => at[w] - 1 \in Places
  BY <1>0
<1> HIDE DEF Goes, Gets, Shifts
<1>4. ASSUME NEW s \in Restoring \cup Idle, NEW t \in Restoring \cup Idle, Advance(w, s, t)
      PROVE  Goes /\ Shifts
  BY <1>0, <1>2, <1>4 DEF Advance, Goes, Shifts
<1>5. ASSUME Raise(w) PROVE Goes /\ Gets /\ Shifts
  BY <1>0, <1>5 DEF Raise, Goes, Gets, Shifts, Restoring, Backward
<1>6. ASSUME NEW r \in {"none", "undoing", "partial", "ok", "failed", "incomplete"}, Finish(w, r)
      PROVE  Goes /\ Gets /\ Shifts
  BY <1>0, <1>6 DEF Finish, Goes, Gets, Shifts, Idle
<1>7. ASSUME NEW c, NEW t, NextPlan(w, c, t) PROVE Goes /\ Gets /\ Shifts
  <2>1. CASE at[w] > 1
    <3>1. Shifts
      BY <1>3, <1>7, <2>1 DEF NextPlan, Shifts
    <3>2. Goes
      BY <1>7, <2>1 DEF NextPlan, Goes, Restoring, Backward
    <3>3. Gets
      BY <1>0, <1>7, <2>1 DEF NextPlan, Gets, PlaceTyped
    <3> QED BY <3>1, <3>2, <3>3
  <2>2. CASE ~(at[w] > 1)
    BY <1>6, <1>7, <2>2 DEF NextPlan, Result
  <2> QED BY <2>1, <2>2
<1>8. ASSUME NEW s \in Restoring \cup Idle, GoTo(w, s), UNCHANGED <<at, result>>
      PROVE  Goes /\ Gets /\ Shifts
  BY <1>8 DEF Goes, Gets, Shifts
<1>9. ASSUME UNCHANGED <<pc, at, result>> PROVE Goes /\ Gets /\ Shifts
  BY <1>9 DEF Goes, Gets, Shifts
<1>10. UNCHANGED result => Gets
  BY DEF Gets
<1> USE DEF Restoring, Forward, Backward, Idle
<1>11. CASE Begin(w)
  BY <1>0, <1>11 DEF Begin, Goes, Gets, Shifts
<1>12. CASE Stage(w)
  BY <1>4, <1>5, <1>10, <1>12 DEF Stage, Step
<1>13. CASE Hash(w)
  BY <1>4, <1>5, <1>8, <1>10, <1>13 DEF Hash, Step
<1>14. CASE Archive(w)
  BY <1>4, <1>5, <1>10, <1>14 DEF Archive, Step
<1>15. CASE Open(w)
  BY <1>4, <1>5, <1>10, <1>15 DEF Open, Step
<1>16. CASE Check(w) \/ Displace(w) \/ Publish(w)
  BY <1>5, <1>8, <1>16 DEF Check, Displace, Publish, Step
<1>17. CASE Displaced(w) \/ Published(w)
  BY <1>4, <1>5, <1>8, <1>10, <1>17 DEF Displaced, Published, Look
<1>18. CASE Clean(w)
  BY <1>2, <1>6, <1>18 DEF Clean, Goes, Gets, Shifts
<1>19. CASE Undo(w) \/ Unpublish(w) \/ Unpublished(w) \/ PutBack(w) \/ Discard(w)
  BY <1>7, <1>8, <1>19 DEF Undo, Unpublish, Unpublished, PutBack, Discard, Undoing
<1>20. CASE Saving(w)
  BY <1>8, <1>9, <1>20 DEF Saving, CheckSave, Replace, Reload, BackUpState, Truncate, Write, Clear, job
<1>21. CASE Crash(w)
  BY <1>0, <1>21 DEF Crash, Goes, Gets, Shifts
<1> QED
  BY <1>11, <1>12, <1>13, <1>14, <1>15, <1>16, <1>17, <1>18, <1>19, <1>20, <1>21 DEF Acts, Restore

LEMMA SaversTypedStep ==
  ASSUME TypeOK, Known, NEW w \in Windows, Acts(w)
  PROVE  SaversTyped'
<1>0. /\ Collection \in Files /\ Session \in Files /\ Content(Collection) \in Read
      /\ live[Session] # 0 => Content(Session) \in Data
      /\ live[Session] \in Nat /\ Made \in Nat /\ SaversTyped
      /\ MaxRestores \in Nat /\ MaxSaves \in Nat /\ MaxFaults \in Nat
      /\ saves \in Read
  <2>1. Collection \in Files /\ Session \in Files /\ live[Session] \in Nat /\ Made \in Nat
    BY NamesTyped
  <2>2. SaversTyped /\ MaxRestores \in Nat /\ MaxSaves \in Nat /\ MaxFaults \in Nat
    BY Typed, RestoreAssumption
  <2>3. saves \in Read
    BY <2>2 DEF SaversTyped, Read, Data, Versions
  <2> QED BY <2>1, <2>2, <2>3, ContentTyped
<1>1. ASSUME UNCHANGED faults \/ Fail PROVE faults' \in 0..MaxFaults
  BY <1>0, <1>1 DEF Fail, SaversTyped
<1>2. ASSUME UNCHANGED saves \/ Save PROVE saves' \in 0..MaxSaves
  BY <1>0, <1>2 DEF Save, SaversTyped
<1>3. ASSUME UNCHANGED <<savers, restores>>, UNCHANGED faults \/ Fail PROVE SaversTyped'
  BY <1>0, <1>1, <1>3 DEF savers, SaversTyped
<1>4. CASE Begin(w)
  BY <1>0, <1>4 DEF Begin, savers, SaversTyped
<1>5. CASE \/ Stage(w) \/ Hash(w) \/ Archive(w) \/ Open(w) \/ Check(w) \/ Displace(w)
           \/ Displaced(w) \/ Publish(w) \/ Published(w) \/ Clean(w)
           \/ Undo(w) \/ Unpublish(w) \/ Unpublished(w) \/ PutBack(w) \/ Discard(w)
  <2>1. UNCHANGED <<savers, restores>> /\ (UNCHANGED faults \/ Fail)
    BY <1>5 DEF Stage, Hash, Archive, Open, Check, Displace, Displaced, Publish, Published, Clean,
       Undo, Unpublish, Unpublished, PutBack, Discard, Step, Look, Undoing
  <2> QED BY <1>3, <2>1
<1>6. CASE CheckSave(w)
  BY <1>0, <1>2, <1>6 DEF CheckSave, SaversTyped
<1>7. CASE Replace(w)
  BY <1>0, <1>7 DEF Replace, SaversTyped
<1>8. CASE Reload(w)
  BY <1>0, <1>8 DEF Reload, SaversTyped
<1>9. CASE BackUpState(w, "overwriting") \/ BackUpState(w, "clearing")
  BY <1>0, <1>1, <1>9 DEF BackUpState, SaversTyped
<1>10. CASE Truncate(w)
  BY <1>0, <1>2, <1>10 DEF Truncate, SaversTyped
<1>11. CASE Write(w)
  BY <1>0, <1>1, <1>11 DEF Write, SaversTyped
<1>12. CASE Clear(w)
  BY <1>0, <1>12 DEF Clear, savers, SaversTyped
<1>13. CASE Crash(w)
  BY <1>0, <1>1, <1>13 DEF Crash, SaversTyped
<1> QED
  BY <1>4, <1>5, <1>6, <1>7, <1>8, <1>9, <1>10, <1>11, <1>12, <1>13 DEF Acts, Restore, Saving

LEMMA TypeOKStep ==
  ASSUME TypeOK, Flow, Known, NEW w \in Windows, Acts(w)
  PROVE  TypeOK'
<1>1. FilesTyped' /\ PlansTyped' /\ BackupsTyped' /\ PlaceTyped' /\ SaversTyped'
  BY FilesTypedStep, PlanSteps, BackupsTypedStep, PlaceTypedStep, SaversTypedStep
<1>2. Places = 1..Len(Order)
  BY RestoreAssumption DEF Places
<1> QED
  BY <1>1, <1>2
  DEF TypeOK, FilesTyped, PlansTyped, BackupsTyped, PlaceTyped, SaversTyped, Idle

-----------------------------------------------------------------------------
(* Known and InPlace.                                                      *)

\* A window writes to the state at its name by then.
LEMMA WritingStep ==
  ASSUME TypeOK, NEW w \in Windows, Acts(w), NEW v \in Windows
  PROVE  writing'[v] \in {writing[v], 0, live'[Session]}
<1>0. writing \in [Windows -> Nat] /\ live \in [Files -> Nat] /\ Session \in Files
  BY NamesTyped DEF TypeOK
<1>1. CASE Restore(w)
  BY <1>1 DEF Restore, Begin, Stage, Hash, Archive, Open, Check, Displace, Displaced, Publish,
     Published, Clean, Undo, Unpublish, Unpublished, PutBack, Discard, Step, Look, Undoing, savers
<1>2. CASE Saving(w)
  BY <1>0, <1>2 DEF Saving, CheckSave, Replace, Reload, BackUpState, Truncate, Write, Clear, savers
<1>3. CASE Crash(w)
  BY <1>0, <1>3 DEF Crash
<1> QED BY <1>1, <1>2, <1>3 DEF Acts

LEMMA KnownStep ==
  ASSUME TypeOK, Flow, Known, NEW w \in Windows, Acts(w)
  PROVE  Known'
<1>0. /\ Len(data) \in Nat /\ Len(data') \in Nat /\ Len(data) <= Len(data')
      /\ Session \in Files /\ Made = Len(data) + 1
  BY KnownNames, NamesTyped
<1>1. Exists \subseteq Exists' /\ 0 \in Exists'
  BY <1>0 DEF Exists
<1>2. ASSUME NEW v \in Windows PROVE writing'[v] \in Exists'
  <2>1. writing[v] \in Exists' /\ live'[Session] \in Exists'
    BY <1>0, <1>1, KnownNames DEF Known
  <2> QED BY <1>1, <2>1, WritingStep
<1>3. ASSUME NEW v \in Windows, NEW g \in Files, plan'[v][g] # None
      PROVE  plan'[v][g].original \in Exists' /\ plan'[v][g].new \in Exists'
  <2>1. CASE plan[v][g] # None /\ plan'[v][g].original = plan[v][g].original
                                /\ plan'[v][g].new = plan[v][g].new
    BY <1>1, <2>1 DEF Known
  <2>2. CASE Staged(w) /\ Fresh(w, File(w)) /\ v = w /\ g = File(w)
    <3>1. Len(data') = Made
      BY <2>2, NamesTyped DEF Staged, Make, Data
    <3>2. live[g] \in Exists /\ Made \in Exists'
      BY <1>0, <3>1 DEF Known, Exists
    <3> QED BY <1>1, <2>2, <3>2 DEF Fresh
  <2> QED BY <1>3, <2>1, <2>2, PlanSteps DEF Emptied, Fresh, Turned
<1> QED BY <1>2, <1>3, KnownNames DEF Known

LEMMA InPlaceStep ==
  ASSUME TypeOK, Known, Distinct, InPlace, NEW w \in Windows, Acts(w)
  PROVE  InPlace'
<1> SUFFICES ASSUME NEW o \in DOMAIN data', Holds(o)', NEW v \in Windows
             PROVE  live'[Session] # o /\ writing'[v] # o
  BY DEF InPlace
<1>0. data' \in Seq(Data)
  BY FilesTypedStep DEF FilesTyped
<1>1. o \in Nat /\ o # 0
  BY <1>0
<1>2. /\ Collection \in Files /\ Session \in Files /\ Collection # Session
      /\ Len(data) \in Nat /\ Made = Len(data) + 1 /\ DOMAIN data = 1..Len(data)
  BY NamesTyped
<1>3. live'[Session] # o
  BY <1>1, <1>2, DistinctStep DEF Distinct, LiveOnce, LiveApart, Holds
<1>4. writing[v] # o
  <2>1. writing[v] \in 0..Len(data)
    BY DEF Known, Exists
  <2>2. CASE Holds(o)
    <3>1. o \in 0..Len(data)
      BY <1>2, <2>2 DEF Holds, Known, Exists
    <3>2. o \in DOMAIN data
      BY <1>1, <1>2, <3>1
    <3> QED BY <2>2, <3>2 DEF InPlace
  <2>3. CASE o = Made
    BY <1>2, <2>1, <2>3
  <2> QED BY <1>1, <2>2, <2>3, HeldBefore
<1> QED BY <1>1, <1>3, <1>4, WritingStep

-----------------------------------------------------------------------------
(* Flow: what each stage of a restore relies on.                           *)

\* The restore of a window as it is, and each of its files.
Still(v) ==
    /\ pc'[v] = pc[v] /\ at'[v] = at[v] /\ result'[v] = result[v]
    /\ plan'[v] = plan[v] /\ temp'[v] = temp[v] /\ old'[v] = old[v]
Same(v, f) == plan'[v][f] = plan[v][f] /\ temp'[v][f] = temp[v][f] /\ old'[v][f] = old[v][f]

LEMMA SameFile ==
  ASSUME NEW v, NEW f, Same(v, f)
  PROVE  /\ Untouched(v, f)' = Untouched(v, f) /\ Replaced(v, f)' = Replaced(v, f)
         /\ Undoable(v, f)' = Undoable(v, f) /\ Undone(v, f)' = Undone(v, f)
         /\ OldAside(v, f)' = OldAside(v, f) /\ NewAside(v, f)' = NewAside(v, f)
BY DEF Same, Untouched, Replaced, Undoable, Undone, OldAside, NewAside

LEMMA FlowStill ==
  ASSUME NEW v, FlowOf(v), Still(v)
  PROVE  FlowOf(v)'
<1>1. Planned(v)' /\ Resting(v)'
  BY DEF FlowOf, Still, Planned, Resting
<1>2. \A f : Same(v, f)
  BY DEF Still, Same
<1>3. File(v)' = File(v) /\ Plan(v)' = Plan(v)
  BY DEF Still, File, Plan
<1>4. Going(v)'
  BY <1>2, <1>3, SameFile DEF FlowOf, Still, Going
<1>5. Returning(v)'
  BY <1>2, <1>3, SameFile DEF FlowOf, Still, Returning
<1> QED BY <1>1, <1>4, <1>5 DEF FlowOf

LEMMA FlowRests ==
  ASSUME NEW w \in Windows, pc'[w] \in Idle,
         \A f \in Files : plan'[w][f] = None /\ temp'[w][f] = 0 /\ old'[w][f] = 0
  PROVE  FlowOf(w)'
BY DEF FlowOf, Planned, Resting, Going, Returning, Idle, Checking, Backward

LEMMA FlowRaise ==
  ASSUME TypeOK, NEW w \in Windows, Raise(w), Planned(w)', \A i \in Places : Undoable(w, Order[i])'
  PROVE  FlowOf(w)'
<1>1. /\ pc'[w] = "undo" /\ at'[w] = Len(Order) /\ result'[w] = "undoing"
      /\ Places = 1..Len(Order) /\ Len(Order) \in Places
  BY AtFile DEF Raise, GoTo, TypeOK
<1>2. Resting(w)' /\ Going(w)'
  BY <1>1 DEF Resting, Going, Idle, Checking
<1>3. File(w)' = Order[Len(Order)]
  BY <1>1 DEF File
<1>4. Returning(w)'
  BY <1>1, <1>3 DEF Returning
<1> QED BY <1>2, <1>4 DEF FlowOf

\* Wherever an exception comes, every file can be undone.
LEMMA RaiseAnywhere ==
  ASSUME TypeOK, NEW w \in Windows, FlowOf(w), Raise(w), UNCHANGED <<temp, old, plan>>,
         pc[w] \in Forward \ {"displaced", "clean"}
  PROVE  FlowOf(w)'
<1>1. Planned(w)'
  BY DEF FlowOf, Planned
<1>2. ASSUME NEW i \in Places PROVE Undoable(w, Order[i])
  BY <1>2, AtFile DEF FlowOf, Going, Undoable, Untouched, Replaced, OldAside, Forward, Checking, File
<1>3. \A i \in Places : Undoable(w, Order[i])'
  BY <1>2, SameFile DEF Same
<1> QED BY <1>1, <1>3, FlowRaise

\* One plan further back; t is what is at the .new names then.
LEMMA FlowNext ==
  ASSUME TypeOK, NEW w \in Windows, FlowOf(w), pc[w] \in Backward,
         NEW t \in [Windows -> [Files -> Nat]], NEW c \in BOOLEAN, NextPlan(w, c, t),
         \A g \in Files : \/ t[w][g] = temp[w][g]
                          \/ g = File(w) /\ t[w][g] = 0 /\ Plan(w) # None,
         c => \/ Plan(w) = None
              \/ /\ ~Plan(w).displaced
                 /\ t[w][File(w)] = 0 \/ (t[w][File(w)] = Plan(w).new /\ Plan(w).ambiguous)
  PROVE  FlowOf(w)'
<1>0. /\ at[w] \in Places /\ Places = 1..Len(Order) /\ Len(Order) \in Nat /\ File(w) \in Files
      /\ \A i \in Places : Order[i] \in Files /\ (i # at[w] => Order[i] # File(w))
  BY AtFile
<1>1. CASE at[w] > 1
  <2>1. /\ at'[w] = at[w] - 1 /\ pc'[w] = "undo" /\ temp' = t /\ UNCHANGED <<plan, old, kept>>
        /\ result'[w] = IF c THEN result[w] ELSE "partial"
    BY <1>1 DEF NextPlan, GoTo, TypeOK
  <2>2. ASSUME NEW i \in Places, i # at[w] PROVE Same(w, Order[i])
    BY <1>0, <2>1, <2>2 DEF Same
  <2>3. Planned(w)'
    BY <1>0, <2>1 DEF FlowOf, Planned, Plan
  <2>4. Resting(w)' /\ Going(w)'
    BY <2>1 DEF Resting, Going, Idle, Checking
  <2>5. \A i \in Places : i < at[w] => Undoable(w, Order[i])'
    BY <1>0, <2>2, SameFile DEF FlowOf, Returning
  <2>6. File(w)' = Order[at[w] - 1] /\ at[w] - 1 \in Places
    BY <1>0, <1>1, <2>1 DEF File
  <2>7. ASSUME result'[w] = "undoing", NEW i \in Places, i > at'[w] PROVE Undone(w, Order[i])'
    <3>1. c /\ result[w] = "undoing"
      BY <2>1, <2>7
    <3>2. CASE i = at[w]
      BY <2>1, <3>1, <3>2 DEF Undone, File, Plan
    <3>3. CASE i # at[w]
      <4>1. Undone(w, Order[i])
        BY <1>0, <2>1, <2>7, <3>1, <3>3 DEF FlowOf, Returning
      <4> QED BY <2>2, <3>3, <4>1, SameFile
    <3> QED BY <3>2, <3>3
  <2>8. Undoable(w, File(w))'
    BY <1>0, <2>1, <2>5, <2>6
  <2>9. \A i \in Places : i < at'[w] => Undoable(w, Order[i])'
    BY <1>0, <2>1, <2>5
  <2>10. Returning(w)'
    BY <2>1, <2>7, <2>8, <2>9 DEF Returning
  <2> QED BY <2>3, <2>4, <2>10 DEF FlowOf
<1>2. CASE ~(at[w] > 1)
  <2>1. Finish(w, Result(w, c))
    BY <1>2 DEF NextPlan
  <2>3. Emptied(w) /\ pc'[w] = "idle"
    BY <2>1, PlanEmptied DEF Finish, GoTo, TypeOK
  <2>2. \A g \in Files : temp'[w][g] = 0 /\ old'[w][g] = 0
    BY <1>2, NamesTyped DEF NextPlan
  <2> QED BY <2>2, <2>3, FlowRests DEF Emptied, Idle
<1> QED BY <1>1, <1>2

LEMMA Advances ==
  ASSUME TypeOK, NEW w \in Windows, NEW s, NEW t, Advance(w, s, t)
  PROVE  \/ at[w] < Len(Order) /\ at'[w] = at[w] + 1 /\ pc'[w] = s
         \/ at[w] = Len(Order) /\ at'[w] = 1 /\ pc'[w] = t
BY AtFile DEF Advance, GoTo, TypeOK

\* What every step of a restore knows of its place.
Here(w) ==
    /\ at[w] \in Places /\ Places = 1..Len(Order) /\ Len(Order) \in Nat
    /\ File(w) \in Files /\ File(w) = Order[at[w]]
    /\ \A i \in Places : Order[i] \in Files /\ (i # at[w] => Order[i] # File(w))

LEMMA IsHere == ASSUME TypeOK, NEW w \in Windows PROVE Here(w)
BY AtFile DEF Here, File

LEMMA FlowBegin ==
  ASSUME TypeOK, NEW w \in Windows, FlowOf(w), Begin(w)
  PROVE  FlowOf(w)'
<1>1. /\ pc'[w] = "stage" /\ at'[w] = 1 /\ UNCHANGED <<temp, old>>
      /\ Emptied(w) /\ pc[w] = "idle"
  BY PlanEmptied DEF Begin, GoTo, TypeOK, names
<1>2. Planned(w)'
  BY <1>1 DEF FlowOf, Planned, Resting, Idle, Emptied
<1>3. Going(w)'
  BY <1>1, IsHere DEF Going, Emptied, Checking, Here
<1> QED BY <1>1, <1>2, <1>3 DEF FlowOf, Resting, Returning, Idle, Backward

LEMMA FlowStage ==
  ASSUME TypeOK, NEW w \in Windows, FlowOf(w), Stage(w)
  PROVE  FlowOf(w)'
<1>f. PICK f \in Files : f = File(w)
  BY AtFile
<1>0. Here(w) /\ Made \in Nat /\ Made # 0 /\ pc[w] = "stage"
  BY IsHere, NamesTyped DEF Stage, Step
<1>1. CASE Raise(w) /\ UNCHANGED <<temp, old, plan>>
  BY <1>0, <1>1, RaiseAnywhere DEF Forward
<1>2. ASSUME Staged(w), \/ Advance(w, "stage", "hash") /\ UNCHANGED result
                        \/ Raise(w)
      PROVE  FlowOf(w)'
  <2>1. Fresh(w, f) /\ TempGets(w, f, Made) /\ UNCHANGED old
    BY <1>f, <1>0, <1>2, PlanMade, SetTemp DEF Staged
  <2>2. plan[w][f] = None /\ old[w][f] = 0
    BY <1>f, <1>0 DEF FlowOf, Going, Planned, Here
  <2>3. Untouched(w, f)'
    BY <1>0, <2>1 DEF Untouched, NewAside, Fresh, TempGets
  <2>4. \A g \in Files \ {f} : Same(w, g)
    BY <2>1 DEF Fresh, TempGets, Same
  <2>5. Planned(w)'
    <3>1. ASSUME NEW g \in Files \ {f}
          PROVE  IF plan'[w][g] = None THEN temp'[w][g] = 0 /\ old'[w][g] = 0
                 ELSE /\ \E i \in Places : Order[i] = g
                      /\ plan'[w][g].new # 0 /\ (~plan'[w][g].displaced => old'[w][g] = 0)
      BY <2>4, <3>1 DEF FlowOf, Planned, Same
    <3>2. /\ plan'[w][f] # None /\ \E i \in Places : Order[i] = f
          /\ plan'[w][f].new # 0 /\ old'[w][f] = 0
      BY <1>f, <1>0, <2>1, <2>2 DEF Fresh, Here
    <3> QED BY <3>1, <3>2 DEF Planned
  <2>6. \A i \in Places :
          /\ i < at[w] => Untouched(w, Order[i])'
          /\ i > at[w] => plan'[w][Order[i]] = None
    BY <1>f, <1>0, <2>4, SameFile DEF FlowOf, Going, Here, Same
  <2>7. Order[at[w]] = f
    BY <1>f, <1>0 DEF Here
  <2>8. CASE Raise(w)
    <3>1. \A i \in Places : Undoable(w, Order[i])'
      BY <1>0, <2>3, <2>6, <2>7 DEF Here, Undoable, Untouched, OldAside
    <3> QED BY <2>5, <2>8, <3>1, FlowRaise
  <2>9. CASE at[w] < Len(Order) /\ at'[w] = at[w] + 1 /\ pc'[w] = "stage"
    <3>1. \A i \in Places : IF i < at'[w] THEN Untouched(w, Order[i])' ELSE plan'[w][Order[i]] = None
      BY <1>0, <2>3, <2>6, <2>7, <2>9 DEF Here
    <3>2. Going(w)'
      BY <2>9, <3>1 DEF Going, Checking
    <3> QED BY <2>5, <2>9, <3>2 DEF FlowOf, Resting, Returning, Idle, Backward
  <2>10. CASE at[w] = Len(Order) /\ at'[w] = 1 /\ pc'[w] = "hash"
    <3>1. \A i \in Places : Untouched(w, Order[i])'
      BY <1>0, <2>3, <2>6, <2>7, <2>10 DEF Here
    <3>2. Going(w)'
      BY <2>10, <3>1 DEF Going, Checking
    <3> QED BY <2>5, <2>10, <3>2 DEF FlowOf, Resting, Returning, Idle, Backward
  <2> QED BY <1>2, <2>8, <2>9, <2>10, Advances
<1> QED BY <1>0, <1>1, <1>2 DEF Stage, Step, names

\* The pre-restore backup and the checks before anything is moved.
LEMMA FlowPack ==
  ASSUME TypeOK, NEW w \in Windows, FlowOf(w), Hash(w) \/ Archive(w) \/ Open(w)
  PROVE  FlowOf(w)'
<1>0. Here(w) /\ pc[w] \in {"hash", "archive", "open"} /\ UNCHANGED <<temp, old, plan>>
  BY IsHere DEF Hash, Archive, Open, Step, names
<1>1. \A g \in Files : Same(w, g)
  BY <1>0 DEF Same
<1>2. CASE Raise(w)
  BY <1>0, <1>2, RaiseAnywhere DEF Forward
<1>3. CASE ~Raise(w)
  <2>1. /\ pc'[w] \in {"hash", "archive", "open", "check"}
        /\ pc'[w] = "check" => at'[w] = 1
    BY <1>0, <1>3, Advances DEF Hash, Archive, Open, Step, GoTo, TypeOK
  <2>2. Planned(w)'
    BY <1>0 DEF FlowOf, Planned
  <2>3. \A i \in Places : Untouched(w, Order[i])'
    BY <1>0, <1>1, SameFile DEF FlowOf, Going, Here
  <2>4. Going(w)'
    BY <1>0, <2>1, <2>3 DEF Going, Checking, Here, File
  <2> QED BY <2>1, <2>2, <2>4 DEF FlowOf, Resting, Returning, Idle, Backward
<1> QED BY <1>2, <1>3

LEMMA FlowCheck ==
  ASSUME TypeOK, NEW w \in Windows, FlowOf(w), Check(w)
  PROVE  FlowOf(w)'
<1>0. Here(w) /\ pc[w] = "check" /\ UNCHANGED <<temp, old, plan>>
  BY IsHere DEF Check, Step, names
<1>1. \A g \in Files : Same(w, g)
  BY <1>0 DEF Same
<1>2. CASE Raise(w)
  BY <1>0, <1>2, RaiseAnywhere DEF Forward
<1>3. CASE ~Raise(w)
  <2>1. /\ at'[w] = at[w] /\ pc'[w] \in {"publish", "displace"}
        /\ pc'[w] = "displace" => Plan(w).original # 0
    BY <1>0, <1>3 DEF Check, Step, GoTo, TypeOK
  <2>2. Planned(w)'
    BY <1>0 DEF FlowOf, Planned
  <2>3. File(w)' = File(w) /\ Plan(w)' = Plan(w)
    BY <1>0, <2>1 DEF File, Plan
  <2>4. \A i \in Places :
            /\ i < at[w] => Replaced(w, Order[i])' /\ OldAside(w, Order[i])'
            /\ i > at[w] => Untouched(w, Order[i])'
    BY <1>0, <1>1, SameFile DEF FlowOf, Going, Here, Checking
  <2>5. Untouched(w, File(w))
    BY <1>0 DEF FlowOf, Going
  <2>6. Untouched(w, File(w))'
    BY <1>0, <2>3, <2>5 DEF Untouched, NewAside
  <2>7. Plan(w)' # None /\ NewAside(w, File(w))' /\ ~Plan(w)'.published /\ ~Plan(w)'.ambiguous
        /\ OldAside(w, File(w))'
    BY <2>6 DEF Untouched, Plan, OldAside
  <2>8. Going(w)'
    BY <2>1, <2>3, <2>4, <2>6, <2>7 DEF Going, Checking
  <2> QED BY <2>1, <2>2, <2>8 DEF FlowOf, Resting, Returning, Idle, Backward
<1> QED BY <1>2, <1>3

LEMMA FlowDisplace ==
  ASSUME TypeOK, NEW w \in Windows, FlowOf(w), Displace(w)
  PROVE  FlowOf(w)'
<1>f. PICK f \in Files : f = File(w)
  BY AtFile
<1>0. Here(w) /\ pc[w] = "displace" /\ Untouched(w, f)
  BY <1>f, IsHere DEF Displace, Step, FlowOf, Going
<1>1. CASE Raise(w) /\ UNCHANGED <<temp, old, plan>>
  BY <1>0, <1>1, RaiseAnywhere DEF Forward
<1>2. ASSUME live[f] # 0, old' = [old EXCEPT ![w][f] = live[f]],
             plan' = [plan EXCEPT ![w][f].displaced = TRUE], GoTo(w, "displaced"),
             UNCHANGED <<temp, at>>
      PROVE  FlowOf(w)'
  <2>1. /\ old' = [old EXCEPT ![w][f] = live[f]] /\ UNCHANGED temp
        /\ plan' = [plan EXCEPT ![w][f].displaced = TRUE]
        /\ pc'[w] = "displaced" /\ at'[w] = at[w]
    BY <1>2 DEF GoTo, TypeOK
  <2>2. Marked(w, f, TRUE, FALSE, FALSE)
    BY <1>0, <2>1, Marks, Typed DEF Untouched, Plans, PlansTyped
  <2>3. OldGets(w, f, live[f])
    BY <2>1, SetOld
  <2>4. \A g \in Files : g # f => Same(w, g)
    BY <2>1, <2>2, <2>3 DEF Same, Marked, OldGets
  <2>5. Planned(w)'
    <3>1. ASSUME NEW g \in Files, g # f
          PROVE  IF plan'[w][g] = None THEN temp'[w][g] = 0 /\ old'[w][g] = 0
                 ELSE /\ \E i \in Places : Order[i] = g
                      /\ plan'[w][g].new # 0 /\ (~plan'[w][g].displaced => old'[w][g] = 0)
      BY <2>4, <3>1 DEF FlowOf, Planned, Same
    <3>2. /\ plan'[w][f] # None /\ \E i \in Places : Order[i] = f
          /\ plan'[w][f].new # 0 /\ plan'[w][f].displaced
      BY <1>0, <1>f, <2>2 DEF Marked, Here, FlowOf, Planned, Untouched
    <3> QED BY <3>1, <3>2 DEF Planned
  <2>6. \A i \in Places :
            /\ i < at[w] => Replaced(w, Order[i])' /\ OldAside(w, Order[i])'
            /\ i > at[w] => Untouched(w, Order[i])'
    BY <1>0, <1>f, <2>4, SameFile DEF FlowOf, Going, Here, Checking
  <2>7. NewAside(w, f)'
    BY <1>0, <2>1, <2>2 DEF Untouched, NewAside, Marked
  <2>8. File(w)' = f /\ Plan(w)' = plan'[w][f]
    BY <1>f, <2>1 DEF File, Plan
  <2>9. Plan(w)' # None /\ ~Plan(w)'.published /\ ~Plan(w)'.ambiguous /\ Plan(w)'.displaced
        /\ old'[w][f] # 0
    BY <1>2, <2>2, <2>3, <2>8 DEF Marked, OldGets
  <2>10. Going(w)'
    BY <2>1, <2>6, <2>7, <2>8, <2>9 DEF Going, Checking
  <2> QED BY <2>1, <2>5, <2>10 DEF FlowOf, Resting, Returning, Idle, Backward
<1> QED BY <1>f, <1>1, <1>2 DEF Displace, Step, names

\* Nobody knows whose the object is: the plan is left alone from then on.
LEMMA FlowLost ==
  ASSUME TypeOK, NEW w \in Windows, FlowOf(w), pc[w] \in {"displaced", "published"}, Raise(w),
         plan' = [plan EXCEPT ![w][File(w)].ambiguous = TRUE], UNCHANGED <<temp, old>>
  PROVE  FlowOf(w)'
<1>f. PICK f \in Files : f = File(w)
  BY AtFile
<1>0. Here(w) /\ plan[w][f] # None /\ NewAside(w, f)
  BY <1>f, IsHere DEF FlowOf, Going, Replaced, Plan
<1>1. \E d, p : Marked(w, f, d, p, TRUE) /\ d = plan[w][f].displaced /\ p = plan[w][f].published
  BY <1>f, <1>0, Marks, Typed
<1>2. \A g \in Files : g # f => Same(w, g)
  BY <1>1 DEF Same, Marked
<1>3. Planned(w)'
  <2>1. ASSUME NEW g \in Files, g # f
        PROVE  IF plan'[w][g] = None THEN temp'[w][g] = 0 /\ old'[w][g] = 0
               ELSE /\ \E i \in Places : Order[i] = g
                    /\ plan'[w][g].new # 0 /\ (~plan'[w][g].displaced => old'[w][g] = 0)
    BY <1>2, <2>1 DEF FlowOf, Planned, Same
  <2>2. /\ plan'[w][f] # None /\ \E i \in Places : Order[i] = f
        /\ plan'[w][f].new # 0 /\ (~plan'[w][f].displaced => old'[w][f] = 0)
    BY <1>0, <1>1 DEF Marked, FlowOf, Planned
  <2> QED BY <2>1, <2>2 DEF Planned
<1>4. Undoable(w, f)'
  BY <1>0, <1>1 DEF Undoable, NewAside, OldAside, Marked
<1>5. ASSUME NEW i \in Places, i # at[w] PROVE Undoable(w, Order[i])'
  <2>1. Undoable(w, Order[i])
    BY <1>0, <1>5 DEF FlowOf, Going, Undoable, Untouched, Replaced, OldAside, Checking, Here
  <2> QED BY <1>f, <1>0, <1>2, <1>5, <2>1, SameFile DEF Here
<1>6. \A i \in Places : Undoable(w, Order[i])'
  BY <1>f, <1>0, <1>4, <1>5 DEF Here
<1> QED BY <1>3, <1>6, FlowRaise

LEMMA FlowDisplaced ==
  ASSUME TypeOK, NEW w \in Windows, FlowOf(w), Displaced(w)
  PROVE  FlowOf(w)'
<1>0. Here(w) /\ pc[w] = "displaced" /\ UNCHANGED <<temp, old>>
  BY IsHere DEF Displaced, Look, names
<1>2. CASE Raise(w) /\ plan' = [plan EXCEPT ![w][File(w)].ambiguous = TRUE]
  BY <1>0, <1>2, FlowLost
<1>3. CASE old[w][File(w)] = Plan(w).original /\ GoTo(w, "publish") /\ UNCHANGED <<at, result, plan>>
  <2>1. /\ pc'[w] = "publish" /\ at'[w] = at[w] /\ \A g \in Files : Same(w, g)
        /\ File(w)' = File(w) /\ Plan(w)' = Plan(w)
    BY <1>0, <1>3 DEF GoTo, TypeOK, Same, File, Plan
  <2>2. Planned(w)'
    BY <1>0, <1>3 DEF FlowOf, Planned
  <2>3. \A i \in Places :
            /\ i < at[w] => Replaced(w, Order[i])' /\ OldAside(w, Order[i])'
            /\ i > at[w] => Untouched(w, Order[i])'
    BY <1>0, <2>1, SameFile DEF FlowOf, Going, Here, Checking
  <2>4. Plan(w) # None /\ NewAside(w, File(w)) /\ ~Plan(w).published /\ ~Plan(w).ambiguous
        /\ OldAside(w, File(w))
    BY <1>0, <1>3 DEF FlowOf, Going, OldAside, Plan
  <2>5. NewAside(w, File(w))' /\ OldAside(w, File(w))'
    BY <1>0, <1>3, <2>1, <2>4 DEF NewAside, OldAside
  <2>6. Going(w)'
    BY <2>1, <2>3, <2>4, <2>5 DEF Going, Checking
  <2> QED BY <2>1, <2>2, <2>6 DEF FlowOf, Resting, Returning, Idle, Backward
<1> QED BY <1>0, <1>2, <1>3 DEF Displaced, Look

LEMMA FlowPublish ==
  ASSUME TypeOK, NEW w \in Windows, FlowOf(w), Publish(w)
  PROVE  FlowOf(w)'
<1>f. PICK f \in Files : f = File(w)
  BY AtFile
<1>0. /\ Here(w) /\ pc[w] = "publish" /\ plan[w][f] # None
      /\ OldAside(w, f) /\ ~plan[w][f].ambiguous
  BY <1>f, IsHere DEF Publish, Step, FlowOf, Going, Plan
<1>1. CASE Raise(w) /\ UNCHANGED <<temp, old, plan>>
  BY <1>0, <1>1, RaiseAnywhere DEF Forward
<1>2. ASSUME temp' = [temp EXCEPT ![w][f] = 0], plan' = [plan EXCEPT ![w][f].published = TRUE],
             GoTo(w, "published"), UNCHANGED <<old, at>>
      PROVE  FlowOf(w)'
  <2>1. pc'[w] = "published" /\ at'[w] = at[w]
    BY <1>2 DEF GoTo, TypeOK
  <2>2. Marked(w, f, plan[w][f].displaced, TRUE, FALSE)
    BY <1>0, <1>2, Marks, Typed DEF Plans, PlansTyped
  <2>3. TempGets(w, f, 0)
    BY <1>2, SetTemp
  <2>4. \A g \in Files : g # f => Same(w, g)
    BY <1>2, <2>2, <2>3 DEF Same, Marked, TempGets
  <2>5. Planned(w)'
    <3>1. ASSUME NEW g \in Files, g # f
          PROVE  IF plan'[w][g] = None THEN temp'[w][g] = 0 /\ old'[w][g] = 0
                 ELSE /\ \E i \in Places : Order[i] = g
                      /\ plan'[w][g].new # 0 /\ (~plan'[w][g].displaced => old'[w][g] = 0)
      BY <2>4, <3>1 DEF FlowOf, Planned, Same
    <3>2. /\ plan'[w][f] # None /\ \E i \in Places : Order[i] = f
          /\ plan'[w][f].new # 0 /\ (~plan'[w][f].displaced => old'[w][f] = 0)
      BY <1>0, <1>2, <2>2 DEF Marked, FlowOf, Planned
    <3> QED BY <3>1, <3>2 DEF Planned
  <2>6. \A i \in Places :
            /\ i < at[w] => Replaced(w, Order[i])' /\ OldAside(w, Order[i])'
            /\ i > at[w] => Untouched(w, Order[i])'
    BY <1>0, <1>f, <2>4, SameFile DEF FlowOf, Going, Here, Checking
  <2>7. Replaced(w, f)'
    BY <2>2, <2>3 DEF Replaced, NewAside, Marked, TempGets
  <2>8. OldAside(w, f)'
    BY <1>0, <1>2, <2>2 DEF OldAside, Marked
  <2>9. File(w)' = f
    BY <1>f, <1>2 DEF File
  <2>10. Going(w)'
    BY <2>1, <2>6, <2>7, <2>8, <2>9 DEF Going, Checking
  <2> QED BY <2>1, <2>5, <2>10 DEF FlowOf, Resting, Returning, Idle, Backward
<1> QED BY <1>f, <1>1, <1>2 DEF Publish, Step, names

LEMMA FlowPublished ==
  ASSUME TypeOK, NEW w \in Windows, FlowOf(w), Published(w)
  PROVE  FlowOf(w)'
<1>0. Here(w) /\ pc[w] = "published" /\ UNCHANGED <<temp, old>>
  BY IsHere DEF Published, Look, names
<1>1. CASE Raise(w) /\ plan' = [plan EXCEPT ![w][File(w)].ambiguous = TRUE]
  BY <1>0, <1>1, FlowLost
<1>2. ASSUME Advance(w, "check", "clean"), UNCHANGED plan
      PROVE  FlowOf(w)'
  <2>1. \A g \in Files : Same(w, g)
    BY <1>0, <1>2 DEF Same
  <2>2. Planned(w)'
    BY <1>0, <1>2 DEF FlowOf, Planned
  <2>3. \A i \in Places : IF i <= at[w] THEN Replaced(w, Order[i]) /\ OldAside(w, Order[i])
                          ELSE Untouched(w, Order[i])
    BY <1>0 DEF FlowOf, Going, Checking, Here
  <2>4. \A i \in Places : IF i <= at[w] THEN Replaced(w, Order[i])' /\ OldAside(w, Order[i])'
                          ELSE Untouched(w, Order[i])'
    BY <1>0, <2>1, <2>3, SameFile DEF Here
  <2>5. CASE at[w] < Len(Order) /\ at'[w] = at[w] + 1 /\ pc'[w] = "check"
    <3>1. File(w)' = Order[at[w] + 1] /\ at[w] + 1 \in Places
      BY <1>0, <2>5 DEF Here, File
    <3>2. Untouched(w, File(w))'
      BY <1>0, <2>4, <3>1 DEF Here
    <3>3. \A i \in Places :
            /\ i < at'[w] => Replaced(w, Order[i])' /\ OldAside(w, Order[i])'
            /\ i > at'[w] => Untouched(w, Order[i])'
      BY <1>0, <2>4, <2>5 DEF Here
    <3>4. Going(w)'
      BY <2>5, <3>2, <3>3 DEF Going, Checking
    <3> QED BY <2>2, <2>5, <3>4 DEF FlowOf, Resting, Returning, Idle, Backward
  <2>6. CASE at[w] = Len(Order) /\ at'[w] = 1 /\ pc'[w] = "clean"
    <3>1. \A i \in Places : Replaced(w, Order[i])' /\ OldAside(w, Order[i])' /\ ~(i < at'[w])
      BY <1>0, <2>4, <2>6 DEF Here
    <3>2. Going(w)'
      BY <2>6, <3>1 DEF Going, Checking
    <3> QED BY <2>2, <2>6, <3>2 DEF FlowOf, Resting, Returning, Idle, Backward
  <2> QED BY <1>2, <2>5, <2>6, Advances
<1> QED BY <1>0, <1>1, <1>2 DEF Published, Look

LEMMA FlowClean ==
  ASSUME TypeOK, NEW w \in Windows, FlowOf(w), Clean(w)
  PROVE  FlowOf(w)'
<1>f. PICK f \in Files : f = File(w)
  BY AtFile
<1>0. /\ Here(w) /\ pc[w] = "clean" /\ UNCHANGED temp
      /\ old' = [old EXCEPT ![w][f] = 0]
  BY <1>f, IsHere DEF Clean
<1>1. OldGets(w, f, 0)
  BY <1>0, SetOld
<1>2. /\ \A i \in Places : /\ Replaced(w, Order[i])
                           /\ IF i < at[w] THEN old[w][Order[i]] = 0 ELSE OldAside(w, Order[i])
      /\ Planned(w)
  BY <1>0 DEF FlowOf, Going
<1>3. CASE at[w] < Len(Order) /\ at' = [at EXCEPT ![w] = @ + 1] /\ UNCHANGED <<pc, plan>>
  <2>1. at'[w] = at[w] + 1 /\ pc'[w] = "clean"
    BY <1>0, <1>3 DEF TypeOK
  <2>2. Planned(w)'
    BY <1>0, <1>1, <1>2, <1>3 DEF Planned, OldGets
  <2>3. \A g \in Files : g # f => Same(w, g)
    BY <1>0, <1>1, <1>3 DEF Same, OldGets
  <2>4. ASSUME NEW i \in Places
        PROVE  /\ Replaced(w, Order[i])'
               /\ IF i < at'[w] THEN old'[w][Order[i]] = 0 ELSE OldAside(w, Order[i])'
    <3>1. CASE i = at[w]
      <4>1. Order[i] = f /\ old'[w][f] = 0 /\ i < at'[w]
        BY <1>f, <1>0, <1>1, <2>1, <3>1 DEF Here, OldGets
      <4>2. Replaced(w, f)'
        BY <1>0, <1>2, <1>3, <4>1 DEF Replaced, NewAside
      <4> QED BY <4>1, <4>2
    <3>2. CASE i # at[w]
      <4>1. Same(w, Order[i]) /\ (i < at'[w] <=> i < at[w])
        BY <1>f, <1>0, <2>1, <2>3, <3>2 DEF Here
      <4> QED BY <1>2, <4>1, SameFile DEF Same
    <3> QED BY <3>1, <3>2
  <2>5. Going(w)'
    BY <2>1, <2>4 DEF Going, Checking
  <2> QED BY <2>1, <2>2, <2>5 DEF FlowOf, Resting, Returning, Idle, Backward
<1>4. CASE ~(at[w] < Len(Order)) /\ Finish(w, "ok")
  <2>1. Emptied(w) /\ pc'[w] = "idle"
    BY <1>4, PlanEmptied DEF Finish, GoTo, TypeOK
  <2>2. ASSUME NEW g \in Files PROVE temp'[w][g] = 0 /\ old'[w][g] = 0
    <3>1. CASE plan[w][g] = None
      BY <1>0, <1>1, <1>2, <3>1 DEF Planned, OldGets
    <3>2. CASE plan[w][g] # None
      <4>1. PICK i \in Places : Order[i] = g
        BY <1>2, <3>2 DEF Planned
      <4>2. temp[w][g] = 0
        BY <1>2, <4>1 DEF Replaced, NewAside
      <4>3. i < at[w] \/ i = at[w]
        BY <1>0, <1>4 DEF Here
      <4> QED BY <1>f, <1>0, <1>1, <1>2, <4>1, <4>2, <4>3 DEF OldGets, Here
    <3> QED BY <3>1, <3>2
  <2> QED BY <2>1, <2>2, FlowRests DEF Emptied, Idle
<1> QED BY <1>0, <1>3, <1>4 DEF Clean

\* One step further back with the plan at hand.
LEMMA FlowBack ==
  ASSUME TypeOK, NEW w \in Windows, FlowOf(w), pc[w] \in Backward,
         NEW s \in Backward \ {"undo"}, GoTo(w, s), UNCHANGED <<at, result>>,
         NEW f \in Files, f = File(w), \A g \in Files : g # f => Same(w, g),
         /\ plan'[w][f] # None /\ plan'[w][f].new = plan[w][f].new
         /\ plan[w][f] # None /\ (~plan'[w][f].displaced => old'[w][f] = 0),
         s # "unpublished" => Undoable(w, f)',
         s \in {"unpublish", "unpublished"} => plan'[w][f].published,
         s = "unpublished" => OldAside(w, f)',
         s \in {"putback", "discard"} => ~plan'[w][f].published,
         s = "discard" => ~plan'[w][f].displaced
  PROVE  FlowOf(w)'
<1>1. Here(w)
  BY IsHere
<1>2. /\ pc'[w] = s /\ at'[w] = at[w] /\ result'[w] = result[w]
      /\ File(w)' = f /\ Plan(w)' = plan'[w][f]
  BY DEF GoTo, TypeOK, File, Plan
<1>3. Planned(w)'
  <2>1. ASSUME NEW g \in Files, g # f
        PROVE  IF plan'[w][g] = None THEN temp'[w][g] = 0 /\ old'[w][g] = 0
               ELSE /\ \E i \in Places : Order[i] = g
                    /\ plan'[w][g].new # 0 /\ (~plan'[w][g].displaced => old'[w][g] = 0)
    BY <2>1 DEF FlowOf, Planned, Same
  <2>2. (\E i \in Places : Order[i] = f) /\ plan'[w][f].new # 0
    BY DEF FlowOf, Planned
  <2> QED BY <2>1, <2>2 DEF Planned
<1>4. \A i \in Places : i < at[w] => Undoable(w, Order[i])'
  BY <1>1, SameFile DEF FlowOf, Returning, Here
<1>5. result[w] = "undoing" => \A i \in Places : i > at[w] => Undone(w, Order[i])'
  BY <1>1, SameFile DEF FlowOf, Returning, Here
<1>6. Returning(w)'
  BY <1>2, <1>4, <1>5 DEF Returning, Backward
<1> QED BY <1>2, <1>3, <1>6 DEF FlowOf, Resting, Going, Idle, Checking, Backward

\* The rest of the plan is left as it is.
LEMMA FlowLeaves ==
  ASSUME TypeOK, NEW w \in Windows, FlowOf(w), pc[w] \in Backward, NextPlan(w, FALSE, temp)
  PROVE  FlowOf(w)'
BY FlowNext, NamesTyped

LEMMA FlowUndo ==
  ASSUME TypeOK, NEW w \in Windows, FlowOf(w), Undo(w)
  PROVE  FlowOf(w)'
<1>f. PICK f \in Files : f = File(w)
  BY AtFile
<1>0. pc[w] = "undo" /\ pc[w] \in Backward
  BY DEF Undo, Undoing, Backward
<1>1. CASE Plan(w) = None /\ NextPlan(w, TRUE, temp)
  BY <1>0, <1>1, FlowNext, NamesTyped
<1>2. CASE NextPlan(w, FALSE, temp)
  BY <1>0, <1>2, FlowLeaves
<1>3. ASSUME Plan(w) # None, UNCHANGED <<temp, old, kept, plan, at, result>>,
             NEW s, GoTo(w, s), s = IF Plan(w).published THEN "unpublish" ELSE "putback"
      PROVE  FlowOf(w)'
  <2>1. Same(w, f) /\ \A g \in Files : g # f => Same(w, g)
    BY <1>3 DEF Same
  <2>2. /\ plan'[w][f] = plan[w][f] /\ plan[w][f] # None /\ old'[w][f] = old[w][f]
        /\ s = IF plan[w][f].published THEN "unpublish" ELSE "putback"
        /\ ~plan[w][f].displaced => old[w][f] = 0
    BY <1>f, <1>3 DEF Plan, FlowOf, Planned
  <2>3. Undoable(w, f)'
    BY <1>f, <1>0, <2>1, SameFile DEF FlowOf, Returning
  <2> QED BY <1>f, <1>0, <1>3, <2>1, <2>2, <2>3, FlowBack DEF Backward
<1> QED BY <1>1, <1>2, <1>3 DEF Undo, Undoing

LEMMA FlowUnpublish ==
  ASSUME TypeOK, NEW w \in Windows, FlowOf(w), Unpublish(w)
  PROVE  FlowOf(w)'
<1>f. PICK f \in Files : f = File(w)
  BY AtFile
<1>0. /\ pc[w] = "unpublish" /\ pc[w] \in Backward
      /\ plan[w][f] # None /\ plan[w][f].published /\ Undoable(w, f)
      /\ ~plan[w][f].displaced => old[w][f] = 0
  BY <1>f DEF Unpublish, Undoing, Backward, FlowOf, Planned, Returning, Plan
<1>1. CASE NextPlan(w, FALSE, temp)
  BY <1>0, <1>1, FlowLeaves
<1>2. ASSUME temp' = [temp EXCEPT ![w][f] = live[f]], GoTo(w, "unpublished"),
             UNCHANGED <<old, kept, plan, at, result>>
      PROVE  FlowOf(w)'
  <2>1. \A g \in Files : g # f => Same(w, g)
    BY <1>2, SetTemp DEF Same, TempGets
  <2>2. OldAside(w, f)'
    BY <1>0, <1>2 DEF Undoable, OldAside
  <2> QED BY <1>f, <1>0, <1>2, <2>1, <2>2, FlowBack DEF Backward
<1> QED BY <1>f, <1>1, <1>2 DEF Unpublish, Undoing

LEMMA FlowUnpublished ==
  ASSUME TypeOK, NEW w \in Windows, FlowOf(w), Unpublished(w)
  PROVE  FlowOf(w)'
<1>f. PICK f \in Files : f = File(w)
  BY AtFile
<1>0. /\ pc[w] = "unpublished" /\ pc[w] \in Backward
      /\ plan[w][f] # None /\ plan[w][f].published /\ OldAside(w, f)
      /\ ~plan[w][f].displaced => old[w][f] = 0
  BY <1>f DEF Unpublished, Undoing, Backward, FlowOf, Planned, Returning, Plan
<1>1. CASE NextPlan(w, FALSE, temp)
  BY <1>0, <1>1, FlowLeaves
<1>2. ASSUME temp[w][f] = plan[w][f].new, plan' = [plan EXCEPT ![w][f].published = FALSE],
             GoTo(w, "putback"), UNCHANGED <<temp, old, kept, at, result>>
      PROVE  FlowOf(w)'
  <2>1. Marked(w, f, plan[w][f].displaced, FALSE, plan[w][f].ambiguous)
    BY <1>0, <1>2, Marks, Typed
  <2>2. \A g \in Files : g # f => Same(w, g)
    BY <1>2, <2>1 DEF Same, Marked
  <2>3. Undoable(w, f)'
    BY <1>0, <1>2, <2>1 DEF Undoable, NewAside, OldAside, Marked
  <2> QED BY <1>f, <1>0, <1>2, <2>1, <2>2, <2>3, FlowBack DEF Backward, Marked
<1> QED BY <1>f, <1>1, <1>2 DEF Unpublished, Undoing, Plan

LEMMA FlowPutBack ==
  ASSUME TypeOK, NEW w \in Windows, FlowOf(w), PutBack(w)
  PROVE  FlowOf(w)'
<1>f. PICK f \in Files : f = File(w)
  BY AtFile
<1>0. /\ pc[w] = "putback" /\ pc[w] \in Backward
      /\ plan[w][f] # None /\ ~plan[w][f].published /\ Undoable(w, f)
      /\ ~plan[w][f].displaced => old[w][f] = 0
  BY <1>f DEF PutBack, Undoing, Backward, FlowOf, Planned, Returning, Plan
<1>1. CASE NextPlan(w, FALSE, temp)
  BY <1>0, <1>1, FlowLeaves
<1>2. ASSUME ~plan[w][f].displaced, GoTo(w, "discard"),
             UNCHANGED <<temp, old, kept, plan, at, result>>
      PROVE  FlowOf(w)'
  <2>1. Same(w, f) /\ \A g \in Files : g # f => Same(w, g)
    BY <1>2 DEF Same
  <2>2. Undoable(w, f)'
    BY <1>0, <2>1, SameFile
  <2> QED BY <1>f, <1>0, <1>2, <2>1, <2>2, FlowBack DEF Backward
<1>3. ASSUME old' = [old EXCEPT ![w][f] = 0], plan' = [plan EXCEPT ![w][f].displaced = FALSE],
             GoTo(w, "discard"), UNCHANGED <<temp, kept, at, result>>
      PROVE  FlowOf(w)'
  <2>1. Marked(w, f, FALSE, plan[w][f].published, plan[w][f].ambiguous)
    BY <1>0, <1>3, Marks, Typed
  <2>2. OldGets(w, f, 0)
    BY <1>3, SetOld
  <2>3. \A g \in Files : g # f => Same(w, g)
    BY <1>3, <2>1, <2>2 DEF Same, Marked, OldGets
  <2>4. Undoable(w, f)'
    BY <1>0, <1>3, <2>1 DEF Undoable, NewAside, OldAside, Marked
  <2>5. /\ plan'[w][f] # None /\ plan'[w][f].new = plan[w][f].new /\ old'[w][f] = 0
        /\ ~plan'[w][f].published /\ ~plan'[w][f].displaced
    BY <1>0, <2>1, <2>2 DEF Marked, OldGets
  <2> QED BY <1>f, <1>0, <1>3, <2>3, <2>4, <2>5, FlowBack DEF Backward
<1> QED BY <1>f, <1>1, <1>2, <1>3 DEF PutBack, Undoing, Plan

LEMMA FlowDiscard ==
  ASSUME TypeOK, NEW w \in Windows, FlowOf(w), Discard(w)
  PROVE  FlowOf(w)'
<1>f. PICK f \in Files : f = File(w)
  BY AtFile
<1>0. /\ pc[w] = "discard" /\ pc[w] \in Backward
      /\ plan[w][f] # None /\ ~plan[w][f].published /\ Undoable(w, f)
      /\ ~plan[w][f].displaced
  BY <1>f DEF Discard, Undoing, Backward, FlowOf, Planned, Returning, Plan
<1>1. CASE NextPlan(w, FALSE, temp)
  BY <1>0, <1>1, FlowLeaves
<1>2. CASE plan[w][f].ambiguous /\ NextPlan(w, TRUE, temp)
  <2>1. temp[w][f] = plan[w][f].new
    BY <1>0 DEF Undoable, NewAside
  <2> QED BY <1>f, <1>0, <1>2, <2>1, FlowNext, NamesTyped DEF Plan
<1>3. CASE NextPlan(w, TRUE, [temp EXCEPT ![w][f] = 0])
  <2> DEFINE t == [temp EXCEPT ![w][f] = 0]
  <2>1. t \in [Windows -> [Files -> Nat]] /\ t[w][f] = 0 /\ \A g \in Files : g # f => t[w][g] = temp[w][g]
    BY NamesTyped
  <2>2. NextPlan(w, TRUE, t)
    BY <1>3
  <2> HIDE DEF t
  <2> QED BY <1>f, <1>0, <2>1, <2>2, FlowNext DEF Plan
<1> QED BY <1>f, <1>1, <1>2, <1>3 DEF Discard, Undoing, Plan

LEMMA FlowStep ==
  ASSUME TypeOK, Flow, NEW w \in Windows, Acts(w)
  PROVE  Flow'
<1>0. FlowOf(w)
  BY DEF Flow
<1>1. ASSUME Saving(w) PROVE FlowOf(w)'
  <2>1. UNCHANGED <<plan, temp, old>> /\ pc[w] \in Idle /\ pc'[w] \in Idle
    BY <1>1 DEF Saving, CheckSave, Replace, Reload, BackUpState, Truncate, Write, Clear, GoTo, TypeOK,
       Idle, names, job
  <2>2. \A f \in Files : plan[w][f] = None /\ temp[w][f] = 0 /\ old[w][f] = 0
    BY <1>0, <2>1 DEF FlowOf, Planned, Resting
  <2>3. \A f \in Files : plan'[w][f] = None /\ temp'[w][f] = 0 /\ old'[w][f] = 0
    BY <2>1, <2>2
  <2> QED BY <2>1, <2>3, FlowRests
<1>2. ASSUME Crash(w) PROVE FlowOf(w)'
  <2>1. Emptied(w) /\ pc'[w] = "idle"
    BY <1>2, PlanEmptied DEF Crash, GoTo, TypeOK
  <2>2. \A f \in Files : temp'[w][f] = 0 /\ old'[w][f] = 0
    BY <1>2, NamesTyped DEF Crash
  <2>3. \A f \in Files : plan'[w][f] = None /\ temp'[w][f] = 0 /\ old'[w][f] = 0
    BY <2>1, <2>2 DEF Emptied
  <2>4. pc'[w] \in Idle
    BY <2>1 DEF Idle
  <2> QED BY <2>3, <2>4, FlowRests
<1>3. ASSUME Restore(w) PROVE FlowOf(w)'
  <2>1. CASE Begin(w) \/ Stage(w) \/ Hash(w) \/ Archive(w) \/ Open(w)
    BY <1>0, <2>1, FlowBegin, FlowStage, FlowPack, Zenon
  <2>2. CASE Check(w) \/ Displace(w) \/ Displaced(w)
    BY <1>0, <2>2, FlowCheck, FlowDisplace, FlowDisplaced, Zenon
  <2>3. CASE Publish(w) \/ Published(w) \/ Clean(w)
    BY <1>0, <2>3, FlowPublish, FlowPublished, FlowClean, Zenon
  <2>4. CASE Undo(w) \/ Unpublish(w) \/ Unpublished(w)
    BY <1>0, <2>4, FlowUndo, FlowUnpublish, FlowUnpublished, Zenon
  <2>5. CASE PutBack(w) \/ Discard(w)
    BY <1>0, <2>5, FlowPutBack, FlowDiscard, Zenon
  <2> QED BY <1>3, <2>1, <2>2, <2>3, <2>4, <2>5, Zenon DEF Restore
<1>4. FlowOf(w)'
  BY <1>1, <1>2, <1>3, Zenon DEF Acts
<1>5. ASSUME NEW v \in Windows, v # w PROVE FlowOf(v)'
  <2>1. FlowOf(v) /\ Still(v)
    BY <1>5, OthersStay DEF Flow, Still
  <2> QED BY <2>1, FlowStill, Zenon
<1> QED BY <1>4, <1>5, Zenon DEF Flow

-----------------------------------------------------------------------------
(* Gone: the new file of a plan that was undone has no name any more.      *)

\* How a rollback moves: it starts, goes on with a plan, or turns to the plan before it,
\* having found none, left something, or discarded the new file.
LEMMA Rollback ==
  ASSUME TypeOK, NEW w \in Windows, Acts(w), pc'[w] \in Backward
  PROVE  \/ at'[w] = Len(Order)
         \/ /\ pc[w] \in Backward /\ at'[w] = at[w] /\ result'[w] = result[w]
            /\ \A g \in Files \ {File(w)} : plan'[w][g] = plan[w][g] /\ temp'[w][g] = temp[w][g]
         \/ /\ pc[w] \in Backward /\ at'[w] = at[w] - 1
            /\ result'[w] = "undoing" => result[w] = "undoing"
            /\ UNCHANGED <<plan, live, old, kept>>
            /\ \/ /\ temp' = temp
                  /\ \/ result'[w] # "undoing" \/ Plan(w) = None
                     \/ pc[w] = "discard" /\ Plan(w).ambiguous
               \/ pc[w] = "discard" /\ temp' = [temp EXCEPT ![w][File(w)] = 0]
<1>0. File(w) \in Files
  BY AtFile
<1>1. CASE Raise(w)
  BY <1>1 DEF Raise, TypeOK
<1>2. CASE ~Raise(w) /\ (Begin(w) \/ Stage(w) \/ Hash(w) \/ Archive(w) \/ Open(w) \/ Check(w)
                         \/ Displace(w) \/ Displaced(w) \/ Publish(w) \/ Published(w) \/ Clean(w))
  <2>1. pc'[w] \notin Backward
    BY <1>2 DEF Begin, Stage, Hash, Archive, Open, Check, Displace, Displaced, Publish, Published,
       Clean, Step, Look, GoTo, Advance, Finish, TypeOK, Backward
  <2> QED BY <2>1
<1>3. CASE Saving(w) \/ Crash(w)
  <2>1. pc'[w] \notin Backward
    BY <1>3 DEF Saving, CheckSave, Replace, Reload, BackUpState, Truncate, Write, Clear, Crash, GoTo,
       TypeOK, Backward, job
  <2> QED BY <2>1
<1>4. ASSUME NEW c, NEW t, NextPlan(w, c, t), pc[w] \in Backward
      PROVE  /\ at'[w] = at[w] - 1 /\ temp' = t /\ UNCHANGED <<plan, old, kept>>
             /\ result'[w] = IF c THEN result[w] ELSE "partial"
  <2>1. at[w] > 1
    BY <1>4 DEF NextPlan, Finish, GoTo, TypeOK, Backward
  <2> QED BY <1>4, <2>1 DEF NextPlan, TypeOK
<1>5. CASE UNCHANGED <<at, result, plan, temp>> /\ pc[w] \in Backward
  BY <1>5
<1>6. CASE NextPlan(w, FALSE, temp) /\ UNCHANGED live /\ pc[w] \in Backward
  BY <1>4, <1>6
<1>7. CASE Undo(w)
  <2>1. pc[w] \in Backward
    BY <1>7 DEF Undo, Undoing, Backward
  <2>2. CASE Plan(w) = None /\ NextPlan(w, TRUE, temp) /\ UNCHANGED live
    BY <1>4, <2>1, <2>2
  <2> QED BY <1>5, <1>6, <1>7, <2>1, <2>2 DEF Undo, Undoing
<1>8. CASE Unpublish(w)
  <2>1. pc[w] \in Backward
    BY <1>8 DEF Unpublish, Undoing, Backward
  <2>2. CASE temp' = [temp EXCEPT ![w][File(w)] = live[File(w)]] /\ UNCHANGED <<plan, at, result>>
    BY <1>0, <2>1, <2>2, NamesTyped
  <2> QED BY <1>6, <1>8, <2>1, <2>2 DEF Unpublish, Undoing
<1>9. CASE Unpublished(w)
  <2>1. pc[w] \in Backward
    BY <1>9 DEF Unpublished, Undoing, Backward
  <2>2. CASE plan' = [plan EXCEPT ![w][File(w)].published = FALSE] /\ UNCHANGED <<temp, at, result>>
    BY <1>0, <2>1, <2>2 DEF TypeOK
  <2> QED BY <1>6, <1>9, <2>1, <2>2 DEF Unpublished, Undoing
<1>10. CASE PutBack(w)
  <2>1. pc[w] \in Backward
    BY <1>10 DEF PutBack, Undoing, Backward
  <2>2. CASE plan' = [plan EXCEPT ![w][File(w)].displaced = FALSE] /\ UNCHANGED <<temp, at, result>>
    BY <1>0, <2>1, <2>2 DEF TypeOK
  <2> QED BY <1>5, <1>6, <1>10, <2>1, <2>2 DEF PutBack, Undoing
<1>11. CASE Discard(w)
  <2>1. pc[w] \in Backward /\ pc[w] = "discard"
    BY <1>11 DEF Discard, Undoing, Backward
  <2>2. ASSUME Plan(w).ambiguous, NextPlan(w, TRUE, temp), UNCHANGED live
        PROVE  /\ at'[w] = at[w] - 1 /\ temp' = temp /\ UNCHANGED <<plan, live, old, kept>>
               /\ result'[w] = result[w]
    BY <1>4, <2>1, <2>2
  <2>3. ASSUME NextPlan(w, TRUE, [temp EXCEPT ![w][File(w)] = 0]), UNCHANGED live
        PROVE  /\ at'[w] = at[w] - 1 /\ temp' = [temp EXCEPT ![w][File(w)] = 0]
               /\ UNCHANGED <<plan, live, old, kept>> /\ result'[w] = result[w]
    BY <1>4, <2>1, <2>3
  <2> QED BY <1>6, <1>11, <2>1, <2>2, <2>3 DEF Discard, Undoing
<1> QED BY <1>1, <1>2, <1>3, <1>7, <1>8, <1>9, <1>10, <1>11 DEF Acts, Restore

\* A new file that was discarded had one name, and has none.
LEMMA Lost ==
  ASSUME Known, Distinct, NEW w \in Windows, NEW f \in Files, NEW o, o = temp[w][f], o # 0,
         Dropped(w, f) \/ Ended(w, {f})
  PROVE  ~Named(o)'
<1>1. /\ o # 0 /\ o \notin kept /\ \A g \in Files : live[g] # o
      /\ \A v \in Windows, g \in Files :
            /\ old[v][g] # o
            /\ temp[v][g] = o => v = w /\ g = f
  BY DEF Distinct, LiveApart, NewOnce, NewOldApart, KeptApart
<1>2. CASE Dropped(w, f)
  BY <1>1, <1>2 DEF Dropped, TempGets, Named
<1>3. CASE Ended(w, {f})
  BY <1>1, <1>3 DEF Ended, Named
<1> QED BY <1>2, <1>3

LEMMA GoneStep ==
  ASSUME TypeOK, Flow, Known, Distinct, Gone, NEW w \in Windows, Acts(w)
  PROVE  Gone'
<1> SUFFICES ASSUME NEW v \in Windows, NEW i \in Places, pc'[v] \in Backward,
                    result'[v] = "undoing", i > at'[v], plan'[v][Order[i]] # None,
                    temp'[v][Order[i]] = 0, NEW n, n = plan'[v][Order[i]].new
             PROVE  ~Named(n)'
  BY Zenon DEF Gone, Named
<1> DEFINE f == Order[i]
<1>0. /\ f \in Files /\ Places = 1..Len(Order) /\ Len(Order) \in Nat
      /\ Made = Len(data) + 1 /\ Len(data) \in Nat
  BY AtFile, NamesTyped
<1>1. ASSUME plan[v][f] # None, ~Named(n), n = plan[v][f].new
      PROVE  ~Named(n)'
  <2>1. n \in Exists /\ n # 0
    BY <1>0, <1>1 DEF Known, Flow, FlowOf, Planned
  <2>2. n \in Nat /\ n # Made
    BY <1>0, <2>1 DEF Exists
  <2> QED BY <1>1, <2>1, <2>2, NamedBefore, Zenon
<1>2. ASSUME pc[v] \in Backward, result[v] = "undoing", i > at[v],
             plan'[v][f] = plan[v][f], temp'[v][f] = temp[v][f]
      PROVE  ~Named(n)'
  <2>1. plan[v][f] # None /\ n = plan[v][f].new /\ ~Named(n)
    BY <1>2 DEF Gone
  <2> QED BY <1>1, <2>1, Zenon
<1>3. CASE v # w
  <2>1. /\ pc'[v] = pc[v] /\ at'[v] = at[v] /\ result'[v] = result[v]
        /\ plan'[v] = plan[v] /\ temp'[v] = temp[v]
    BY <1>3, OthersStay
  <2> QED BY <1>2, <2>1
<1>4. CASE v = w
  <2>1. Here(w)
    BY IsHere
  <2>2. CASE at'[w] = Len(Order)
    BY <1>0, <1>4, <2>2
  <2>3. CASE i # at[w]
    <3>1. f # File(w) /\ (at'[w] = at[w] \/ at'[w] = at[w] - 1 => i > at[w])
      BY <1>0, <1>4, <2>1, <2>3 DEF Here
    <3> HIDE DEF f
    <3>2. temp' = [temp EXCEPT ![w][File(w)] = 0] => temp'[w][f] = temp[w][f]
      BY <1>0, <3>1, NamesTyped
    <3>3. at'[w] = Len(Order) \/ /\ pc[w] \in Backward /\ result[w] = "undoing" /\ i > at[w]
                                 /\ plan'[w][f] = plan[w][f] /\ temp'[w][f] = temp[w][f]
      BY <1>0, <1>4, <3>1, <3>2, Rollback
    <3> QED BY <1>2, <1>4, <2>2, <3>3
  <2>4. CASE i = at[w] /\ at'[w] = at[w] - 1 /\ at'[w] # Len(Order)
    <3>1. f = File(w)
      BY <2>1, <2>4 DEF Here
    <3>2. /\ pc[w] \in Backward /\ UNCHANGED <<plan, live, old, kept>> /\ pc[w] = "discard"
          /\ (temp' = temp /\ Plan(w).ambiguous) \/ temp' = [temp EXCEPT ![w][File(w)] = 0]
      BY <1>4, <2>1, <2>4, <3>1, Rollback DEF Plan, Here
    <3>3. temp[w][f] = n /\ n # 0
      BY <1>0, <1>4, <3>1, <3>2
      DEF Flow, FlowOf, Planned, Returning, Plan, Undoable, NewAside, Backward
    <3>4. temp' = [temp EXCEPT ![w][f] = 0]
      BY <1>4, <3>1, <3>2, <3>3
    <3>5. TempGets(w, f, 0)
      BY <1>0, <3>4, SetTemp
    <3>6. /\ n # 0 /\ n \notin kept /\ \A g \in Files : live[g] # n
          /\ \A u \in Windows, g \in Files :
                /\ old[u][g] # n
                /\ temp[u][g] = n => u = w /\ g = f
      BY <1>0, <3>3 DEF Distinct, LiveApart, NewOnce, NewOldApart, KeptApart
    <3> QED BY <3>2, <3>5, <3>6 DEF TempGets, Named
  <2>5. CASE i = at[w] /\ at'[w] = at[w]
    BY <1>0, <1>4, <2>1, <2>5 DEF Here
  <2> QED BY <1>4, <2>2, <2>3, <2>4, <2>5, Rollback
<1> QED BY <1>3, <1>4

-----------------------------------------------------------------------------
(* What keeps a version of the collection: the package or a backup.        *)

LEMMA ZipsStep ==
  ASSUME NEW w \in Windows, Acts(w)
  PROVE  zips \subseteq zips'
<1>1. CASE Hash(w) \/ Archive(w)
  BY <1>1 DEF Hash, Archive, Step, Packed, Raise, backup
<1>2. CASE Saving(w) \/ Crash(w)
  BY <1>2 DEF Saving, CheckSave, Replace, Reload, BackUpState, Truncate, Write, Clear, Crash,
     backup, job
<1>3. CASE Restore(w) /\ ~(Hash(w) \/ Archive(w))
  BY <1>3 DEF Restore, Begin, Stage, Staged, Open, Check, Displace, Displaced, Publish, Published,
     Clean, Undo, Unpublish, Unpublished, PutBack, Discard, Step, Look, Undoing, backup
<1> QED BY <1>1, <1>2, <1>3 DEF Acts

LEMMA SafeStays ==
  ASSUME TypeOK, InPlace, NEW w \in Windows, Acts(w), NEW o \in DOMAIN data, Holds(o)
  PROVE  /\ o \in DOMAIN data' /\ data'[o] = data[o]
         /\ Safe(o) => Safe(o)'
<1>1. o \in DOMAIN data' /\ data'[o] = data[o] /\ zips \subseteq zips'
  BY BytesStay, ZipsStep
<1> QED BY <1>1 DEF Safe

\* An object with a name of the collection has bytes.
LEMMA HeldHasBytes ==
  ASSUME TypeOK, Known, NEW o, o # 0, Holds(o)
  PROVE  o \in DOMAIN data /\ o \in Nat /\ o # Made
<1>1. Collection \in Files /\ Len(data) \in Nat /\ Made = Len(data) + 1 /\ DOMAIN data = 1..Len(data)
  BY NamesTyped
<1>2. o \in 0..Len(data)
  BY <1>1 DEF Holds, Known, Exists
<1> QED BY <1>1, <1>2

LEMMA FromPackageStep ==
  ASSUME TypeOK, Flow, Known, InPlace, FromPackage, NEW w \in Windows, Acts(w)
  PROVE  FromPackage'
<1> SUFFICES ASSUME NEW v \in Windows, NEW o \in DOMAIN data', plan'[v][Collection] # None,
                    plan'[v][Collection].new = o, Holds(o)'
             PROVE  data'[o] = Package
  BY DEF FromPackage
<1> DEFINE f == Collection
<1>0. /\ f \in Files /\ data \in Seq(Data) /\ Len(data) \in Nat /\ Made = Len(data) + 1
      /\ data' \in Seq(Data) /\ o \in Nat /\ o # 0
  BY NamesTyped, FilesTypedStep DEF FilesTyped
<1>1. ASSUME plan[v][f] # None, plan[v][f].new = o
      PROVE  data'[o] = Package
  <2>1. o \in Exists /\ o # Made
    BY <1>0, <1>1 DEF Known, Exists
  <2>2. Holds(o)
    BY <1>0, <2>1, HeldBefore, Zenon
  <2>3. o \in DOMAIN data
    BY <1>0, <2>1 DEF Exists
  <2>4. data[o] = Package
    BY <1>1, <2>2, <2>3 DEF FromPackage
  <2> QED BY <2>2, <2>3, <2>4, BytesStay
<1>2. CASE Staged(w) /\ Fresh(w, File(w)) /\ v = w /\ f = File(w)
  <2>1. o = Made /\ data' = Append(data, Package)
    BY <1>2 DEF Staged, Fresh, Make
  <2> QED BY <1>0, <2>1
<1>3. CASE UNCHANGED plan \/ Turned(w, File(w))
  BY <1>0, <1>1, <1>3 DEF Turned
<1>4. CASE Emptied(w)
  BY <1>0, <1>1, <1>4 DEF Emptied
<1>5. CASE Staged(w) /\ Fresh(w, File(w)) /\ ~(v = w /\ f = File(w))
  BY <1>0, <1>1, <1>5 DEF Fresh
<1> QED BY <1>2, <1>3, <1>4, <1>5, PlanSteps

LEMMA AsideSafeStep ==
  ASSUME TypeOK, Flow, Known, InPlace, AsideSafe, BackedUp, NEW w \in Windows, Acts(w)
  PROVE  AsideSafe'
<1> DEFINE f == Collection
<1> SUFFICES ASSUME NEW v \in Windows, plan'[v][f] # None, plan'[v][f].displaced,
                    ~plan'[v][f].ambiguous, NEW o, o = old'[v][f], o # 0,
                    o = plan'[v][f].original
             PROVE  Safe(o)'
  BY Zenon DEF AsideSafe, Safe
<1>0. f \in Files
  BY NamesTyped
<1>1. ASSUME Holds(o), Safe(o)
      PROVE  Safe(o)'
  <2>1. o \in DOMAIN data
    BY <1>1, HeldHasBytes, Zenon
  <2> QED BY <1>1, <2>1, SafeStays, Zenon
<1>2. ASSUME plan[v][f] # None, plan[v][f].displaced, ~plan[v][f].ambiguous,
             old[v][f] = o, plan[v][f].original = o
      PROVE  Safe(o)'
  <2>1. Holds(o)
    BY <1>2 DEF Holds
  <2>2. Safe(o)
    BY <1>2 DEF AsideSafe
  <2> QED BY <1>1, <2>1, <2>2, Zenon
<1>3. CASE v # w
  <2>1. plan'[v] = plan[v] /\ old'[v] = old[v]
    BY <1>3, OthersStay
  <2> QED BY <1>2, <2>1
<1>4. CASE v = w
  <2>1. /\ plan[w][f] # None /\ plan[w][f].original = o /\ ~plan[w][f].ambiguous
        /\ plan[w][f].displaced \/ (f = File(w) /\ pc[w] = "displace" /\ live[f] # 0)
    BY <1>0, <1>4, PlanSteps DEF Emptied, Fresh, Turned
  <2>2. old[w][f] = o \/ (f = File(w) /\ pc[w] = "displace" /\ live[f] = o)
    <3>1. CASE Cleaned(w, File(w))
      BY <1>0, <1>4, <3>1 DEF Cleaned, OldGets
    <3>2. CASE \E d : Ended(w, d)
      BY <1>0, <1>4, <3>2 DEF Ended
    <3>3. CASE pc[w] = "displace" /\ Aside(w, File(w))
      BY <1>0, <1>4, <3>3 DEF Aside, OldGets
    <3>4. CASE Back(w, File(w))
      BY <1>0, <1>4, <3>4 DEF Back, OldGets
    <3>5. CASE UNCHANGED old
      BY <1>4, <3>5
    <3> QED BY <3>1, <3>2, <3>3, <3>4, <3>5, Moves DEF New, Out, In, Dropped, Saved, Removed, Rewritten, names
  <2>3. CASE pc[w] = "displace" /\ f = File(w)
    <3>1. ~plan[w][f].displaced /\ old[w][f] = 0
      BY <1>0, <2>1, <2>3 DEF Flow, FlowOf, Going, Planned, Untouched
    <3>2. live[f] = o
      BY <2>1, <2>2, <3>1
    <3>3. Safe(live[f])
      BY <2>1, <2>3, <3>2 DEF BackedUp, Unmoved, Checking
    <3>4. Holds(o)
      BY <3>2 DEF Holds
    <3> QED BY <1>1, <3>2, <3>3, <3>4
  <2> QED BY <1>2, <1>4, <2>1, <2>2, <2>3
<1> QED BY <1>3, <1>4

\* A window that saves the collection replaces it or dies.
LEMMA OnlyReplaces ==
  ASSUME TypeOK, NEW w \in Windows, Acts(w), pc[w] = "saving"
  PROVE  Replace(w) \/ Crash(w)
<1>1. ~Restore(w)
  BY DEF Restore, Begin, Stage, Hash, Archive, Open, Check, Displace, Displaced, Publish, Published,
     Clean, Undo, Unpublish, Unpublished, PutBack, Discard, Step, Look, Undoing
<1>2. ASSUME Saving(w) PROVE Replace(w)
  BY <1>2 DEF Saving, CheckSave, Reload, BackUpState, Truncate, Write, Clear
<1> QED BY <1>1, <1>2 DEF Acts

\* How another object comes to be the live collection.
LEMMA NewLive ==
  ASSUME TypeOK, Flow, Known, FromPackage, AsideSafe, NEW w \in Windows, Acts(w),
         live'[Collection] # live[Collection], live'[Collection] # 0
  PROVE  \/ Replace(w) /\ live'[Collection] = Made
         \/ Holds(live'[Collection]) /\ Safe(live'[Collection])
<1> DEFINE f == Collection
<1>0. f \in Files /\ Session \in Files /\ Session # f
  BY NamesTyped
<1>1. CASE pc[w] = "publish" /\ Out(w, File(w))
  <2>1. f = File(w) /\ live'[f] = temp[w][f]
    BY <1>0, <1>1 DEF Out, LiveGets
  <2>2. plan[w][f] # None /\ temp[w][f] = plan[w][f].new
    BY <1>1, <2>1 DEF Flow, FlowOf, Going, Plan, NewAside
  <2>3. Holds(temp[w][f])
    BY DEF Holds
  <2>4. temp[w][f] \in DOMAIN data
    BY <2>1, <2>3, HeldHasBytes
  <2>5. data[temp[w][f]] = Package
    BY <2>2, <2>3, <2>4 DEF FromPackage
  <2> QED BY <2>1, <2>3, <2>5 DEF Safe
<1>2. CASE pc[w] = "putback" /\ Back(w, File(w)) /\ Plan(w).displaced /\ ~Plan(w).ambiguous
  <2>1. f = File(w) /\ live'[f] = old[w][f]
    BY <1>0, <1>2 DEF Back, LiveGets
  <2>2. /\ plan[w][f] # None /\ plan[w][f].displaced /\ ~plan[w][f].ambiguous
        /\ old[w][f] = plan[w][f].original /\ old[w][f] # 0
    BY <1>2, <2>1 DEF Flow, FlowOf, Returning, Plan, Undoable, OldAside, Backward
  <2>3. Holds(old[w][f])
    BY DEF Holds
  <2>4. Safe(old[w][f])
    BY <2>2 DEF AsideSafe
  <2> QED BY <2>1, <2>3, <2>4
<1>3. CASE pc[w] = "saving" /\ Saved(Collection)
  <2>1. live'[f] = Made
    BY <1>0, <1>3 DEF Saved, LiveGets
  <2>2. ~Crash(w)
    BY DEF Crash
  <2> QED BY <1>3, <2>1, <2>2, OnlyReplaces
<1>4. CASE \/ UNCHANGED live \/ Aside(w, File(w)) \/ In(w, File(w)) \/ Saved(Session) \/ Removed
  BY <1>0, <1>4 DEF Aside, In, Saved, Removed, LiveGets
<1> QED BY <1>1, <1>2, <1>3, <1>4, Moves
  DEF New, Dropped, Cleaned, Ended, Rewritten, names

\* What the backup has once the bytes it packed are those it took the checksum of.
Zipped(hash, bytes) == hash = bytes /\ bytes # Missing => bytes \in zips'

\* How a restore comes to its backup, through it and past it.
LEMMA BackupSteps ==
  ASSUME TypeOK, NEW w \in Windows, Acts(w), pc'[w] \in {"hash", "archive", "open"} \cup Checking,
         NEW h, h = pre[w][Collection].hash, NEW b, b = pre[w][Collection].bytes,
         NEW c, c = Content(Collection)
  PROVE  \/ pc[w] = "stage" /\ pc'[w] = "hash" /\ at'[w] = 1
         \/ pc[w] \in {"open"} \cup Checking
         \/ /\ UNCHANGED <<live, data, plan>>
            /\ \/ /\ pc[w] = "hash" /\ live[File(w)] = 0
                  /\ \/ pc'[w] = "hash" /\ at'[w] = at[w] + 1 /\ pre' = pre
                     \/ pc'[w] = "open" /\ at[w] = Len(Order) /\ Zipped(h, b)
               \/ /\ pc[w] = "hash" /\ pc'[w] = "archive" /\ at'[w] = at[w]
                  /\ pre'[w][Collection].hash = (IF File(w) = Collection THEN c ELSE h)
                  /\ pre'[w][Collection].bytes = b
               \/ /\ pc[w] = "archive" /\ pc'[w] = "hash" /\ at'[w] = at[w] + 1
                  /\ pre'[w][Collection].hash = h
                  /\ pre'[w][Collection].bytes = IF File(w) = Collection THEN c ELSE b
               \/ /\ pc[w] = "archive" /\ pc'[w] = "open" /\ at[w] = Len(Order)
                  /\ Zipped(h, IF File(w) = Collection THEN c ELSE b)
<1> DEFINE f == File(w)
<1>0. /\ f \in Files /\ Collection \in Files /\ at[w] \in 1..Len(Order) /\ Len(Order) \in Nat
      /\ pre \in [Windows -> [Files -> [hash : Read, bytes : Read]]]
  BY AtFile, NamesTyped DEF TypeOK
<1>1. ~Raise(w) /\ ~(\E r : Finish(w, r)) /\ pc'[w] # "undo"
  BY DEF Raise, Finish, GoTo, TypeOK, Checking
<1>2. CASE Stage(w)
  BY <1>1, <1>2, Advances DEF Stage, Step, Checking
<1>3. ASSUME NEW p, Packed(w, p)
      PROVE  /\ at[w] < Len(Order) => pre' = p
             /\ at[w] = Len(Order) => Zipped(p[w][Collection].hash, p[w][Collection].bytes)
  <2>1. CASE at[w] < Len(Order)
    BY <1>0, <1>3, <2>1 DEF Packed
  <2>2. CASE at[w] = Len(Order)
    BY <1>0, <1>3, <2>2 DEF Packed, Zipped
  <2> QED BY <1>0, <2>1, <2>2
<1>4. CASE Hash(w)
  <2>1. pc[w] = "hash" /\ UNCHANGED <<live, data, plan>>
    BY <1>1, <1>4 DEF Hash, Step, names
  <2>2. CASE live[f] = 0
    <3>1. Advance(w, "hash", "open") /\ Packed(w, pre)
      BY <1>1, <1>4, <2>2 DEF Hash, Step
    <3>2. \/ at[w] < Len(Order) /\ at'[w] = at[w] + 1 /\ pc'[w] = "hash"
          \/ at[w] = Len(Order) /\ pc'[w] = "open"
      BY <3>1, Advances
    <3> QED BY <1>3, <2>1, <2>2, <3>1, <3>2
  <2>3. CASE live[f] # 0
    <3>1. /\ pre' = [pre EXCEPT ![w][f].hash = Content(f)] /\ pc'[w] = "archive" /\ at'[w] = at[w]
      BY <1>1, <1>4, <2>3 DEF Hash, Step, GoTo, TypeOK
    <3> HIDE DEF f
    <3>2. /\ pre'[w][Collection].hash = (IF f = Collection THEN c ELSE h)
          /\ pre'[w][Collection].bytes = b
      BY <1>0, <3>1
    <3> QED BY <2>1, <3>1, <3>2 DEF f
  <2> QED BY <2>2, <2>3
<1>5. CASE Archive(w)
  <2> DEFINE p == [pre EXCEPT ![w][f].bytes = Content(f)]
  <2>1. /\ pc[w] = "archive" /\ UNCHANGED <<live, data, plan>>
        /\ Packed(w, p) /\ Advance(w, "hash", "open")
    BY <1>1, <1>5 DEF Archive, Step, names
  <2>2. \/ at[w] < Len(Order) /\ at'[w] = at[w] + 1 /\ pc'[w] = "hash"
        \/ at[w] = Len(Order) /\ pc'[w] = "open"
    BY <2>1, Advances
  <2>3. /\ p[w][Collection].hash = h
        /\ p[w][Collection].bytes = IF f = Collection THEN c ELSE b
    <3> HIDE DEF f
    <3> QED BY <1>0
  <2> HIDE DEF p
  <2> QED BY <1>3, <2>1, <2>2, <2>3
<1>6. CASE \/ Begin(w) \/ Saving(w) \/ Crash(w) \/ Clean(w) \/ Undo(w) \/ Unpublish(w)
           \/ Unpublished(w) \/ PutBack(w) \/ Discard(w)
  <2>1. pc'[w] \notin {"hash", "archive", "open"} \cup Checking
    BY <1>6 DEF Begin, Saving, CheckSave, Replace, Reload, BackUpState, Truncate, Write, Clear, Crash,
       Clean, Undo, Unpublish, Unpublished, PutBack, Discard, Undoing, NextPlan, Finish, GoTo, TypeOK,
       job, Checking
  <2> QED BY <2>1
<1>7. CASE Open(w) \/ Check(w) \/ Displace(w) \/ Displaced(w) \/ Publish(w) \/ Published(w)
  BY <1>7 DEF Open, Check, Displace, Displaced, Publish, Published, Step, Look, Checking
<1> QED BY <1>2, <1>4, <1>5, <1>6, <1>7 DEF Acts, Restore

\* Where the live collection is what a plan is for, it was so before, or it is safe.
LEMMA UnmovedBefore ==
  ASSUME TypeOK, Flow, Known, FromPackage, AsideSafe, InPlace, NEW w \in Windows, Acts(w),
         NEW v \in Windows, Unmoved(v)'
  PROVE  \/ Safe(live[Collection])'
         \/ /\ live'[Collection] = live[Collection] /\ Holds(live[Collection])
            /\ live[Collection] \in DOMAIN data
            /\ Content(Collection)' = Content(Collection)
            /\ Safe(live[Collection]) => Safe(live[Collection])'
            /\ v # w \/ pc[w] # "stage" => Unmoved(v)
<1> DEFINE f == Collection
<1>0. /\ f \in Files /\ plan'[v][f] # None /\ live'[f] # 0 /\ plan'[v][f].original = live'[f]
      /\ Made = Len(data) + 1 /\ Len(data) \in Nat
  BY NamesTyped DEF Unmoved
<1>1. CASE live'[f] # live[f]
  <2>1. CASE Replace(w) /\ live'[f] = Made
    <3>1. UNCHANGED plan
      BY <2>1 DEF Replace
    <3>2. plan[v][f].original \in 0..Len(data)
      BY <1>0, <3>1 DEF Known, Exists
    <3> QED BY <1>0, <2>1, <3>1, <3>2
  <2>2. ASSUME NEW o, o = live'[f], Holds(o), Safe(o) PROVE Safe(live[Collection])'
    <3>1. o \in DOMAIN data
      BY <1>0, <2>2, HeldHasBytes
    <3>2. Safe(o)'
      BY <2>2, <3>1, SafeStays
    <3> QED BY <2>2, <3>2 DEF Safe
  <2> QED BY <1>0, <1>1, <2>1, <2>2, NewLive
<1>2. CASE live'[f] = live[f]
  <2>1. Holds(live[f])
    BY DEF Holds
  <2>2. live[f] \in DOMAIN data
    BY <1>0, <1>2, <2>1, HeldHasBytes
  <2>3. PICK o : o = live[f]
    OBVIOUS
  <2>4. o \in DOMAIN data' /\ data'[o] = data[o] /\ (Safe(o) => Safe(o)')
    BY <2>1, <2>2, <2>3, SafeStays
  <2>5. Content(f)' = Content(f) /\ (Safe(live[f]) => Safe(live[f])')
    BY <1>0, <1>2, <2>3, <2>4 DEF Content, Safe
  <2>6. ASSUME v # w \/ pc[w] # "stage" PROVE Unmoved(v)
    <3>1. CASE v # w
      BY <1>0, <1>2, <3>1, OthersStay DEF Unmoved
    <3>2. CASE pc[w] # "stage"
      BY <1>0, <1>2, <3>2, PlanSteps DEF Unmoved, Emptied, Turned
    <3> QED BY <2>6, <3>1, <3>2
  <2> QED BY <1>2, <2>1, <2>2, <2>5, <2>6
<1> QED BY <1>1, <1>2

LEMMA BackedUpStep ==
  ASSUME TypeOK, Flow, Known, FromPackage, AsideSafe, InPlace, BackedUp, BackingUp,
         NEW w \in Windows, Acts(w)
  PROVE  BackedUp'
<1> DEFINE f == Collection
<1> SUFFICES ASSUME NEW v \in Windows, pc'[v] \in {"open"} \cup Checking, Unmoved(v)'
             PROVE  Safe(live[f])'
  BY Zenon DEF BackedUp
<1>1. CASE Safe(live[f])'
  BY <1>1
<1>2. CASE ~Safe(live[f])'
  <2>1. /\ live'[f] = live[f] /\ live[f] \in DOMAIN data
        /\ Content(f)' = Content(f) /\ (Safe(live[f]) => Safe(live[f])')
        /\ v # w \/ pc[w] # "stage" => Unmoved(v)
    BY <1>2, UnmovedBefore
  <2>2. CASE pc[v] \in {"open"} \cup Checking /\ Unmoved(v)
    <3>1. Safe(live[f])
      BY <2>2 DEF BackedUp
    <3> QED BY <2>1, <3>1
  <2>3. CASE v # w
    <3>1. pc'[v] = pc[v]
      BY <2>3, OthersStay
    <3> QED BY <2>1, <2>2, <2>3, <3>1
  <2>4. CASE v = w /\ pc[w] \notin {"open"} \cup Checking
    <3>1. pc'[w] \notin {"hash", "archive"}
      BY <2>4 DEF Checking
    <3> DEFINE h == pre[w][f].hash
               b == pre[w][f].bytes
               c == Content(f)
    <3>2. /\ pc[w] \in {"hash", "archive"} /\ at[w] = Len(Order) /\ UNCHANGED <<live, data>>
          /\ pc[w] = "hash" => live[File(w)] = 0 /\ Zipped(h, b)
          /\ pc[w] = "archive" => Zipped(h, IF File(w) = f THEN c ELSE b)
      BY <2>4, <3>1, BackupSteps
    <3>3. Unmoved(w)
      BY <2>1, <2>4, <3>2
    <3>4. PICK i \in Places : Order[i] = f
      BY <3>3, NamesTyped DEF Unmoved, Flow, FlowOf, Planned
    <3>5. Here(w)
      BY IsHere
    <3>6. i = at[w] => File(w) = f
      BY <3>4, <3>5 DEF Here
    <3>7. i < at[w] => File(w) # f
      BY <3>4, <3>5 DEF Here
    <3>8. i < at[w] \/ (i = at[w] /\ pc[w] = "archive")
      <4>1. CASE pc[w] = "hash" /\ i = at[w]
        BY <3>2, <3>3, <3>6, <4>1 DEF Unmoved
      <4> QED BY <3>2, <3>5, <4>1 DEF Here
    <3>9. \/ Safe(live[f])
          \/ h = c /\ (i < at[w] => b = c)
      BY <3>2, <3>3, <3>4, <3>8 DEF BackingUp
    <3>10. c # Missing /\ c = data[live[f]]
      <4>1. live[f] # 0 /\ data[live[f]] \in Data
        BY <2>1, <3>3, NamesTyped DEF Unmoved
      <4> QED BY <4>1, RestoreAssumption DEF Content, Data, Versions
    <3>11. CASE h = c /\ (i < at[w] => b = c)
      <4>1. c \in zips'
        BY <3>2, <3>6, <3>7, <3>8, <3>10, <3>11 DEF Zipped
      <4> QED BY <2>1, <3>2, <3>10, <4>1 DEF Safe
    <3> QED BY <2>1, <3>9, <3>11
  <2> QED BY <2>1, <2>2, <2>3, <2>4 DEF Checking
<1> QED BY <1>1, <1>2

\* Past its backup a restore does not come back to it, and it does not turn to saving.
LEMMA RestoreGoesOn ==
  ASSUME TypeOK, NEW w \in Windows, Restore(w)
  PROVE  /\ pc'[w] \in Restoring \cup {"idle"}
         /\ pc[w] \in {"open"} \cup Checking => pc'[w] \notin {"hash", "archive"}
<1> USE DEF GoTo, Raise, Advance, Finish, TypeOK, Restoring, Forward, Backward, Checking
<1>1. CASE Begin(w) \/ Stage(w)
  BY <1>1 DEF Begin, Stage, Step
<1>2. CASE Hash(w) \/ Archive(w)
  BY <1>2 DEF Hash, Archive, Step
<1>3. CASE Open(w) \/ Check(w)
  BY <1>3 DEF Open, Check, Step
<1>4. CASE Displace(w) \/ Publish(w)
  BY <1>4 DEF Displace, Publish, Step
<1>5. CASE Displaced(w) \/ Published(w)
  BY <1>5 DEF Displaced, Published, Look
<1>6. CASE Clean(w)
  BY <1>6 DEF Clean
<1>7. CASE Undo(w) \/ Unpublish(w) \/ Unpublished(w) \/ PutBack(w) \/ Discard(w)
  BY <1>7 DEF Undo, Unpublish, Unpublished, PutBack, Discard, Undoing, NextPlan
<1> QED BY <1>1, <1>2, <1>3, <1>4, <1>5, <1>6, <1>7 DEF Restore

LEMMA BackingUpStep ==
  ASSUME TypeOK, Flow, Known, FromPackage, AsideSafe, InPlace, BackingUp,
         NEW w \in Windows, Acts(w)
  PROVE  BackingUp'
<1> DEFINE f == Collection
<1> SUFFICES ASSUME NEW v \in Windows, NEW i \in Places, pc'[v] \in {"hash", "archive"},
                    Unmoved(v)', Order[i] = f, ~Safe(live[f])'
             PROVE  /\ i < at'[v] \/ (i = at'[v] /\ pc'[v] = "archive") =>
                            pre'[v][f].hash = Content(f)'
                    /\ i < at'[v] => pre'[v][f].bytes = Content(f)'
  BY Zenon DEF BackingUp
<1>1. /\ live'[f] = live[f] /\ Content(f)' = Content(f) /\ ~Safe(live[f])
      /\ v # w \/ pc[w] # "stage" => Unmoved(v)
  BY UnmovedBefore
<1> DEFINE c == Content(f)
<1>2. ASSUME pc[v] \in {"hash", "archive"}, Unmoved(v)
      PROVE  /\ i < at[v] \/ (i = at[v] /\ pc[v] = "archive") => pre[v][f].hash = c
             /\ i < at[v] => pre[v][f].bytes = c
  BY <1>1, <1>2 DEF BackingUp
<1>3. CASE v # w
  <2>1. pc'[v] = pc[v] /\ at'[v] = at[v] /\ pre'[v] = pre[v]
    BY <1>3, OthersStay
  <2> QED BY <1>1, <1>2, <1>3, <2>1
<1>4. CASE v = w
  <2>1. Here(w)
    BY IsHere
  <2>2. (i = at[w] => File(w) = f) /\ (i < at[w] => File(w) # f) /\ at[w] \in Nat /\ i \in Nat
    BY <2>1 DEF Here
  <2>3. CASE pc[w] = "stage" /\ at'[w] = 1
    BY <1>4, <2>1, <2>3, BackupSteps DEF Here, Checking
  <2>4. CASE pc[w] # "stage"
    <3>1. Unmoved(w)
      BY <1>1, <1>4, <2>4
    <3> HIDE DEF c
    <3>2. CASE pc[w] = "hash" /\ live[File(w)] = 0 /\ pc'[w] = "hash" /\ at'[w] = at[w] + 1 /\ pre' = pre
      <4>1. i # at[w]
        BY <2>2, <3>1, <3>2 DEF Unmoved
      <4> QED BY <1>1, <1>2, <1>4, <2>2, <3>1, <3>2, <4>1 DEF c
    <3>3. CASE /\ pc[w] = "hash" /\ pc'[w] = "archive" /\ at'[w] = at[w]
               /\ pre'[w][f].hash = (IF File(w) = f THEN c ELSE pre[w][f].hash)
               /\ pre'[w][f].bytes = pre[w][f].bytes
      BY <1>1, <1>2, <1>4, <2>2, <3>1, <3>3 DEF c
    <3>4. CASE /\ pc[w] = "archive" /\ pc'[w] = "hash" /\ at'[w] = at[w] + 1
               /\ pre'[w][f].hash = pre[w][f].hash
               /\ pre'[w][f].bytes = IF File(w) = f THEN c ELSE pre[w][f].bytes
      BY <1>1, <1>2, <1>4, <2>2, <3>1, <3>4 DEF c
    <3>5. pc[w] \in {"open"} \cup Checking => pc'[w] \notin {"hash", "archive"}
      <4>1. ~Saving(w) => Restore(w) \/ pc'[w] = "idle"
        BY DEF Acts, Crash, GoTo, TypeOK
      <4>2. Saving(w) => pc'[w] \notin {"hash", "archive"}
        BY DEF Saving, CheckSave, Replace, Reload, BackUpState, Truncate, Write, Clear, GoTo, TypeOK, job
      <4> QED BY <4>1, <4>2, RestoreGoesOn
    <3> QED BY <1>4, <2>4, <3>2, <3>3, <3>4, <3>5, BackupSteps DEF c
  <2> QED BY <1>4, <2>3, <2>4, BackupSteps DEF Checking
<1> QED BY <1>3, <1>4

-----------------------------------------------------------------------------
(* Replacing: a saver replaces what it has seen, or what is safe.          *)

\* Who comes to hold the lock, and who gives it up.
LEMMA SaverSteps ==
  ASSUME TypeOK, NEW w \in Windows, Acts(w)
  PROVE  \/ saver' = saver /\ pc[w] # "saving" /\ pc'[w] # "saving"
         \/ /\ saver = None /\ saver' = w /\ pc[w] # "saving" /\ pc'[w] = "saving"
            /\ Content(Collection) = seen[w] /\ UNCHANGED <<live, data, zips, seen>>
         \/ Replace(w) /\ pc[w] = "saving" /\ pc'[w] # "saving" /\ saver' = None
         \/ Crash(w) /\ pc'[w] # "saving" /\ saver' = (IF saver = w THEN None ELSE saver)
<1>1. CASE CheckSave(w)
  BY <1>1 DEF CheckSave, GoTo, TypeOK, names, backup
<1>2. CASE Replace(w)
  BY <1>2 DEF Replace, GoTo, TypeOK
<1>3. CASE Crash(w)
  BY <1>3 DEF Crash, GoTo, TypeOK
<1>4. CASE Reload(w) \/ BackUpState(w, "overwriting") \/ BackUpState(w, "clearing") \/ Truncate(w)
           \/ Write(w) \/ Clear(w)
  BY <1>4 DEF Reload, BackUpState, Truncate, Write, Clear, GoTo, TypeOK, job, savers
<1>5. CASE Restore(w)
  <2>1. saver' = saver /\ pc[w] # "saving"
    BY <1>5 DEF Restore, Begin, Stage, Hash, Archive, Open, Check, Displace, Displaced, Publish,
       Published, Clean, Undo, Unpublish, Unpublished, PutBack, Discard, Step, Look, Undoing, savers
  <2>2. pc'[w] # "saving"
    BY <1>5, <2>1, RestoreGoesOn DEF Restoring, Forward, Backward
  <2> QED BY <2>1, <2>2
<1> QED BY <1>1, <1>2, <1>3, <1>4, <1>5 DEF Acts, Saving

LEMMA ReplacingStep ==
  ASSUME TypeOK, Flow, Known, FromPackage, AsideSafe, InPlace, Replacing,
         NEW w \in Windows, Acts(w)
  PROVE  Replacing'
<1> DEFINE f == Collection
<1>0. f \in Files /\ None \notin Windows
  BY NamesTyped, RestoreAssumption
<1>1. ASSUME NEW v \in Windows PROVE pc'[v] = "saving" <=> saver' = v
  <2>1. pc[v] = "saving" <=> saver = v
    BY DEF Replacing
  <2>2. pc[w] = "saving" <=> saver = w
    BY DEF Replacing
  <2>3. v # w => pc'[v] = pc[v]
    BY OthersStay
  <2> QED BY <1>0, <2>1, <2>2, <2>3, SaverSteps
<1>2. ASSUME saver' # None, live'[f] # 0
      PROVE  Safe(live[f])' \/ Content(f)' = seen'[saver']
  <2>1. CASE saver' = w /\ Content(f) = seen[w] /\ UNCHANGED <<live, data, zips, seen>>
    BY <2>1 DEF Content
  <2>2. CASE saver' = saver /\ saver # w
    <3>1. saver \in Windows /\ seen'[saver] = seen[saver] /\ ~Replace(w)
      BY <1>2, <2>2, OthersStay DEF TypeOK, Replace
    <3>2. CASE live'[f] # live[f]
      <4>1. ASSUME NEW o, o = live'[f], Holds(o), Safe(o) PROVE Safe(live[f])'
        <5>1. o \in DOMAIN data
          BY <1>2, <4>1, HeldHasBytes
        <5>2. Safe(o)'
          BY <4>1, <5>1, SafeStays
        <5> QED BY <4>1, <5>2 DEF Safe
      <4> QED BY <1>2, <3>1, <3>2, <4>1, NewLive
    <3>3. CASE live'[f] = live[f]
      <4>1. PICK o : o = live[f]
        OBVIOUS
      <4>2. Holds(o) /\ o \in DOMAIN data
        BY <1>2, <3>3, <4>1, HeldHasBytes DEF Holds
      <4>3. data'[o] = data[o] /\ (Safe(o) => Safe(o)')
        BY <4>2, SafeStays
      <4>4. Safe(o) \/ data[o] = seen[saver]
        BY <1>2, <2>2, <3>3, <4>1 DEF Replacing, Content
      <4> QED BY <1>2, <2>2, <3>1, <3>3, <4>1, <4>3, <4>4 DEF Content, Safe
    <3> QED BY <3>2, <3>3
  <2> QED BY <1>0, <1>2, <2>1, <2>2, SaverSteps DEF Replacing
<1> QED BY <1>1, <1>2 DEF Replacing

-----------------------------------------------------------------------------
(* The inductive invariant.                                                *)

LEMMA InitIInv == Init => IInv
<1> SUFFICES ASSUME Init PROVE IInv
  OBVIOUS
<1>0. /\ Collection \in Files /\ Session \in Files /\ Collection # Session
      /\ Len(Order) \in Nat /\ 1 \in 1..Len(Order)
  BY RestoreAssumption DEF Files
<1>1. data = <<0, 0>> /\ Len(data) = 2 /\ DOMAIN data = {1, 2} /\ data \in Seq(Data)
  <2>1. 0 \in Data
    BY RestoreAssumption DEF Data, Versions
  <2> QED BY <2>1 DEF Init
<1>2. /\ live[Collection] = 1 /\ live[Session] = 2 /\ kept = {} /\ saver = None
      /\ \A f \in Files : live[f] \in {1, 2}
      /\ \A w \in Windows :
            /\ pc[w] = "idle" /\ writing[w] = 0
            /\ \A f \in Files : temp[w][f] = 0 /\ old[w][f] = 0 /\ plan[w][f] = None
  BY <1>0 DEF Init
<1>3. TypeOK
  BY <1>0, <1>1, RestoreAssumption DEF Init, TypeOK, Nothing, Read, Data, Versions
<1>4. Flow
  BY <1>2 DEF Flow, FlowOf, Planned, Resting, Going, Returning, Checking, Backward
<1>5. Known
  BY <1>1, <1>2 DEF Known, Exists
<1>6. Distinct
  <2>1. LiveOnce
    <3>1. Files = {Collection, Session}
      BY DEF Files
    <3> QED BY <1>2, <3>1 DEF LiveOnce
  <2>2. LiveApart /\ NewOnce /\ OldOnce /\ NewOldApart
    BY <1>2 DEF LiveApart, NewOnce, OldOnce, NewOldApart
  <2>3. KeptApart
    BY <1>2 DEF KeptApart
  <2> QED BY <2>1, <2>2, <2>3 DEF Distinct
<1>7. InPlace
  BY <1>0, <1>1, <1>2 DEF InPlace, Holds
<1>8. Gone /\ FromPackage /\ AsideSafe /\ BackedUp /\ BackingUp
  BY <1>0, <1>2 DEF Gone, FromPackage, AsideSafe, BackedUp, BackingUp, Unmoved, Backward
<1>9. Replacing
  BY <1>2, RestoreAssumption DEF Replacing
<1> QED BY <1>3, <1>4, <1>5, <1>6, <1>7, <1>8, <1>9 DEF IInv

LEMMA IInvStep == IInv /\ [Next]_vars => IInv'
<1>1. ASSUME IInv, NEW w \in Windows, Acts(w) PROVE IInv'
  <2> USE <1>1 DEF IInv
  <2>1. TypeOK' /\ Flow' /\ Known' /\ Distinct'
    BY TypeOKStep, FlowStep, KnownStep, DistinctStep
  <2>2. InPlace' /\ Gone' /\ FromPackage' /\ AsideSafe'
    BY InPlaceStep, GoneStep, FromPackageStep, AsideSafeStep
  <2>3. BackedUp' /\ BackingUp' /\ Replacing'
    BY BackedUpStep, BackingUpStep, ReplacingStep
  <2> QED BY <2>1, <2>2, <2>3
<1>2. ASSUME IInv, UNCHANGED vars PROVE IInv'
  <2> USE <1>2 DEF IInv, vars
  <2>1. TypeOK' /\ Known' /\ Distinct'
    BY DEF TypeOK, Known, Exists, Distinct, LiveOnce, LiveApart, NewOnce, OldOnce, NewOldApart, KeptApart
  <2>2. Flow'
    BY FlowStill DEF Flow, Still
  <2>3. InPlace' /\ FromPackage' /\ AsideSafe' /\ Replacing'
    BY DEF InPlace, FromPackage, AsideSafe, Replacing, Holds, Safe, Content
  <2>4. Gone'
    BY DEF Gone, Named
  <2>5. BackedUp' /\ BackingUp'
    BY DEF BackedUp, BackingUp, Unmoved, Safe, Content
  <2> QED BY <2>1, <2>2, <2>3, <2>4, <2>5
<1> QED BY <1>1, <1>2 DEF Next, Acts

\* The invariant of the restore holds for any windows, any package and any bounds: what
\* each stage of a restore relies on, that an object has one name, and that a collection
\* which was moved aside, or is about to be, is in a finished backup.
THEOREM Inductive == Spec => []IInv
BY InitIInv, IInvStep, PTL DEF Spec

\* Names, plans, backups and counters keep their types.
THEOREM TypeCorrect == Spec => []TypeOK
<1>1. IInv => TypeOK
  BY DEF IInv
<1> QED BY <1>1, Inductive, PTL

-----------------------------------------------------------------------------
(* The properties.                                                         *)

\* What becomes of a version whose file object loses its last name.
LEMMA VersionKept ==
  ASSUME IInv, NEW w \in Windows, Acts(w), NEW o \in DOMAIN data, Holds(o), ~Named(o)',
         data[o] # Package
  PROVE  data[o] \in zips \/ (saver # None /\ seen[saver] = data[o])
<1> USE DEF IInv
<1> DEFINE f == Collection
<1>0. /\ f \in Files /\ Session \in Files /\ Session # f /\ o # 0 /\ File(w) \in Files
      /\ DOMAIN data = 1..Len(data) /\ Len(data) \in Nat
  BY NamesTyped, AtFile
<1>1. PICK v \in Windows : live[f] = o \/ temp[v][f] = o \/ old[v][f] = o
  BY DEF Holds
<1>2. \A g \in Files, u \in Windows : live'[g] # o /\ temp'[u][g] # o /\ old'[u][g] # o
  BY DEF Named
<1>3. o \notin kept'
  BY DEF Named
<1>n. FlowOf(w)
  BY DEF Flow
<1>4. CASE UNCHANGED <<live, temp, old>>
  BY <1>0, <1>1, <1>2, <1>4
<1>5. CASE pc[w] = "stage" /\ New(w, File(w))
  <2>1. temp[w][File(w)] = 0
    <3>1. plan[w][File(w)] = None
      BY <1>n, <1>5, IsHere DEF FlowOf, Going, Here
    <3> QED BY <1>0, <1>n, <3>1 DEF FlowOf, Planned
  <2> QED BY <1>0, <1>1, <1>2, <1>5, <2>1 DEF New, TempGets
<1>6. CASE pc[w] = "displace" /\ Aside(w, File(w))
  <2>1. old[w][File(w)] = 0
    BY <1>0, <1>n, <1>6 DEF FlowOf, Going, Untouched, Planned
  <2> QED BY <1>0, <1>1, <1>2, <1>6, <2>1 DEF Aside, LiveGets, OldGets
<1>7. CASE Out(w, File(w)) /\ live[File(w)] = 0
  BY <1>0, <1>1, <1>2, <1>7 DEF Out, LiveGets, TempGets
<1>8. CASE pc[w] = "unpublish" /\ In(w, File(w))
  <2>1. temp[w][File(w)] = 0
    BY <1>0, <1>n, <1>8 DEF FlowOf, Returning, Undoable, NewAside, Plan, Backward
  <2> QED BY <1>0, <1>1, <1>2, <1>8, <2>1 DEF In, LiveGets, TempGets
<1>9. CASE Back(w, File(w)) /\ live[File(w)] = 0
  BY <1>0, <1>1, <1>2, <1>9 DEF Back, LiveGets, OldGets
<1>10. ASSUME pc[w] = "discard", o = temp[w][f], f = File(w)
       PROVE  data[o] = Package
  <2>1. plan[w][f] # None /\ plan[w][f].new = o
    BY <1>n, <1>10 DEF FlowOf, Returning, Undoable, NewAside, Plan, Backward
  <2> QED BY <2>1 DEF FromPackage
<1>11. CASE pc[w] = "discard" /\ Dropped(w, File(w))
  BY <1>0, <1>1, <1>2, <1>10, <1>11 DEF Dropped, TempGets
<1>12. CASE Ended(w, {})
  BY <1>0, <1>1, <1>2, <1>3, <1>12 DEF Ended
<1>13. CASE pc[w] = "discard" /\ Ended(w, {File(w)})
  BY <1>0, <1>1, <1>2, <1>3, <1>10, <1>13 DEF Ended
<1>14. CASE pc[w] = "clean" /\ Cleaned(w, File(w))
  <2>1. o = old[w][f] /\ f = File(w)
    BY <1>0, <1>1, <1>2, <1>3, <1>14 DEF Cleaned, OldGets
  <2>2. /\ plan[w][f] # None /\ plan[w][f].displaced /\ ~plan[w][f].ambiguous
        /\ old[w][f] = plan[w][f].original
    <3>1. Here(w)
      BY IsHere
    <3>2. Replaced(w, f) /\ OldAside(w, f)
      BY <1>n, <1>14, <2>1, <3>1 DEF FlowOf, Going, Here
    <3>3. plan[w][f].displaced
      BY <1>0, <1>n, <2>1, <3>2 DEF FlowOf, Planned, Replaced
    <3> QED BY <3>2, <3>3 DEF Replaced, OldAside
  <2>3. Safe(o)
    BY <1>0, <2>1, <2>2 DEF AsideSafe
  <2> QED BY <2>3 DEF Safe
<1>15. CASE pc[w] = "saving" /\ Saved(Collection)
  <2>1. o = live[f]
    BY <1>0, <1>1, <1>2, <1>15 DEF Saved, LiveGets
  <2>2. saver = w /\ saver # None
    BY <1>15, RestoreAssumption DEF Replacing
  <2> QED BY <1>0, <2>1, <2>2 DEF Replacing, Safe, Content
<1>16. CASE live[Session] = 0 /\ Saved(Session)
  BY <1>0, <1>1, <1>2, <1>16 DEF Saved, LiveGets
<1>17. CASE Removed
  BY <1>0, <1>1, <1>2, <1>17 DEF Removed, LiveGets
<1> QED BY <1>4, <1>5, <1>6, <1>7, <1>8, <1>9, <1>11, <1>12, <1>13, <1>14, <1>15, <1>16, <1>17, Moves
  DEF Rewritten, names

\* A version of the collection disappears only when a saver that has seen it replaces it
\* or when a finished backup has its bytes, for any windows saving, restoring and crashing
\* as they like (restore_from_backup_package, _restore_staged_files).
THEOREM VersionsStay == Spec => VersionsKept
<1> DEFINE Stay == \A o \in DOMAIN data : Holds(o) /\ ~Named(o)' /\ data[o] # Package =>
                       \/ data[o] \in zips
                       \/ saver # None /\ seen[saver] = data[o]
<1>1. IInv /\ [Next]_vars => [Stay]_vars
  <2>1. IInv /\ Next => Stay
    <3> SUFFICES ASSUME IInv, Next, NEW o \in DOMAIN data, Holds(o), ~Named(o)', data[o] # Package
                 PROVE  data[o] \in zips \/ (saver # None /\ seen[saver] = data[o])
      OBVIOUS
    <3>1. PICK w \in Windows : Acts(w)
      BY DEF Next, Acts
    <3> QED BY <3>1, VersionKept
  <2> QED BY <2>1
<1> QED BY <1>1, Inductive, PTL DEF Spec, VersionsKept

\* What a restore did that reports success.
LEMMA Succeeds ==
  ASSUME IInv, NEW w \in Windows, Acts(w), result[w] # result'[w], result'[w] = "ok"
  PROVE  \A i \in Places : plan[w][Order[i]].published
<1>1. Clean(w)
  <2> USE DEF IInv, TypeOK
  <2>1. CASE Raise(w)
    BY <2>1 DEF Raise
  <2>2. CASE Saving(w) \/ Crash(w) \/ Begin(w)
    BY <2>2 DEF Saving, CheckSave, Replace, Reload, BackUpState, Truncate, Write, Clear, Crash, Begin, job
  <2>3. CASE ~Raise(w) /\ (Stage(w) \/ Hash(w) \/ Archive(w) \/ Open(w) \/ Check(w) \/ Displace(w)
                           \/ Displaced(w) \/ Publish(w) \/ Published(w))
    BY <2>3 DEF Stage, Hash, Archive, Open, Check, Displace, Displaced, Publish, Published, Step, Look
  <2>4. CASE Undo(w) \/ Unpublish(w) \/ Unpublished(w) \/ PutBack(w) \/ Discard(w)
    BY <2>4 DEF Undo, Unpublish, Unpublished, PutBack, Discard, Undoing, NextPlan, Finish, Result
  <2> QED BY <2>1, <2>2, <2>3, <2>4 DEF Acts, Restore
<1>2. pc[w] = "clean"
  BY <1>1 DEF Clean
<1> QED BY <1>2 DEF IInv, Flow, FlowOf, Going, Replaced

\* How a restore comes to report a plain failure: having undone its first plan.
LEMMA Failing ==
  ASSUME IInv, NEW w \in Windows, Acts(w), result[w] # result'[w], result'[w] = "failed"
  PROVE  /\ pc[w] \in Backward /\ at[w] = 1 /\ result[w] = "undoing"
         /\ \/ Plan(w) = None /\ Ended(w, {})
            \/ pc[w] = "discard" /\ Plan(w).ambiguous /\ Ended(w, {})
            \/ pc[w] = "discard" /\ ~Plan(w).ambiguous /\ Ended(w, {File(w)})
<1> USE DEF IInv
<1>0. /\ File(w) \in Files /\ at[w] \in 1..Len(Order) /\ Len(Order) \in Nat
  BY AtFile DEF TypeOK
<1>1. ASSUME NEW c \in BOOLEAN, NEW t, NextPlan(w, c, t)
      PROVE  /\ c /\ result[w] = "undoing" /\ at[w] = 1
             /\ kept' = kept \cup Leftovers(w, t) \cup Leftovers(w, old)
             /\ temp' = [t EXCEPT ![w] = [f \in Files |-> 0]]
             /\ old' = [old EXCEPT ![w] = [f \in Files |-> 0]]
  <2>1. ~(at[w] > 1)
    BY <1>1 DEF NextPlan, TypeOK
  <2>2. at[w] = 1
    BY <1>0, <2>1
  <2>3. c /\ result[w] = "undoing"
    BY <1>1, <2>1 DEF NextPlan, Finish, Result, TypeOK
  <2> QED BY <1>1, <2>1, <2>2, <2>3 DEF NextPlan
<1>2. ~NextPlan(w, FALSE, temp)
  BY <1>1
<1>3. ASSUME NEW t \in [Windows -> [Files -> Nat]], NEW d,
             \A v \in Windows, g \in Files : t[v][g] = IF v = w /\ g \in d THEN 0 ELSE temp[v][g],
             NextPlan(w, TRUE, t), UNCHANGED <<live, data>>
      PROVE  Ended(w, d)
  <2>1. /\ kept' = kept \cup Leftovers(w, t) \cup Leftovers(w, old)
        /\ temp' = [t EXCEPT ![w] = [f \in Files |-> 0]]
        /\ old' = [old EXCEPT ![w] = [f \in Files |-> 0]]
    BY <1>1, <1>3
  <2>2. \A o : o \in Leftovers(w, t) <=> \E g \in Files : o # 0 /\ temp[w][g] = o /\ g \notin d
    BY <1>3 DEF Leftovers
  <2>3. \A v \in Windows, g \in Files :
            /\ temp'[v][g] = IF v = w THEN 0 ELSE temp[v][g]
            /\ old'[v][g] = IF v = w THEN 0 ELSE old[v][g]
    BY <1>3, <2>1, NamesTyped
  <2> QED BY <1>3, <2>1, <2>2, <2>3 DEF Ended, Leftovers
<1>4. ASSUME NextPlan(w, TRUE, temp), UNCHANGED <<live, data>>
      PROVE  Ended(w, {})
  <2> DEFINE d == {}
  <2>1. /\ temp \in [Windows -> [Files -> Nat]]
        /\ \A v \in Windows, g \in Files :
                temp[v][g] = IF v = w /\ g \in d THEN 0 ELSE temp[v][g]
    BY NamesTyped
  <2> HIDE DEF d
  <2>2. Ended(w, d)
    BY <1>3, <1>4, <2>1
  <2> QED BY <2>2 DEF d
<1>5. CASE Undo(w)
  <2>1. pc[w] = "undo" /\ Plan(w) = None /\ NextPlan(w, TRUE, temp) /\ UNCHANGED <<live, data>>
    BY <1>2, <1>5 DEF Undo, Undoing
  <2> QED BY <1>1, <1>4, <2>1 DEF Backward
<1>6. CASE Discard(w)
  <2>1. pc[w] = "discard" /\ UNCHANGED <<live, data>>
    BY <1>2, <1>6 DEF Discard, Undoing
  <2>2. CASE Plan(w).ambiguous
    <3>1. NextPlan(w, TRUE, temp)
      BY <1>2, <1>6, <2>2 DEF Discard, Undoing
    <3> QED BY <1>1, <1>4, <2>1, <2>2, <3>1 DEF Backward
  <2>3. CASE ~Plan(w).ambiguous
    <3> DEFINE t == [temp EXCEPT ![w][File(w)] = 0]
    <3>1. NextPlan(w, TRUE, t)
      BY <1>2, <1>6, <2>3 DEF Discard, Undoing
    <3>2. /\ t \in [Windows -> [Files -> Nat]]
          /\ \A v \in Windows, g \in Files :
                t[v][g] = IF v = w /\ g \in {File(w)} THEN 0 ELSE temp[v][g]
      BY <1>0, NamesTyped
    <3> HIDE DEF t
    <3> QED BY <1>1, <1>3, <2>1, <2>3, <3>1, <3>2 DEF Backward
  <2> QED BY <2>2, <2>3
<1>7. CASE Unpublish(w) \/ Unpublished(w) \/ PutBack(w)
  BY <1>2, <1>7 DEF Unpublish, Unpublished, PutBack, Undoing
<1>8. CASE Raise(w)
  BY <1>8 DEF Raise, TypeOK
<1>9. CASE Saving(w) \/ Crash(w) \/ Begin(w) \/ Clean(w)
  BY <1>9 DEF Saving, CheckSave, Replace, Reload, BackUpState, Truncate, Write, Clear, Crash, Begin,
     Clean, Finish, job, TypeOK
<1>10. CASE ~Raise(w) /\ (Stage(w) \/ Hash(w) \/ Archive(w) \/ Open(w) \/ Check(w) \/ Displace(w)
                          \/ Displaced(w) \/ Publish(w) \/ Published(w))
  BY <1>10 DEF Stage, Hash, Archive, Open, Check, Displace, Displaced, Publish, Published, Step, Look
<1> QED BY <1>5, <1>6, <1>7, <1>8, <1>9, <1>10 DEF Acts, Restore

\* What a restore leaves that reports a plain failure.
LEMMA Failed ==
  ASSUME IInv, NEW w \in Windows, Acts(w), result[w] # result'[w], result'[w] = "failed"
  PROVE  /\ kept' \subseteq kept \cup {plan[w][f].new : f \in {g \in Files : plan[w][g] # None}}
         /\ \A f \in Files, o \in DOMAIN data : plan[w][f] # None /\ o = plan[w][f].new =>
                live'[f] # o /\ (Named(o)' => plan[w][f].ambiguous)
<1> USE DEF IInv
<1>0. Here(w) /\ DOMAIN data = 1..Len(data) /\ Len(data) \in Nat /\ Made = Len(data) + 1
  BY IsHere, NamesTyped
<1>1. /\ pc[w] \in Backward /\ at[w] = 1 /\ result[w] = "undoing"
      /\ \/ Plan(w) = None /\ Ended(w, {})
         \/ pc[w] = "discard" /\ Plan(w).ambiguous /\ Ended(w, {})
         \/ pc[w] = "discard" /\ ~Plan(w).ambiguous /\ Ended(w, {File(w)})
  BY Failing
<1>2. FlowOf(w)
  BY DEF Flow
<1>3. PICK d : Ended(w, d) /\ (d = {} \/ (d = {File(w)} /\ pc[w] = "discard" /\ ~Plan(w).ambiguous))
               /\ (d = {} => Plan(w) = None \/ Plan(w).ambiguous)
               /\ (Plan(w) # None => pc[w] = "discard")
  BY <1>1
\* Every plan is undone, and its new file is gone or could not be recognised.
<1>4. ASSUME NEW f \in Files
      PROVE  /\ plan[w][f] = None => temp[w][f] = 0 /\ old[w][f] = 0
             /\ plan[w][f] # None =>
                    /\ old[w][f] = 0
                    /\ \/ temp[w][f] = 0 /\ ~Named(plan[w][f].new)
                       \/ temp[w][f] = plan[w][f].new /\ temp[w][f] # 0
                          /\ (plan[w][f].ambiguous \/ f \in d)
  <2>1. plan[w][f] = None => temp[w][f] = 0 /\ old[w][f] = 0
    BY <1>2 DEF FlowOf, Planned
  <2>2. ASSUME plan[w][f] # None
        PROVE  /\ old[w][f] = 0
               /\ \/ temp[w][f] = 0 /\ ~Named(plan[w][f].new)
                  \/ temp[w][f] = plan[w][f].new /\ temp[w][f] # 0
                     /\ (plan[w][f].ambiguous \/ f \in d)
    <3>1. PICK i \in Places : Order[i] = f
      BY <1>2, <2>2 DEF FlowOf, Planned
    <3>2. plan[w][f].new # 0 /\ (~plan[w][f].displaced => old[w][f] = 0)
      BY <1>2, <2>2 DEF FlowOf, Planned
    <3>3. CASE i = at[w]
      <4>1. f = File(w)
        BY <1>0, <3>1, <3>3 DEF Here
      <4>2. /\ pc[w] = "discard" /\ ~plan[w][f].displaced /\ temp[w][f] = plan[w][f].new
        BY <1>2, <1>3, <2>2, <4>1 DEF FlowOf, Returning, Plan, Undoable, NewAside, Backward
      <4> QED BY <1>3, <2>2, <3>2, <4>1, <4>2 DEF Plan
    <3>4. CASE i # at[w]
      <4>1. i > at[w]
        BY <1>0, <1>1, <3>4 DEF Here
      <4>2. ~plan[w][f].displaced
            /\ (temp[w][f] = 0 \/ (temp[w][f] = plan[w][f].new /\ plan[w][f].ambiguous))
        BY <1>1, <1>2, <2>2, <3>1, <4>1 DEF FlowOf, Returning, Undone
      <4>3. temp[w][f] = 0 => ~Named(plan[w][f].new)
        BY <1>1, <2>2, <3>1, <4>1 DEF Gone
      <4> QED BY <3>2, <4>2, <4>3
    <3> QED BY <3>3, <3>4
  <2> QED BY <2>1, <2>2
<1>5. kept' \subseteq kept \cup {plan[w][f].new : f \in {g \in Files : plan[w][g] # None}}
  BY <1>3, <1>4 DEF Ended
<1>6. ASSUME NEW f \in Files, NEW o \in DOMAIN data, plan[w][f] # None, o = plan[w][f].new
      PROVE  live'[f] # o /\ (Named(o)' => plan[w][f].ambiguous)
  <2>1. o \in Nat /\ o # 0 /\ o # Made /\ live' = live
    BY <1>0, <1>3 DEF Ended
  <2>2. CASE temp[w][f] = 0 /\ ~Named(o)
    <3>1. ~Named(o)'
      BY <2>1, <2>2, NamedBefore
    <3>2. live[f] # o
      BY <2>2 DEF Named
    <3> QED BY <2>1, <3>1, <3>2
  <2>3. CASE temp[w][f] = o /\ (plan[w][f].ambiguous \/ f \in d)
    <3>1. live[f] # o
      BY <2>1, <2>3 DEF Distinct, LiveApart
    <3>2. CASE f \in d
      <4>1. ~Named(o)'
        BY <1>3, <2>1, <2>3, <3>2, Lost
      <4> QED BY <2>1, <3>1, <4>1
    <3> QED BY <2>1, <2>3, <3>1, <3>2
  <2> QED BY <1>4, <1>6, <2>2, <2>3
<1> QED BY <1>5, <1>6

\* A restore that reports success has published every file, and one that reports a plain
\* failure has put everything back, for any package and whatever fails on the way
\* (_restore_staged_files).
THEOREM AllOrNothingHolds == Spec => AllOrNothing
<1> DEFINE Left(w) ==
               LET planned == {f \in Files : plan[w][f] # None}
               IN  /\ kept' \subseteq kept \cup {plan[w][f].new : f \in planned}
                   /\ \A f \in planned, o \in DOMAIN data : o = plan[w][f].new =>
                           /\ live'[f] # o
                           /\ Named(o)' => plan[w][f].ambiguous
           All == \A w \in Windows : result[w] # result'[w] =>
                      /\ result'[w] = "ok" => \A i \in 1..Len(Order) : plan[w][Order[i]].published
                      /\ result'[w] = "failed" => Left(w)
<1>1. IInv /\ [Next]_vars => [All]_vars
  <2>1. ASSUME IInv, Next, NEW v \in Windows, result[v] # result'[v]
        PROVE  /\ result'[v] = "ok" => \A i \in 1..Len(Order) : plan[v][Order[i]].published
               /\ result'[v] = "failed" => Left(v)
    <3>1. PICK w \in Windows : Acts(w)
      BY <2>1 DEF Next, Acts
    <3>2. v = w
      BY <2>1, <3>1, OthersStay DEF IInv
    <3>3. Places = 1..Len(Order)
      BY <2>1, AtFile DEF IInv
    <3>4. result'[v] = "ok" => \A i \in 1..Len(Order) : plan[v][Order[i]].published
      BY <2>1, <3>1, <3>2, <3>3, Succeeds
    <3>5. ASSUME result'[v] = "failed" PROVE Left(v)
      <4>1. /\ kept' \subseteq kept \cup {plan[v][f].new : f \in {g \in Files : plan[v][g] # None}}
            /\ \A f \in Files, o \in DOMAIN data : plan[v][f] # None /\ o = plan[v][f].new =>
                   live'[f] # o /\ (Named(o)' => plan[v][f].ambiguous)
        BY <2>1, <3>1, <3>2, <3>5, Failed
      <4> QED BY <4>1
    <3> QED BY <3>4, <3>5
  <2> QED BY <2>1
<1> QED BY <1>1, Inductive, PTL DEF Spec, AllOrNothing
=============================================================================
