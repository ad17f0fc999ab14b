----------------------- MODULE CollectionWriters_proofs -----------------------
(***************************************************************************)
(* Proofs about CollectionWriters, for any number of windows, coins,       *)
(* edits and faults.                                                       *)
(***************************************************************************)
EXTENDS CollectionWriters, TLAPS

(***************************************************************************)
(* The data: decoding and editing a collection gives a collection.         *)
(***************************************************************************)

LEMMA NormalType ==
    ASSUME NEW c \in Collections
    PROVE  /\ Normal(c) \in Collections
           /\ \A i \in Ids : (Normal(c)[i] = None) <=> (c[i] = None)
<1>1. ASSUME NEW i \in Ids
      PROVE  /\ Normal(c)[i] \in Coins \cup {None}
             /\ (Normal(c)[i] = None) <=> (c[i] = None)
  <2>1. CASE c[i] = None
    BY <2>1 DEF Normal
  <2>2. CASE c[i] # None
    <3>1. c[i] \in Coins
      BY <2>2 DEF Collections
    <3>2. Read(c[i].text) \in Texts
      BY <3>1, EditsAssumption DEF Coins, Texts, Read
    <3>3. Normal(c)[i] = [text |-> Read(c[i].text), photo |-> c[i].photo]
      BY <2>2 DEF Normal
    <3>4. Normal(c)[i] \in Coins
      BY <3>1, <3>2, <3>3 DEF Coins
    <3> QED BY <2>2, <3>4, NoneIsNoCoin
  <2> QED BY <2>1, <2>2
<1>2. Normal(c) = [i \in Ids |-> Normal(c)[i]]
  BY DEF Normal
<1> QED BY <1>1, <1>2 DEF Collections

LEMMA CoinsOfType ==
    ASSUME NEW f \in FileStates
    PROVE  CoinsOf(f) \in Collections
BY DEF FileStates, CoinsOf, NoCoins, Collections

LEMMA EditKinds ==
    ASSUME NEW e \in Edits
    PROVE  /\ e.id \in Ids
           /\ \/ e.kind \in {"add", "csv", "import", "update"} /\ e.text \in Texts
              \/ e.kind = "photos" /\ e.photo \in Photos
              \/ e.kind = "delete"
              \/ /\ e.kind = "mutate"
                 /\ DOMAIN e.desired \subseteq Fields
                 /\ \A f \in DOMAIN e.desired : e.desired[f] \in Values \cup {None}
<1>1. e \in AllEdits
  BY EditsAreEdits
<1>2. CASE e \in [kind : {"add", "csv", "update", "import"}, id : Ids, text : Written]
  BY <1>2 DEF Written, Texts
<1>3. CASE e \in [kind : {"photos"}, id : Ids, photo : Photos]
  BY <1>3
<1>4. CASE e \in [kind : {"delete"}, id : Ids]
  BY <1>4
<1>5. CASE e \in [kind : {"mutate"}, id : Ids, expected : Changes, desired : Changes]
  <2>1. e.id \in Ids /\ e.kind = "mutate" /\ e.desired \in Changes
    BY <1>5
  <2>2. PICK F \in SUBSET Fields : e.desired \in [F -> Values \cup {None}]
    BY <2>1 DEF Changes
  <2> QED BY <2>1, <2>2
<1> QED BY <1>1, <1>2, <1>3, <1>4, <1>5 DEF AllEdits

LEMMA AfterType ==
    ASSUME NEW e \in Edits, NEW c \in Collections, Applicable(e, c)
    PROVE  After(e, c) \in Collections
<1> DEFINE old == c[e.id]
<1>0. e.id \in Ids /\ old \in Coins \cup {None}
  BY EditKinds DEF Collections
<1>s. SUFFICES ASSUME NEW n \in Coins \cup {None}
               PROVE  [c EXCEPT ![e.id] = n] \in Collections
  <2>1. CASE e.kind \in {"add", "csv", "import"} /\ e.text \in Texts
    <3>1. [text |-> e.text, photo |-> None] \in Coins
      BY <2>1 DEF Coins
    <3> QED BY <2>1, <3>1, <1>s DEF After
  <2>2. CASE e.kind = "update" /\ e.text \in Texts
    <3>1. [text |-> e.text, photo |-> old.photo] \in Coins
      BY <2>2, <1>0 DEF Coins, Applicable
    <3> QED BY <2>2, <3>1, <1>s DEF After
  <2>3. CASE e.kind = "photos" /\ e.photo \in Photos
    <3>1. [text |-> old.text, photo |-> e.photo] \in Coins
      BY <2>3, <1>0 DEF Coins, Applicable
    <3> QED BY <2>3, <3>1, <1>s DEF After
  <2>4. CASE e.kind = "delete"
    BY <2>4 DEF After
  <2>5. CASE /\ e.kind = "mutate"
             /\ DOMAIN e.desired \subseteq Fields
             /\ \A f \in DOMAIN e.desired : e.desired[f] \in Values \cup {None}
    <3>1. old \in Coins
      BY <2>5, <1>0 DEF Applicable
    <3>2. Revised(e, old.text) \in Texts
      BY <2>5, <3>1 DEF Revised, Coins, Texts
    <3>3. [text |-> Revised(e, old.text), photo |-> old.photo] \in Coins
      BY <3>1, <3>2 DEF Coins
    <3> QED BY <2>5, <3>3, <1>s DEF After
  <2> QED BY <2>1, <2>2, <2>3, <2>4, <2>5, EditKinds
<1> QED BY <1>0 DEF Collections

(***************************************************************************)
(* The inductive invariant.  A window that holds the lock owns the file's  *)
(* next state; what it is about to write was derived from what the file    *)
(* holds now.                                                              *)
(***************************************************************************)

\* Only the maker of the lock file is under the lock.
LockHeld == \A w \in Windows : stage[w] \in Holding => lock = w

\* A call in progress has a request, in a window that is open.
CallsHaveEdits ==
    \A w \in Windows :
        /\ stage[w] # "idle" => edit[w] \in Edits /\ load[w] # "CLOSED"
        /\ stage[w] = "idle" => edit[w] = None

\* No baseline is of a damaged file, and none is missing where one is needed.
BaselinesReadable ==
    \A w \in Windows :
        /\ baseline[w] # Corrupt
        /\ load[w] \in {"MISSING", "LOADED"} => baseline[w] # None
        /\ stage[w] # "idle" /\ edit[w].kind # "import" => load[w] \in {"MISSING", "LOADED"}

\* Until an ordinary save has published, memory is the decoded baseline.
MemoryBound ==
    \A w \in Windows :
        /\ load[w] \in {"MISSING", "LOADED"} /\ w \notin unsettled
        /\ stage[w] = "published" => edit[w].kind \notin Ordinary
        => items[w] = Normal(CoinsOf(baseline[w]))

\* What a call may replace, and the edit it is there for.
RequestBound ==
    \A w \in Windows : stage[w] # "idle" =>
        /\ edit[w].kind \in Ordinary => Applicable(edit[w], items[w])
        /\ edit[w].kind \in Ordinary /\ stage[w] \in {"asked", "locked", "checked"} =>
                expected[w] = baseline[w]
        /\ edit[w].kind = "import" =>
                /\ expected[w] \in FileStates \ {Corrupt}
                /\ Applicable(edit[w], CoinsOf(expected[w]))

\* A compared call: the file is still the one compared, and the payload is
\* the edit of it.
PayloadBound ==
    \A w \in Windows :
        /\ stage[w] = "checked" =>
            /\ edit[w].kind # "mutate" => file = expected[w]
            /\ edit[w].kind \in Ordinary => payload[w] = After(edit[w], items[w])
            /\ edit[w].kind = "import" => payload[w] = Payload(edit[w], CoinsOf(file))
            /\ edit[w].kind = "mutate" =>
                    /\ file \in Collections /\ Applicable(edit[w], file)
                    /\ Conflicted(edit[w], file) = {}
                    /\ payload[w] = After(edit[w], file)
        /\ stage[w] \in {"checked", "published"} => payload[w] \in Collections
        /\ stage[w] = "published" /\ edit[w].kind \in Ordinary => baseline[w] = payload[w]
        /\ stage[w] = "published" => file \in Collections
        /\ stage[w] = "found" => edit[w].kind = "mutate"

IInv ==
    /\ TypeOK /\ LockHeld /\ CallsHaveEdits /\ BaselinesReadable
    /\ MemoryBound /\ RequestBound /\ PayloadBound

LEMMA InitHolds == Init => IInv
<1> SUFFICES ASSUME Init PROVE IInv
  OBVIOUS
<1>1. TypeOK
  BY WritersAssumption DEF Init, TypeOK, FileStates, NoCoins, Collections, Stages
<1>2. LockHeld /\ CallsHaveEdits
  BY DEF Init, LockHeld, Holding, CallsHaveEdits
<1>3. BaselinesReadable /\ MemoryBound
  BY WritersAssumption DEF Init, BaselinesReadable, MemoryBound
<1>4. RequestBound /\ PayloadBound
  BY DEF Init, RequestBound, PayloadBound
<1> QED BY <1>1, <1>2, <1>3, <1>4 DEF IInv

(***************************************************************************)
(* One lemma per action.                                                   *)
(***************************************************************************)

LEMMA LoadKeeps ==
    ASSUME IInv, NEW w \in Windows, Load(w)
    PROVE  IInv'
<1> USE DEF IInv
<1>1. /\ file # Corrupt => Normal(CoinsOf(file)) \in Collections
      /\ NoCoins \in Collections
  BY CoinsOfType, NormalType DEF TypeOK, NoCoins, Collections
<1>2. TypeOK'
  BY <1>1 DEF TypeOK, Load, disk, FileStates
<1>3. LockHeld' /\ CallsHaveEdits'
  BY DEF TypeOK, Load, disk, LockHeld, CallsHaveEdits
<1>4. BaselinesReadable'
  BY WritersAssumption, EditsAssumption DEF TypeOK, Load, disk, FileStates, BaselinesReadable
<1>5. MemoryBound'
  BY EditsAssumption DEF TypeOK, Load, disk, MemoryBound
<1>6. RequestBound' /\ PayloadBound'
  BY DEF TypeOK, Load, disk, RequestBound, PayloadBound
<1> QED BY <1>2, <1>3, <1>4, <1>5, <1>6

LEMMA AskKeeps ==
    ASSUME IInv, NEW w \in Windows, NEW e \in Edits, Ask(w, e)
    PROVE  IInv'
<1> USE DEF IInv
<1>1. e.kind = "photos" => e.photo \in Photos
  BY EditKinds
<1>2. TypeOK'
  BY <1>1, WritersAssumption DEF TypeOK, Ask, memory, Stages
<1>3. LockHeld' /\ CallsHaveEdits'
  BY DEF TypeOK, Ask, memory, LockHeld, Holding, Stages, CallsHaveEdits
<1>4. e.kind # "import" => load[w] \in {"MISSING", "LOADED"}
  BY EditKinds DEF Ask, Askable, Ordinary
<1>5. BaselinesReadable'
  BY <1>4 DEF TypeOK, Ask, memory, BaselinesReadable
<1>6. MemoryBound'
  BY DEF TypeOK, Ask, memory, MemoryBound, Ordinary
<1>7. RequestBound'
  BY DEF TypeOK, Ask, Askable, memory, RequestBound, Ordinary
<1>8. PayloadBound'
  BY DEF TypeOK, Ask, memory, PayloadBound
<1> QED BY <1>2, <1>3, <1>5, <1>6, <1>7, <1>8

LEMMA AcquireKeeps ==
    ASSUME IInv, NEW w \in Windows, Acquire(w)
    PROVE  IInv'
<1> USE DEF IInv
<1>1. TypeOK'
  BY DEF TypeOK, Acquire, memory, Stages
<1>2. LockHeld' /\ CallsHaveEdits'
  BY WritersAssumption DEF TypeOK, Acquire, memory, LockHeld, Holding, Stages, CallsHaveEdits
<1>3. BaselinesReadable' /\ MemoryBound'
  BY DEF TypeOK, Acquire, memory, BaselinesReadable, MemoryBound
<1>4. RequestBound' /\ PayloadBound'
  BY DEF TypeOK, Acquire, memory, RequestBound, PayloadBound
<1> QED BY <1>1, <1>2, <1>3, <1>4

LEMMA CannotAcquireKeeps ==
    ASSUME IInv, NEW w \in Windows, CannotAcquire(w)
    PROVE  IInv'
<1> USE DEF IInv
<1>1. edit[w].kind = "photos" => edit[w].photo \in Photos
  BY EditKinds DEF CannotAcquire, CallsHaveEdits
<1>2. TypeOK'
  BY <1>1, WritersAssumption DEF TypeOK, CannotAcquire, Fail, Return, RollBackMedia, memory, Stages
<1>3. LockHeld' /\ CallsHaveEdits'
  BY DEF TypeOK, CannotAcquire, Return, memory, LockHeld, Holding, CallsHaveEdits
<1>4. BaselinesReadable' /\ MemoryBound'
  BY DEF TypeOK, CannotAcquire, Return, memory, BaselinesReadable, MemoryBound
<1>5. RequestBound' /\ PayloadBound'
  BY DEF TypeOK, CannotAcquire, Return, memory, RequestBound, PayloadBound
<1> QED BY <1>2, <1>3, <1>4, <1>5

\* What a comparison that agrees is about to write.
LEMMA PayloadType ==
    ASSUME NEW e \in Edits, NEW c \in Collections, Applicable(e, c)
    PROVE  /\ Payload(e, c) \in Collections
           /\ Applicable(e, Normal(c))
<1>1. Applicable(e, Normal(c)) /\ Normal(c) \in Collections
  BY NormalType, EditKinds DEF Applicable
<1> QED BY <1>1, AfterType DEF Payload

LEMMA CompareKeeps ==
    ASSUME IInv, NEW w \in Windows, Compare(w)
    PROVE  IInv'
<1> USE DEF IInv
<1>1. stage[w] = "locked" /\ edit[w] \in Edits /\ edit[w].kind # "mutate"
  BY DEF Compare, Step, CallsHaveEdits
<1>2. /\ edit[w].kind \in Ordinary => After(edit[w], items[w]) \in Collections
      /\ edit[w].kind = "import" => Payload(edit[w], CoinsOf(expected[w])) \in Collections
  BY <1>1, AfterType, PayloadType, CoinsOfType DEF RequestBound, TypeOK
<1>3. edit[w].kind = "import" \/ edit[w].kind \in Ordinary
  BY <1>1, EditKinds DEF Ordinary
<1>4. TypeOK'
  BY <1>2, <1>3 DEF TypeOK, Compare, Step, disk, memory, Stages
<1>5. LockHeld' /\ CallsHaveEdits'
  BY <1>1 DEF TypeOK, Compare, Step, disk, memory, LockHeld, Holding, Stages, CallsHaveEdits
<1>6. BaselinesReadable' /\ MemoryBound'
  BY <1>1 DEF TypeOK, Compare, Step, disk, memory, BaselinesReadable, MemoryBound
<1>7. RequestBound'
  BY <1>1 DEF TypeOK, Compare, Step, disk, memory, RequestBound
<1>8. PayloadBound'
  BY <1>1, <1>2, <1>3 DEF TypeOK, Compare, Step, disk, memory, PayloadBound, Ordinary
<1> QED BY <1>4, <1>5, <1>6, <1>7, <1>8

LEMMA CompareFieldsKeeps ==
    ASSUME IInv, NEW w \in Windows, CompareFields(w)
    PROVE  IInv'
<1> USE DEF IInv
<1>1. /\ stage[w] = "locked" /\ edit[w] \in Edits /\ edit[w].kind = "mutate"
      /\ edit[w].kind \notin Ordinary
  BY DEF CompareFields, Step, CallsHaveEdits, Ordinary
<1>2. stage'[w] = "checked" =>
        /\ file \in Collections /\ Applicable(edit[w], file)
        /\ Conflicted(edit[w], file) = {}
        /\ payload' = [payload EXCEPT ![w] = After(edit[w], file)]
        /\ After(edit[w], file) \in Collections
  <2>1. stage'[w] = "checked" =>
          /\ file \in Collections /\ file[edit[w].id] # None
          /\ Conflicted(edit[w], file) = {}
          /\ payload' = [payload EXCEPT ![w] = After(edit[w], file)]
    BY <1>1 DEF CompareFields, Step, TypeOK
  <2>2. file[edit[w].id] # None => Applicable(edit[w], file)
    BY <1>1 DEF Applicable
  <2> QED BY <1>1, <2>1, <2>2, AfterType
<1>3. /\ stage'[w] \in {"refused", "found", "checked"}
      /\ stage'[w] # "checked" => payload' = payload
      /\ stage' = [stage EXCEPT ![w] = stage'[w]]
  BY <1>1 DEF CompareFields, Step, TypeOK
<1>4. TypeOK'
  BY <1>2, <1>3 DEF TypeOK, CompareFields, disk, memory, Stages
<1>5. LockHeld' /\ CallsHaveEdits'
  BY <1>1, <1>3 DEF TypeOK, CompareFields, disk, memory, LockHeld, Holding, Stages,
                    CallsHaveEdits
<1>6. BaselinesReadable' /\ MemoryBound'
  BY <1>1, <1>3 DEF TypeOK, CompareFields, disk, memory, BaselinesReadable, MemoryBound
<1>7. RequestBound'
  BY <1>1, <1>3 DEF TypeOK, CompareFields, disk, memory, RequestBound
<1>8. PayloadBound'
  BY <1>1, <1>2, <1>3 DEF TypeOK, CompareFields, disk, memory, PayloadBound
<1> QED BY <1>4, <1>5, <1>6, <1>7, <1>8

LEMMA PublishKeeps ==
    ASSUME IInv, NEW w \in Windows, Publish(w)
    PROVE  IInv'
<1> USE DEF IInv
<1>1. /\ stage[w] = "checked" /\ edit[w] \in Edits /\ payload[w] \in Collections
      /\ lock = w
  BY DEF Publish, Step, CallsHaveEdits, PayloadBound, LockHeld, Holding, Stages
<1>2. \A u \in Windows : u # w => stage[u] \in {"idle", "asked"}
  BY <1>1 DEF LockHeld, Holding, TypeOK
<1>3. payload[w] \in FileStates /\ payload[w] \notin {None, Missing, Corrupt}
  BY <1>1, WritersAssumption, FileStatesAssumption DEF FileStates
<1>4. TypeOK'
  BY <1>1, <1>3 DEF TypeOK, Publish, Step, Stages
<1>5. LockHeld' /\ CallsHaveEdits'
  BY <1>1 DEF TypeOK, Publish, Step, LockHeld, Holding, Stages, CallsHaveEdits
<1>6. BaselinesReadable'
  BY <1>1, <1>3 DEF TypeOK, Publish, Step, BaselinesReadable
<1>7. MemoryBound'
  BY <1>1 DEF TypeOK, Publish, Step, MemoryBound
<1>8. RequestBound'
  BY <1>1 DEF TypeOK, Publish, Step, RequestBound
<1>9. PayloadBound'
  BY <1>1, <1>2 DEF TypeOK, Publish, Step, PayloadBound
<1> QED BY <1>4, <1>5, <1>6, <1>7, <1>8, <1>9

LEMMA CannotWriteKeeps ==
    ASSUME IInv, NEW w \in Windows, CannotWrite(w)
    PROVE  IInv'
<1> USE DEF IInv
<1>1. TypeOK'
  BY WritersAssumption DEF TypeOK, CannotWrite, Fail, Step, disk, memory, Stages
<1>2. LockHeld' /\ CallsHaveEdits'
  BY DEF TypeOK, CannotWrite, Step, disk, memory, LockHeld, Holding, Stages, CallsHaveEdits
<1>3. BaselinesReadable' /\ MemoryBound'
  BY DEF TypeOK, CannotWrite, Step, disk, memory, BaselinesReadable, MemoryBound
<1>4. RequestBound' /\ PayloadBound'
  BY DEF TypeOK, CannotWrite, Step, disk, memory, RequestBound, PayloadBound
<1> QED BY <1>1, <1>2, <1>3, <1>4

\* A window that ends its call owns the lock alone.
LEMMA OnlyHolder ==
    ASSUME IInv, NEW w \in Windows, stage[w] \in Holding
    PROVE  lock = w /\ \A u \in Windows : u # w => stage[u] \in {"idle", "asked"}
BY DEF IInv, LockHeld, Holding, TypeOK

LEMMA ReleaseKeeps ==
    ASSUME IInv, NEW w \in Windows, Release(w)
    PROVE  IInv'
<1> USE DEF IInv
<1>1. stage[w] \in Holding /\ edit[w] \in Edits
  BY DEF Release, CallsHaveEdits, Holding, Stages
<1>2. \A u \in Windows : u # w => stage[u] \in {"idle", "asked"}
  BY <1>1, OnlyHolder
<1>3. edit[w].kind = "photos" => edit[w].photo \in Photos
  BY <1>1, EditKinds
<1>4. stage[w] = "published" =>
        /\ payload[w] \in Collections /\ payload[w] \in FileStates
        /\ payload[w] \notin {None, Missing, Corrupt}
        /\ Normal(payload[w]) \in Collections
        /\ CoinsOf(payload[w]) = payload[w]
  BY NormalType, WritersAssumption, FileStatesAssumption DEF PayloadBound, FileStates, CoinsOf
<1>5. TypeOK'
  BY <1>3, <1>4 DEF TypeOK, Release, Adopt, Return, RollBackMedia, Stages
<1>6. LockHeld' /\ CallsHaveEdits'
  BY <1>1, <1>2 DEF TypeOK, Release, Adopt, Return, LockHeld, Holding, CallsHaveEdits
<1>7. BaselinesReadable'
  BY <1>4 DEF TypeOK, Release, Adopt, Return, BaselinesReadable
<1>8. MemoryBound'
  <2>1. CASE stage[w] = "published" /\ edit[w].kind # "import"
    BY <2>1, <1>4 DEF TypeOK, Release, Adopt, Return, MemoryBound
  <2>2. CASE ~(stage[w] = "published" /\ edit[w].kind # "import")
    <3>1. items' = items /\ baseline' = baseline /\ load' = load /\ unsettled' = unsettled
      BY <2>2 DEF Release, Adopt
    <3>2. stage[w] = "published" => edit[w].kind \notin Ordinary
      BY <2>2 DEF Ordinary
    <3> QED BY <3>1, <3>2 DEF TypeOK, Release, Return, MemoryBound
  <2> QED BY <2>1, <2>2
<1>9. RequestBound' /\ PayloadBound'
  BY <1>2 DEF TypeOK, Release, Adopt, Return, RequestBound, PayloadBound
<1> QED BY <1>5, <1>6, <1>7, <1>8, <1>9

LEMMA CannotVerifyKeeps ==
    ASSUME IInv, NEW w \in Windows, CannotVerify(w)
    PROVE  IInv'
<1> USE DEF IInv
<1>1. /\ stage[w] \in Holding /\ edit[w] \in Edits
      /\ edit[w].kind = "mutate" /\ edit[w].kind \notin Ordinary
  BY DEF CannotVerify, CallsHaveEdits, Holding, Stages, Ordinary
<1>2. \A u \in Windows : u # w => stage[u] \in {"idle", "asked"}
  BY <1>1, OnlyHolder
<1>3. TypeOK'
  BY WritersAssumption DEF TypeOK, CannotVerify, Fail, Return, memory, Stages
<1>4. LockHeld' /\ CallsHaveEdits'
  BY <1>1, <1>2 DEF TypeOK, CannotVerify, Return, memory, LockHeld, Holding, CallsHaveEdits
<1>5. BaselinesReadable' /\ MemoryBound'
  BY <1>1 DEF TypeOK, CannotVerify, Return, memory, BaselinesReadable, MemoryBound
<1>6. RequestBound' /\ PayloadBound'
  BY <1>2 DEF TypeOK, CannotVerify, Return, memory, RequestBound, PayloadBound
<1> QED BY <1>3, <1>4, <1>5, <1>6

LEMMA CannotReleaseKeeps ==
    ASSUME IInv, NEW w \in Windows, CannotRelease(w)
    PROVE  IInv'
<1> USE DEF IInv
<1>1. stage[w] \in Holding /\ stage[w] # "idle" /\ edit[w] \in Edits
  BY DEF CannotRelease, CallsHaveEdits, Holding, Stages
<1>2. \A u \in Windows : u # w => stage[u] \in {"idle", "asked"}
  BY <1>1, OnlyHolder
<1>3. edit[w].kind = "photos" => edit[w].photo \in Photos
  BY <1>1, EditKinds
<1>4. stage[w] = "published" =>
        /\ payload[w] \in Collections /\ payload[w] \in FileStates
        /\ payload[w] \notin {None, Missing, Corrupt}
        /\ Normal(payload[w]) \in Collections
        /\ CoinsOf(payload[w]) = payload[w]
  BY NormalType, WritersAssumption, FileStatesAssumption DEF PayloadBound, FileStates, CoinsOf
<1>5. edit[w].kind \in Ordinary => After(edit[w], items[w]) \in Collections
  BY <1>1, AfterType DEF RequestBound, TypeOK
<1>6. CASE edit[w].kind \in Ordinary
  <2>1. /\ baseline' = baseline /\ load' = load /\ unsettled' = unsettled \cup {w}
        /\ items' = [items EXCEPT ![w] =
                        IF edit[w].kind = "csv" THEN @ ELSE After(edit[w], @)]
    BY <1>6 DEF CannotRelease
  <2>2. TypeOK'
    BY <2>1, <1>3, <1>5, <1>6, WritersAssumption
       DEF TypeOK, CannotRelease, Fail, Return, RollBackMedia, Stages
  <2>3. LockHeld' /\ CallsHaveEdits'
    BY <2>1, <1>2 DEF TypeOK, CannotRelease, Return, LockHeld, Holding, CallsHaveEdits
  <2>4. BaselinesReadable' /\ MemoryBound'
    BY <2>1 DEF TypeOK, CannotRelease, Return, BaselinesReadable, MemoryBound
  <2>5. RequestBound' /\ PayloadBound'
    BY <2>1, <1>2 DEF TypeOK, CannotRelease, Return, RequestBound, PayloadBound
  <2> QED BY <2>2, <2>3, <2>4, <2>5
<1>7. CASE edit[w].kind \notin Ordinary
  <2>1. Adopt(w) /\ unsettled' = unsettled
    BY <1>7 DEF CannotRelease
  <2>2. TypeOK'
    BY <2>1, <1>3, <1>4, WritersAssumption
       DEF TypeOK, CannotRelease, Adopt, Fail, Return, RollBackMedia, Stages
  <2>3. LockHeld' /\ CallsHaveEdits'
    BY <2>1, <1>2 DEF TypeOK, CannotRelease, Adopt, Return, LockHeld, Holding, CallsHaveEdits
  <2>4. BaselinesReadable'
    BY <2>1, <1>4 DEF TypeOK, CannotRelease, Adopt, Return, BaselinesReadable
  <2>5. MemoryBound'
    BY <2>1, <1>4, <1>7 DEF TypeOK, CannotRelease, Adopt, Return, MemoryBound
  <2>6. RequestBound' /\ PayloadBound'
    BY <2>1, <1>2 DEF TypeOK, CannotRelease, Adopt, Return, RequestBound, PayloadBound
  <2> QED BY <2>2, <2>3, <2>4, <2>5, <2>6
<1> QED BY <1>6, <1>7

LEMMA CloseKeeps ==
    ASSUME IInv, NEW w \in Windows, Close(w)
    PROVE  IInv'
<1> USE DEF IInv
<1>1. stage[w] \in Holding => \A u \in Windows : u # w => stage[u] \in {"idle", "asked"}
  BY OnlyHolder
<1>2. NoCoins \in Collections
  BY DEF NoCoins, Collections
<1>3. TypeOK'
  BY <1>2, WritersAssumption DEF TypeOK, Close, Fail, Return, Stages
<1>4. LockHeld' /\ CallsHaveEdits'
  BY <1>1 DEF TypeOK, Close, Return, LockHeld, Holding, CallsHaveEdits
<1>5. BaselinesReadable' /\ MemoryBound'
  BY WritersAssumption DEF TypeOK, Close, Return, BaselinesReadable, MemoryBound
<1>6. RequestBound' /\ PayloadBound'
  BY DEF TypeOK, Close, Return, RequestBound, PayloadBound
<1> QED BY <1>3, <1>4, <1>5, <1>6

LEMMA ClearKeeps ==
    ASSUME IInv, ClearStaleLock
    PROVE  IInv'
<1> USE DEF IInv
<1>1. TypeOK' /\ LockHeld'
  BY WritersAssumption DEF TypeOK, ClearStaleLock, memory, LockHeld
<1>2. CallsHaveEdits' /\ BaselinesReadable' /\ MemoryBound'
  BY DEF ClearStaleLock, memory, CallsHaveEdits, BaselinesReadable, MemoryBound
<1>3. RequestBound' /\ PayloadBound'
  BY DEF ClearStaleLock, memory, RequestBound, PayloadBound
<1> QED BY <1>1, <1>2, <1>3

LEMMA StutterKeeps ==
    ASSUME IInv, UNCHANGED vars
    PROVE  IInv'
BY DEF IInv, vars, TypeOK, LockHeld, CallsHaveEdits, BaselinesReadable, MemoryBound,
       RequestBound, PayloadBound

LEMMA Inductive == IInv /\ [Next]_vars => IInv'
<1> SUFFICES ASSUME IInv, [Next]_vars PROVE IInv'
  OBVIOUS
<1>1. ASSUME NEW w \in Windows, Call(w) PROVE IInv'
  BY <1>1, AcquireKeeps, CannotAcquireKeeps, CompareKeeps, CompareFieldsKeeps, PublishKeeps,
     CannotWriteKeeps, ReleaseKeeps, CannotVerifyKeeps, CannotReleaseKeeps DEF Call
<1> QED
  BY <1>1, LoadKeeps, AskKeeps, CloseKeeps, ClearKeeps, StutterKeeps DEF Next

(***************************************************************************)
(* The theorems.                                                           *)
(***************************************************************************)

LEMMA Invariance == Spec => []IInv
BY InitHolds, Inductive, PTL DEF Spec

\* Every variable keeps its type, whatever the windows do and whatever fails.
THEOREM WritersTyped == Spec => []TypeOK
<1>1. IInv => TypeOK
  BY DEF IInv
<1> QED BY <1>1, Invariance, PTL

\* Two windows are never under the lock together (PackageImportLock).
THEOREM WritersExclude == Spec => []OneWriter
<1>1. IInv => OneWriter
  BY DEF IInv, LockHeld, OneWriter
<1> QED BY <1>1, Invariance, PTL

\* A settled window holds the coins of its baseline in memory: the rollbacks of
\* add_item, update_item, delete_item and import_from_csv forget nothing.
THEOREM MemoryIsKept == Spec => []MemoryIsBaseline
<1>1. IInv => MemoryIsBaseline
  BY DEF IInv, BaselinesReadable, MemoryBound, MemoryIsBaseline
<1> QED BY <1>1, Invariance, PTL

\* A damaged collection.json stays as it is (load_collection's FAILED state).
THEOREM DamageIsKept == Spec => DamagedFileIsKept
<1>1. IInv /\ [Next]_vars => (file = Corrupt => file' = Corrupt)
  <2> SUFFICES ASSUME IInv, [Next]_vars, file = Corrupt PROVE file' = file
    OBVIOUS
  <2>1. ASSUME NEW w \in Windows, Publish(w) PROVE FALSE
    <3>1. stage[w] = "checked" /\ edit[w] \in Edits
      BY <2>1 DEF Publish, Step, IInv, CallsHaveEdits
    <3>2. edit[w].kind = "mutate" => file \in Collections
      BY <3>1 DEF IInv, PayloadBound
    <3>3. edit[w].kind \in Ordinary => file = baseline[w]
      BY <3>1 DEF IInv, PayloadBound, RequestBound, Ordinary
    <3>4. edit[w].kind = "import" => file # Corrupt
      BY <3>1 DEF IInv, PayloadBound, RequestBound
    <3> QED BY <3>1, <3>2, <3>3, <3>4, EditKinds, FileStatesAssumption
            DEF IInv, BaselinesReadable, Ordinary
  <2>2. ASSUME NEW w \in Windows, Call(w), ~Publish(w) PROVE file' = file
    BY <2>2 DEF Call, Acquire, CannotAcquire, Compare, CompareFields, CannotWrite, Release,
                CannotVerify, CannotRelease, disk
  <2> QED BY <2>1, <2>2 DEF Next, Load, Ask, Close, ClearStaleLock, vars, disk
<1> QED BY <1>1, Invariance, PTL DEF Spec, DamagedFileIsKept

(***************************************************************************)
(* Managed photos.  A name is used once: until the edit that copied the    *)
(* photo has published, nobody else refers to it, so a rollback removes    *)
(* nothing that a saved coin needs.                                        *)
(***************************************************************************)

Copying(w) == stage[w] # "idle" /\ edit[w].kind = "photos"

\* The photos a window refers to, in memory or in what it is about to write.
InUse(w) ==
    PhotosOf(items[w])
    \cup (IF stage[w] \in {"checked", "published"} THEN PhotosOf(payload[w]) ELSE {})

UnusedIsNew ==
    \A p \in Photos : media[p] = "unused" =>
        p \notin PhotosOf(CoinsOf(file)) /\ \A u \in Windows : p \notin InUse(u)

CopiesArePrivate ==
    \A w \in Windows : Copying(w) =>
        /\ media[edit[w].photo] = "present"
        /\ \A u \in Windows : u # w /\ Copying(u) => edit[u].photo # edit[w].photo
        /\ stage[w] # "published" =>
                /\ edit[w].photo \notin PhotosOf(CoinsOf(file))
                /\ edit[w].photo \notin PhotosOf(items[w])
                /\ \A u \in Windows : u # w => edit[w].photo \notin InUse(u)

PhotosInv == UnusedIsNew /\ CopiesArePrivate

\* What an edit does to the photos that coins refer to.
LEMMA PhotosAfter ==
    ASSUME NEW e \in Edits, NEW c \in Collections, Applicable(e, c),
           NEW p \in PhotosOf(After(e, c))
    PROVE  p \in PhotosOf(c) \/ (e.kind = "photos" /\ p = e.photo)
<1>1. e.id \in Ids
  BY EditKinds
<1>2. PICK i \in Ids : After(e, c)[i] # None /\ After(e, c)[i].photo = p
  BY DEF PhotosOf
<1>3. p \in Photos
  BY DEF PhotosOf
<1>4. CASE i # e.id
  <2>1. After(e, c)[i] = c[i]
    BY <1>1, <1>4 DEF After, Collections
  <2> QED BY <1>2, <1>3, <2>1 DEF PhotosOf
<1>5. CASE i = e.id
  <2> DEFINE old == c[e.id]
  <2>1. CASE e.kind \in {"add", "csv", "import"}
    <3>1. After(e, c)[i] = [text |-> e.text, photo |-> None]
      BY <1>1, <1>5, <2>1 DEF After, Collections
    <3> QED BY <1>2, <1>3, <3>1, EditsAssumption
  <2>2. CASE e.kind = "update"
    <3>1. After(e, c)[i] = [text |-> e.text, photo |-> old.photo]
      BY <1>1, <1>5, <2>2 DEF After, Collections
    <3> QED BY <1>1, <1>2, <1>3, <2>2, <3>1 DEF PhotosOf, Applicable
  <2>3. CASE e.kind = "photos"
    <3>1. After(e, c)[i] = [text |-> old.text, photo |-> e.photo]
      BY <1>1, <1>5, <2>3 DEF After, Collections
    <3> QED BY <1>2, <2>3, <3>1
  <2>4. CASE e.kind = "delete"
    <3>1. After(e, c)[i] = None
      BY <1>1, <1>5, <2>4 DEF After, Collections
    <3> QED BY <1>2, <3>1
  <2>5. CASE e.kind = "mutate"
    <3>1. After(e, c)[i] = [text |-> Revised(e, old.text), photo |-> old.photo]
      BY <1>1, <1>5, <2>5 DEF After, Collections
    <3> QED BY <1>1, <1>2, <1>3, <2>5, <3>1 DEF PhotosOf, Applicable
  <2> QED BY <2>1, <2>2, <2>3, <2>4, <2>5, EditKinds
<1> QED BY <1>4, <1>5

\* Decoding a collection changes no photo of it.
LEMMA PhotosOfNormal ==
    ASSUME NEW c \in Collections
    PROVE  PhotosOf(Normal(c)) \subseteq PhotosOf(c)
<1> SUFFICES ASSUME NEW p \in PhotosOf(Normal(c)) PROVE p \in PhotosOf(c)
  OBVIOUS
<1>1. PICK i \in Ids : Normal(c)[i] # None /\ Normal(c)[i].photo = p
  BY DEF PhotosOf
<1>2. c[i] # None /\ Normal(c)[i].photo = c[i].photo
  BY <1>1 DEF Normal
<1> QED BY <1>1, <1>2 DEF PhotosOf

\* What a step of one window may do to the photos: the file gets what the window
\* referred to, the window refers to what the file had or to its own copy, and
\* only its own copy may be removed, when its call ends.
PhotoStep(w) ==
    /\ \A u \in Windows : u # w =>
            /\ items'[u] = items[u] /\ stage'[u] = stage[u]
            /\ edit'[u] = edit[u] /\ payload'[u] = payload[u]
    /\ \A p \in PhotosOf(CoinsOf(file')) : p \in PhotosOf(CoinsOf(file)) \cup InUse(w)
    /\ \A p \in InUse(w)' :
            \/ p \in InUse(w) \cup PhotosOf(CoinsOf(file))
            \/ Copying(w) /\ p = edit[w].photo
    /\ \A p \in Photos : media'[p] # media[p] =>
            Copying(w) /\ p = edit[w].photo /\ ~Copying(w)' /\ media'[p] = "removed"
    /\ Copying(w)' =>
            /\ Copying(w) /\ edit'[w].photo = edit[w].photo
            /\ stage'[w] # "published" =>
                    stage[w] # "published" /\ file' = file /\ items'[w] = items[w]

LEMMA PhotoStepKeeps ==
    ASSUME IInv, PhotosInv, NEW w \in Windows, PhotoStep(w)
    PROVE  PhotosInv'
<1>1. ASSUME NEW u \in Windows, u # w
      PROVE  (Copying(u)' <=> Copying(u)) /\ InUse(u)' = InUse(u)
  BY <1>1 DEF PhotoStep, Copying, InUse
<1>2. \A u \in Windows : Copying(u) => edit[u].photo \in Photos
  BY EditKinds DEF IInv, CallsHaveEdits, Copying
<1>3. UnusedIsNew'
  <2> SUFFICES ASSUME NEW p \in Photos, media'[p] = "unused"
               PROVE  /\ p \notin PhotosOf(CoinsOf(file'))
                      /\ \A u \in Windows : p \notin InUse(u)'
    BY DEF UnusedIsNew
  <2>1. media[p] = "unused"
    BY DEF PhotoStep
  <2>2. p \notin PhotosOf(CoinsOf(file)) /\ \A u \in Windows : p \notin InUse(u)
    BY <2>1 DEF PhotosInv, UnusedIsNew
  <2>3. Copying(w) => p # edit[w].photo
    BY <2>1 DEF PhotosInv, CopiesArePrivate
  <2> QED BY <1>1, <2>2, <2>3 DEF PhotoStep
<1>4. CopiesArePrivate'
  <2> SUFFICES ASSUME NEW v \in Windows, Copying(v)'
               PROVE  /\ media'[edit'[v].photo] = "present"
                      /\ \A u \in Windows : u # v /\ Copying(u)' => edit'[u].photo # edit'[v].photo
                      /\ stage'[v] # "published" =>
                            /\ edit'[v].photo \notin PhotosOf(CoinsOf(file'))
                            /\ edit'[v].photo \notin PhotosOf(items'[v])
                            /\ \A u \in Windows : u # v => edit'[v].photo \notin InUse(u)'
    BY DEF CopiesArePrivate
  <2>1. \A u \in Windows : Copying(u)' => Copying(u) /\ edit'[u].photo = edit[u].photo
    BY <1>1 DEF PhotoStep
  <2>2. /\ media[edit[v].photo] = "present"
        /\ \A u \in Windows : u # v /\ Copying(u) => edit[u].photo # edit[v].photo
    BY <2>1 DEF PhotosInv, CopiesArePrivate
  <2>3. media'[edit[v].photo] = "present"
    BY <1>2, <2>1, <2>2 DEF PhotoStep
  <2>4. ASSUME stage'[v] # "published"
        PROVE  /\ edit[v].photo \notin PhotosOf(CoinsOf(file'))
               /\ edit[v].photo \notin PhotosOf(items'[v])
               /\ \A u \in Windows : u # v => edit[v].photo \notin InUse(u)'
    <3>1. stage[v] # "published" /\ items'[v] = items[v] /\ (v = w => file' = file)
      BY <2>4 DEF PhotoStep
    <3>2. /\ edit[v].photo \notin PhotosOf(CoinsOf(file))
          /\ edit[v].photo \notin PhotosOf(items[v])
          /\ \A u \in Windows : u # v => edit[v].photo \notin InUse(u)
      BY <2>1, <3>1 DEF PhotosInv, CopiesArePrivate
    <3>3. edit[v].photo \notin PhotosOf(CoinsOf(file'))
      BY <3>1, <3>2 DEF PhotoStep
    <3>4. \A u \in Windows : u # v => edit[v].photo \notin InUse(u)'
      BY <1>1, <2>2, <3>2 DEF PhotoStep
    <3> QED BY <3>1, <3>2, <3>3, <3>4
  <2> QED BY <2>1, <2>2, <2>3, <2>4
<1> QED BY <1>3, <1>4 DEF PhotosInv

\* The photos a call refers to when it begins.
LEMMA AskPhotos ==
    ASSUME IInv, PhotosInv, NEW w \in Windows, NEW e \in Edits, Ask(w, e)
    PROVE  PhotosInv'
<1>1. /\ file' = file /\ items' = items /\ payload' = payload
      /\ stage[w] = "idle" /\ stage' = [stage EXCEPT ![w] = "asked"]
      /\ edit' = [edit EXCEPT ![w] = e]
      /\ media' = IF e.kind = "photos" THEN [media EXCEPT ![e.photo] = "present"] ELSE media
      /\ e.kind = "photos" => media[e.photo] = "unused" /\ e.photo \in Photos
  BY EditKinds DEF Ask, memory
<1>2. \A u \in Windows : InUse(u)' = InUse(u)
  BY <1>1 DEF InUse, IInv, TypeOK
<1>3. /\ Copying(w)' <=> e.kind = "photos"
      /\ \A u \in Windows : u # w => (Copying(u)' <=> Copying(u)) /\ edit'[u] = edit[u]
                                     /\ stage'[u] = stage[u]
      /\ edit'[w] = e
  BY <1>1 DEF Copying, IInv, TypeOK
<1>4. \A u \in Windows : Copying(u) => edit[u].photo \in Photos /\ media[edit[u].photo] = "present"
  BY EditKinds DEF IInv, CallsHaveEdits, Copying, PhotosInv, CopiesArePrivate
<1>5. \A p \in Photos : media'[p] = IF e.kind = "photos" /\ p = e.photo THEN "present" ELSE media[p]
  BY <1>1 DEF IInv, TypeOK
<1>6. UnusedIsNew'
  BY <1>1, <1>2, <1>5 DEF PhotosInv, UnusedIsNew
<1>7. CopiesArePrivate'
  <2> SUFFICES ASSUME NEW v \in Windows, Copying(v)'
               PROVE  /\ media'[edit'[v].photo] = "present"
                      /\ \A u \in Windows : u # v /\ Copying(u)' => edit'[u].photo # edit'[v].photo
                      /\ stage'[v] # "published" =>
                            /\ edit'[v].photo \notin PhotosOf(CoinsOf(file))
                            /\ edit'[v].photo \notin PhotosOf(items[v])
                            /\ \A u \in Windows : u # v => edit'[v].photo \notin InUse(u)
    BY <1>1, <1>2 DEF CopiesArePrivate
  <2>1. CASE v = w
    <3>1. e.kind = "photos" /\ edit'[v] = e
      BY <1>3, <2>1
    <3>2. e.photo \notin PhotosOf(CoinsOf(file)) /\ \A u \in Windows : e.photo \notin InUse(u)
      BY <1>1, <3>1 DEF PhotosInv, UnusedIsNew
    <3>3. e.photo \notin PhotosOf(items[v])
      BY <3>2 DEF InUse
    <3>4. \A u \in Windows : u # v /\ Copying(u)' => edit'[u].photo # e.photo
      BY <1>1, <1>3, <1>4, <2>1, <3>1
    <3> QED BY <1>1, <1>5, <3>1, <3>2, <3>3, <3>4
  <2>2. CASE v # w
    <3>1. Copying(v) /\ edit'[v] = edit[v] /\ stage'[v] = stage[v]
      BY <1>3, <2>2
    <3>2. /\ media[edit[v].photo] = "present"
          /\ \A u \in Windows : u # v /\ Copying(u) => edit[u].photo # edit[v].photo
          /\ stage[v] # "published" =>
                /\ edit[v].photo \notin PhotosOf(CoinsOf(file))
                /\ edit[v].photo \notin PhotosOf(items[v])
                /\ \A u \in Windows : u # v => edit[v].photo \notin InUse(u)
      BY <3>1 DEF PhotosInv, CopiesArePrivate
    <3>3. media'[edit[v].photo] = "present" /\ (e.kind = "photos" => edit[v].photo # e.photo)
      BY <1>1, <1>4, <1>5, <3>1, <3>2
    <3>4. \A u \in Windows : u # v /\ Copying(u)' => edit'[u].photo # edit[v].photo
      BY <1>3, <3>2, <3>3
    <3> QED BY <3>1, <3>2, <3>3, <3>4
  <2> QED BY <2>1, <2>2
<1> QED BY <1>6, <1>7 DEF PhotosInv

\* The end of a call: nobody's photo but its own copy is touched.
LEMMA MediaRolledBack ==
    ASSUME IInv, NEW w \in Windows, stage[w] # "idle", RollBackMedia(w)
    PROVE  \A p \in Photos : media'[p] # media[p] =>
                Copying(w) /\ p = edit[w].photo /\ media'[p] = "removed"
BY DEF RollBackMedia, Copying, IInv, TypeOK

LEMMA LoadPhotos ==
    ASSUME IInv, NEW w \in Windows, Load(w)
    PROVE  PhotoStep(w)
<1>1. /\ file' = file /\ media' = media /\ stage' = stage /\ edit' = edit /\ payload' = payload
      /\ stage[w] = "idle"
      /\ items' = [items EXCEPT ![w] =
                        IF file = Corrupt THEN NoCoins ELSE Normal(CoinsOf(file))]
  BY DEF Load, disk
<1>2. PhotosOf(NoCoins) = {}
  BY DEF PhotosOf, NoCoins
<1>3. PhotosOf(Normal(CoinsOf(file))) \subseteq PhotosOf(CoinsOf(file))
  BY CoinsOfType, PhotosOfNormal DEF IInv, TypeOK
<1>4. InUse(w)' = PhotosOf(items'[w])
  BY <1>1 DEF InUse
<1>5. InUse(w)' \subseteq PhotosOf(CoinsOf(file))
  BY <1>1, <1>2, <1>3, <1>4 DEF IInv, TypeOK
<1> QED BY <1>1, <1>5 DEF PhotoStep, Copying, IInv, TypeOK

LEMMA ClosePhotos ==
    ASSUME IInv, NEW w \in Windows, Close(w)
    PROVE  PhotoStep(w)
<1>1. /\ file' = file /\ media' = media
      /\ stage' = [stage EXCEPT ![w] = "idle"] /\ edit' = [edit EXCEPT ![w] = None]
      /\ payload' = [payload EXCEPT ![w] = None] /\ items' = [items EXCEPT ![w] = NoCoins]
  BY DEF Close, Return
<1>2. PhotosOf(NoCoins) = {}
  BY DEF PhotosOf, NoCoins
<1>3. InUse(w)' = {} /\ ~Copying(w)'
  BY <1>1, <1>2 DEF InUse, Copying, IInv, TypeOK
<1> QED BY <1>1, <1>3 DEF PhotoStep, IInv, TypeOK

LEMMA AcquirePhotos ==
    ASSUME IInv, NEW w \in Windows, Acquire(w)
    PROVE  PhotoStep(w)
<1>1. /\ file' = file /\ media' = media /\ items' = items /\ edit' = edit /\ payload' = payload
      /\ stage[w] = "asked" /\ stage' = [stage EXCEPT ![w] = "locked"]
  BY DEF Acquire, memory
<1> QED BY <1>1 DEF PhotoStep, InUse, Copying, IInv, TypeOK

LEMMA CannotAcquirePhotos ==
    ASSUME IInv, NEW w \in Windows, CannotAcquire(w)
    PROVE  PhotoStep(w)
<1>1. /\ file' = file /\ items' = items /\ stage[w] = "asked"
      /\ stage' = [stage EXCEPT ![w] = "idle"] /\ edit' = [edit EXCEPT ![w] = None]
      /\ payload' = [payload EXCEPT ![w] = None] /\ RollBackMedia(w)
  BY DEF CannotAcquire, Return, memory
<1>2. ~Copying(w)' /\ InUse(w)' \subseteq InUse(w)
  BY <1>1 DEF Copying, InUse, IInv, TypeOK
<1> QED BY <1>1, <1>2, MediaRolledBack DEF PhotoStep, IInv, TypeOK

LEMMA ComparePhotos ==
    ASSUME IInv, NEW w \in Windows, Compare(w) \/ CompareFields(w)
    PROVE  PhotoStep(w)
<1>1. /\ file' = file /\ media' = media /\ items' = items /\ edit' = edit
      /\ stage[w] = "locked" /\ edit[w] \in Edits
      /\ stage' = [stage EXCEPT ![w] = stage'[w]]
      /\ stage'[w] \in {"checked", "found", "refused"}
      /\ \A u \in Windows : u # w => payload'[u] = payload[u]
  BY DEF Compare, CompareFields, Step, disk, memory, IInv, TypeOK, CallsHaveEdits
<1>2. IInv'
  BY CompareKeeps, CompareFieldsKeeps
<1>3. ASSUME NEW p \in PhotosOf(payload'[w]), stage'[w] = "checked"
      PROVE  p \in InUse(w) \cup PhotosOf(CoinsOf(file)) \/ (Copying(w) /\ p = edit[w].photo)
  <2>1. CASE edit[w].kind \in Ordinary
    <3>1. payload'[w] = After(edit[w], items[w])
      BY <1>1, <1>2, <1>3, <2>1 DEF IInv, PayloadBound
    <3> QED BY <1>1, <1>3, <2>1, <3>1, PhotosAfter DEF InUse, Copying, IInv, TypeOK, RequestBound
  <2>2. CASE edit[w].kind = "import"
    <3>1. payload'[w] = After(edit[w], Normal(CoinsOf(file)))
      BY <1>1, <1>2, <1>3, <2>2 DEF IInv, PayloadBound, Payload
    <3>2. CoinsOf(file) \in Collections
      BY CoinsOfType DEF IInv, TypeOK
    <3>3. Applicable(edit[w], CoinsOf(file))
      BY <1>1, <1>2, <1>3, <2>2 DEF IInv, RequestBound, PayloadBound
    <3>4. p \in PhotosOf(Normal(CoinsOf(file)))
      BY <1>1, <1>3, <2>2, <3>1, <3>2, <3>3, PhotosAfter, NormalType, PayloadType
    <3> QED BY <3>2, <3>4, PhotosOfNormal
  <2>3. CASE edit[w].kind = "mutate"
    <3>1. payload'[w] = After(edit[w], file) /\ file \in Collections /\ Applicable(edit[w], file)
      BY <1>1, <1>2, <1>3, <2>3 DEF IInv, PayloadBound
    <3>2. p \in PhotosOf(file)
      BY <1>1, <1>3, <2>3, <3>1, PhotosAfter
    <3>3. CoinsOf(file) = file
      BY <3>1, FileStatesAssumption DEF CoinsOf
    <3> QED BY <3>2, <3>3
  <2> QED BY <1>1, <2>1, <2>2, <2>3, EditKinds DEF Ordinary
<1>4. \A p \in InUse(w)' :
        p \in InUse(w) \cup PhotosOf(CoinsOf(file)) \/ (Copying(w) /\ p = edit[w].photo)
  BY <1>1, <1>3 DEF InUse
<1> QED BY <1>1, <1>4 DEF PhotoStep, Copying, IInv, TypeOK

LEMMA PublishPhotos ==
    ASSUME IInv, NEW w \in Windows, Publish(w)
    PROVE  PhotoStep(w)
<1>1. /\ media' = media /\ items' = items /\ edit' = edit /\ payload' = payload
      /\ stage[w] = "checked" /\ stage' = [stage EXCEPT ![w] = "published"]
      /\ file' = payload[w]
  BY DEF Publish, Step
<1>2. CoinsOf(payload[w]) = payload[w]
  BY <1>1, FileStatesAssumption DEF IInv, PayloadBound, CoinsOf
<1>3. PhotosOf(payload[w]) \subseteq InUse(w) /\ InUse(w)' = InUse(w)
  BY <1>1 DEF InUse, IInv, TypeOK
<1> QED BY <1>1, <1>2, <1>3 DEF PhotoStep, Copying, IInv, TypeOK

LEMMA CannotWritePhotos ==
    ASSUME IInv, NEW w \in Windows, CannotWrite(w)
    PROVE  PhotoStep(w)
<1>1. /\ file' = file /\ media' = media /\ items' = items /\ edit' = edit /\ payload' = payload
      /\ stage[w] = "checked" /\ stage' = [stage EXCEPT ![w] = "refused"]
  BY DEF CannotWrite, Step, memory, disk
<1> QED BY <1>1 DEF PhotoStep, InUse, Copying, IInv, TypeOK

\* The memory a window adopts is what it has published.
LEMMA AdoptedPhotos ==
    ASSUME IInv, NEW w \in Windows, Adopt(w)
    PROVE  /\ PhotosOf(items'[w]) \subseteq InUse(w)
           /\ \A u \in Windows : u # w => items'[u] = items[u]
<1>1. CASE stage[w] = "published" /\ edit[w].kind # "import"
  <2>1. items' = [items EXCEPT ![w] = Normal(payload[w])] /\ payload[w] \in Collections
    BY <1>1 DEF Adopt, IInv, PayloadBound
  <2> QED BY <1>1, <2>1, PhotosOfNormal DEF InUse, IInv, TypeOK
<1>2. CASE ~(stage[w] = "published" /\ edit[w].kind # "import")
  <2>1. items' = items
    BY <1>2 DEF Adopt
  <2> QED BY <2>1 DEF InUse
<1> QED BY <1>1, <1>2

LEMMA ReleasePhotos ==
    ASSUME IInv, NEW w \in Windows, Release(w)
    PROVE  PhotoStep(w)
<1>1. /\ file' = file /\ stage[w] # "idle" /\ Adopt(w)
      /\ media' = media \/ RollBackMedia(w)
      /\ stage' = [stage EXCEPT ![w] = "idle"] /\ edit' = [edit EXCEPT ![w] = None]
      /\ payload' = [payload EXCEPT ![w] = None]
  BY DEF Release, Return
<1>2. ~Copying(w)' /\ InUse(w)' \subseteq InUse(w)
  BY <1>1, AdoptedPhotos DEF Copying, InUse, IInv, TypeOK
<1> QED BY <1>1, <1>2, AdoptedPhotos, MediaRolledBack DEF PhotoStep, IInv, TypeOK

LEMMA CannotVerifyPhotos ==
    ASSUME IInv, NEW w \in Windows, CannotVerify(w)
    PROVE  PhotoStep(w)
<1>1. /\ file' = file /\ media' = media /\ items' = items
      /\ stage' = [stage EXCEPT ![w] = "idle"] /\ edit' = [edit EXCEPT ![w] = None]
      /\ payload' = [payload EXCEPT ![w] = None]
  BY DEF CannotVerify, Return, memory
<1>2. ~Copying(w)' /\ InUse(w)' \subseteq InUse(w)
  BY <1>1 DEF Copying, InUse, IInv, TypeOK
<1> QED BY <1>1, <1>2 DEF PhotoStep, IInv, TypeOK

LEMMA CannotReleasePhotos ==
    ASSUME IInv, NEW w \in Windows, CannotRelease(w)
    PROVE  PhotoStep(w)
<1>1. /\ file' = file /\ stage[w] # "idle" /\ edit[w] \in Edits /\ RollBackMedia(w)
      /\ stage' = [stage EXCEPT ![w] = "idle"] /\ edit' = [edit EXCEPT ![w] = None]
      /\ payload' = [payload EXCEPT ![w] = None]
  BY DEF CannotRelease, Return, IInv, CallsHaveEdits
<1>2. /\ \A u \in Windows : u # w => items'[u] = items[u]
      /\ \A p \in PhotosOf(items'[w]) : p \in InUse(w) \/ (Copying(w) /\ p = edit[w].photo)
  <2>1. CASE edit[w].kind \in Ordinary
    <3>1. items' = [items EXCEPT ![w] = IF edit[w].kind = "csv" THEN @ ELSE After(edit[w], @)]
      BY <2>1 DEF CannotRelease
    <3>2. items[w] \in Collections /\ Applicable(edit[w], items[w])
      BY <1>1, <2>1 DEF IInv, TypeOK, RequestBound
    <3>3. \A p \in PhotosOf(After(edit[w], items[w])) :
                p \in PhotosOf(items[w]) \/ (Copying(w) /\ p = edit[w].photo)
      BY <1>1, <3>2, PhotosAfter DEF Copying
    <3> QED BY <3>1, <3>3 DEF InUse, IInv, TypeOK
  <2>2. CASE edit[w].kind \notin Ordinary
    <3>1. Adopt(w)
      BY <2>2 DEF CannotRelease
    <3> QED BY <3>1, AdoptedPhotos
  <2> QED BY <2>1, <2>2
<1>3. ~Copying(w)' /\ InUse(w)' = PhotosOf(items'[w])
  BY <1>1 DEF Copying, InUse, IInv, TypeOK
<1> QED BY <1>1, <1>2, <1>3, MediaRolledBack DEF PhotoStep, IInv, TypeOK

LEMMA PhotosInductive == IInv /\ PhotosInv /\ [Next]_vars => PhotosInv'
<1> SUFFICES ASSUME IInv, PhotosInv, [Next]_vars PROVE PhotosInv'
  OBVIOUS
<1>1. ASSUME NEW w \in Windows, Load(w) \/ Close(w) \/ Call(w) PROVE PhotosInv'
  <2>1. PhotoStep(w)
    BY <1>1, LoadPhotos, ClosePhotos, AcquirePhotos, CannotAcquirePhotos, ComparePhotos,
       PublishPhotos, CannotWritePhotos, ReleasePhotos, CannotVerifyPhotos, CannotReleasePhotos
       DEF Call
  <2> QED BY <2>1, PhotoStepKeeps
<1>2. ASSUME UNCHANGED <<file, media, items, stage, edit, payload>> PROVE PhotosInv'
  BY <1>2 DEF PhotosInv, UnusedIsNew, CopiesArePrivate, Copying, InUse
<1>3. CASE ClearStaleLock
  BY <1>2, <1>3 DEF ClearStaleLock, memory
<1>4. CASE UNCHANGED vars
  BY <1>2, <1>4 DEF vars
<1> QED BY <1>1, <1>3, <1>4, AskPhotos DEF Next

\* A photo that a saved coin refers to exists and stays: what update_collection_item
\* rolls back is a copy that no saved coin refers to, whoever else has saved,
\* reloaded or ended meanwhile.
THEOREM PhotosStay == Spec => PhotosKept
<1> DEFINE Kept(p) ==
        \/ media'[p] = "present"
        \/ p \in PhotosOf(CoinsOf(file)) /\ media[p] = "removed"
        \/ \E w \in unsettled' : stage'[w] # stage[w]
<1>1. Init => PhotosInv
  <2> SUFFICES ASSUME Init PROVE PhotosInv
    OBVIOUS
  <2>1. \A p \in Photos : p \notin PhotosOf(CoinsOf(file))
    BY WritersAssumption DEF Init
  <2>2. \A u \in Windows : ~Copying(u) /\ InUse(u) = {}
    BY DEF Init, Copying, InUse, PhotosOf, NoCoins
  <2> QED BY <2>1, <2>2 DEF PhotosInv, UnusedIsNew, CopiesArePrivate
<1>2. IInv /\ IInv' /\ PhotosInv /\ [Next]_vars => \A p \in PhotosOf(CoinsOf(file')) : Kept(p)
  <2> SUFFICES ASSUME IInv, IInv', PhotosInv, [Next]_vars,
                      NEW p \in PhotosOf(CoinsOf(file'))
               PROVE  Kept(p)
    OBVIOUS
  <2>1. p \in Photos
    BY DEF PhotosOf
  <2>2. p \in PhotosOf(CoinsOf(file)) => media[p] \in {"present", "removed"}
    BY <2>1 DEF PhotosInv, UnusedIsNew, IInv, TypeOK
  <2>3. ASSUME file' = file, media' = media PROVE Kept(p)
    BY <2>1, <2>2, <2>3
  <2>4. ASSUME NEW w \in Windows, NEW e \in Edits, Ask(w, e)
        PROVE  media'[p] = "present" \/ (file' = file /\ media'[p] = media[p])
    BY <2>1, <2>4, EditKinds DEF Ask, IInv, TypeOK
  <2>5. ASSUME NEW w \in Windows, file' = file, stage[w] \notin {"idle", "published"},
               RollBackMedia(w)
        PROVE  media'[p] = media[p]
    BY <2>1, <2>5, MediaRolledBack DEF PhotosInv, CopiesArePrivate
  <2>6. ASSUME NEW w \in Windows, CannotRelease(w)
        PROVE  (media'[p] = media[p] /\ file' = file) \/ (w \in unsettled' /\ stage'[w] # stage[w])
    <3>1. edit[w].kind \in Ordinary => w \in unsettled' /\ stage'[w] # stage[w]
      BY <2>6 DEF CannotRelease, Return, IInv, TypeOK
    <3>2. edit[w].kind \notin Ordinary => media' = media /\ file' = file
      BY <2>6 DEF CannotRelease, RollBackMedia, Ordinary
    <3> QED BY <3>1, <3>2
  <2>7. ASSUME NEW w \in Windows, Publish(w)
        PROVE  \/ media'[p] = "present"
               \/ p \in PhotosOf(CoinsOf(file)) /\ media'[p] = media[p]
               \/ w \in unsettled' /\ stage'[w] # stage[w]
    <3>1. /\ media' = media /\ stage[w] = "checked" /\ stage'[w] = "published"
          /\ unsettled' = unsettled /\ file' = payload[w] /\ edit[w] \in Edits
          /\ CoinsOf(payload[w]) = payload[w]
      BY <2>7, FileStatesAssumption
         DEF Publish, Step, IInv, TypeOK, CallsHaveEdits, PayloadBound, CoinsOf
    <3>2. CASE edit[w].kind \in Ordinary /\ w \notin unsettled
      <4>1. /\ payload[w] = After(edit[w], items[w])
            /\ items[w] \in Collections /\ Applicable(edit[w], items[w])
            /\ items[w] = Normal(CoinsOf(file))
        BY <3>1, <3>2 DEF IInv, TypeOK, PayloadBound, RequestBound, MemoryBound,
                          BaselinesReadable, Ordinary
      <4>2. PhotosOf(items[w]) \subseteq PhotosOf(CoinsOf(file))
        BY <4>1, CoinsOfType, PhotosOfNormal DEF IInv, TypeOK
      <4>3. Copying(w) => media[edit[w].photo] = "present"
        BY DEF PhotosInv, CopiesArePrivate
      <4> QED BY <3>1, <4>1, <4>2, <4>3, PhotosAfter DEF Copying
    <3>3. CASE edit[w].kind = "import"
      <4>1. /\ payload[w] = After(edit[w], Normal(CoinsOf(file)))
            /\ CoinsOf(file) \in Collections /\ Applicable(edit[w], CoinsOf(file))
        BY <3>1, <3>3, CoinsOfType DEF IInv, TypeOK, PayloadBound, RequestBound, Payload
      <4> QED BY <3>1, <3>3, <4>1, PhotosAfter, PhotosOfNormal, NormalType, PayloadType
    <3>4. CASE edit[w].kind = "mutate"
      <4>1. /\ payload[w] = After(edit[w], file) /\ file \in Collections /\ CoinsOf(file) = file
            /\ Applicable(edit[w], file)
        BY <3>1, <3>4, FileStatesAssumption DEF IInv, PayloadBound, CoinsOf
      <4> QED BY <3>1, <3>4, <4>1, PhotosAfter
    <3> QED BY <3>1, <3>2, <3>3, <3>4, EditKinds DEF Ordinary
  <2>8. ASSUME NEW w \in Windows, Call(w) PROVE Kept(p)
    <3>1. CASE CannotAcquire(w)
      BY <2>1, <2>2, <2>5, <3>1 DEF CannotAcquire
    <3>2. CASE Release(w)
      BY <2>2, <2>3, <2>5, <3>2 DEF Release
    <3> QED
      BY <2>2, <2>3, <2>6, <2>7, <2>8, <3>1, <3>2
         DEF Call, Acquire, Compare, CompareFields, CannotWrite, CannotVerify, disk
  <2>9. ASSUME NEW w \in Windows, Load(w) \/ Close(w) PROVE Kept(p)
    BY <2>3, <2>9 DEF Load, Close, disk
  <2>10. CASE UNCHANGED vars \/ ClearStaleLock
    BY <2>3, <2>10 DEF vars, ClearStaleLock
  <2> QED BY <2>2, <2>4, <2>8, <2>9, <2>10 DEF Next
<1> QED BY <1>1, <1>2, Invariance, PhotosInductive, PTL DEF Spec, PhotosKept

(***************************************************************************)
(* The refinement: every step of the writers is a step of AtomicCollection *)
(* or none.                                                                *)
(***************************************************************************)

calls == [w \in Windows |-> [edit |-> edit[w], done |-> stage[w] \in {"published", "found"}]]

\* The instance edits the same data.
LEMMA SameData ==
    /\ Promise!Collections = Collections /\ Promise!Ordinary = Ordinary
    /\ \A f : Promise!CoinsOf(f) = CoinsOf(f)
    /\ \A e, c : /\ Promise!Applicable(e, c) = Applicable(e, c)
                 /\ Promise!Applied(e, c) = Applied(e, c)
                 /\ Promise!Conflicted(e, c) = Conflicted(e, c)
                 /\ Promise!Payload(e, c) = Payload(e, c)
<1>1. Promise!Collections = Collections
  BY DEF Promise!Collections, Promise!Coins, Promise!Texts, Collections, Coins, Texts
<1>2. \A f : Promise!CoinsOf(f) = CoinsOf(f)
  BY DEF Promise!CoinsOf, Promise!NoCoins, CoinsOf, NoCoins
<1>3. \A e, c : Promise!Applicable(e, c) = Applicable(e, c)
  BY Zenon DEF Promise!Applicable, Applicable
<1>4. \A e, c : /\ Promise!Applied(e, c) = Applied(e, c)
                /\ Promise!Conflicted(e, c) = Conflicted(e, c)
  BY Zenon DEF Promise!Applied, Promise!Expected, Promise!Conflicted, Applied, Expected,
               Conflicted
<1>5. \A c : Promise!Normal(c) = Normal(c)
  BY Zenon DEF Promise!Normal, Promise!Read, Normal, Read
<1>6. \A e, c : Promise!After(e, c) = After(e, c)
  BY Zenon DEF Promise!After, Promise!Revised, After, Revised
<1>7. \A e, c : Promise!Payload(e, c) = Payload(e, c)
  BY <1>5, <1>6, Zenon DEF Promise!Payload, Payload
<1> QED BY <1>1, <1>2, <1>3, <1>4, <1>7, Zenon DEF Promise!Ordinary, Ordinary

\* The call of w returns: in the abstract specification it is then no call.
LEMMA ReturnMaps ==
    ASSUME TypeOK, NEW w \in Windows, NEW a, Return(w, a)
    PROVE  calls' = [calls EXCEPT ![w] = Promise!NoCall]
<1>1. stage'[w] = "idle" /\ edit'[w] = None
  BY DEF TypeOK, Return
<1>2. (stage'[w] \in {"published", "found"}) = FALSE
  BY <1>1
<1>3. [edit |-> edit'[w], done |-> stage'[w] \in {"published", "found"}] = Promise!NoCall
  BY <1>1, <1>2, Zenon DEF Promise!NoCall
<1>4. \A u \in Windows : u # w => stage'[u] = stage[u] /\ edit'[u] = edit[u]
  BY DEF TypeOK, Return
<1>5. \A u \in Windows :
        [edit |-> edit'[u], done |-> stage'[u] \in {"published", "found"}]
            = IF u = w THEN Promise!NoCall ELSE calls[u]
  BY <1>3, <1>4, Zenon DEF calls
<1>6. [calls EXCEPT ![w] = Promise!NoCall]
        = [u \in Windows |-> IF u = w THEN Promise!NoCall ELSE calls[u]]
  BY Zenon DEF calls
<1> QED BY <1>5, <1>6, Zenon DEF calls

\* The replacement of the file is the moment the edit takes effect.
LEMMA PublishMaps ==
    ASSUME IInv, NEW w \in Windows, Publish(w)
    PROVE  Promise!Take(w) \/ Promise!Stray(w)
<1> DEFINE e == edit[w]
<1>1. /\ stage[w] = "checked" /\ e \in Edits /\ e # None
      /\ file' = payload[w] /\ payload[w] \in Collections
      /\ UNCHANGED <<answer, unsettled>>
  <2>1. stage[w] = "checked" /\ e \in Edits
    BY DEF IInv, Publish, Step, CallsHaveEdits
  <2>2. PICK k \in {"add", "csv", "import", "update", "photos", "delete", "mutate"} : e.kind = k
    BY <2>1, EditKinds
  <2> QED BY <2>1, NoneIsNoEdit DEF IInv, Publish, PayloadBound
<1>2. calls' = [calls EXCEPT ![w].done = TRUE]
  BY <1>1 DEF IInv, TypeOK, Publish, Step, calls
<1>3. calls[w].edit = e /\ ~calls[w].done
  BY <1>1 DEF calls
<1>4. /\ e.kind \in Ordinary \/ e.kind = "import" \/ e.kind = "mutate"
      /\ e.kind \in Ordinary => e.kind \notin {"import", "mutate"}
      /\ e.id \in Ids
  BY <1>1, EditKinds DEF Ordinary
<1>5. file # Corrupt
  <2>1. e.kind = "mutate" => file \in Collections
    BY <1>1 DEF IInv, PayloadBound
  <2>2. e.kind \in Ordinary => file = baseline[w]
    BY <1>1, <1>4 DEF IInv, PayloadBound, RequestBound
  <2>3. e.kind = "import" => file # Corrupt
    BY <1>1 DEF IInv, PayloadBound, RequestBound
  <2> QED BY <1>4, <2>1, <2>2, <2>3, FileStatesAssumption DEF IInv, BaselinesReadable
<1>6. CASE e.kind = "mutate"
  <2>1. /\ file \in Collections /\ Applicable(e, file) /\ Conflicted(e, file) = {}
        /\ payload[w] = After(e, file)
    BY <1>1, <1>6 DEF IInv, PayloadBound
  <2>2. CoinsOf(file) = file
    BY <2>1, FileStatesAssumption DEF CoinsOf
  <2>3. Payload(e, file) = After(e, file)
    BY <1>6 DEF Payload
  <2> QED BY <1>1, <1>2, <1>3, <1>4, <1>5, <1>6, <2>1, <2>2, <2>3, SameData DEF Promise!Take, calls
<1>7. CASE e.kind = "import"
  <2>1. payload[w] = Payload(e, CoinsOf(file)) /\ Applicable(e, CoinsOf(file))
    BY <1>1, <1>7 DEF IInv, PayloadBound, RequestBound
  <2> QED BY <1>1, <1>2, <1>3, <1>4, <1>5, <1>7, <2>1, SameData DEF Promise!Take, calls
<1>8. CASE e.kind \in Ordinary /\ w \notin unsettled
  <2>1. /\ payload[w] = After(e, items[w]) /\ file = baseline[w]
        /\ Applicable(e, items[w]) /\ load[w] \in {"MISSING", "LOADED"}
    BY <1>1, <1>4, <1>8 DEF IInv, PayloadBound, RequestBound, BaselinesReadable
  <2>2. items[w] = Normal(CoinsOf(file))
    BY <1>1, <1>8, <2>1 DEF IInv, MemoryBound
  <2>3. CoinsOf(file) \in Collections
    BY CoinsOfType DEF IInv, TypeOK
  <2>4. Applicable(e, CoinsOf(file))
    BY <1>4, <2>1, <2>2, <2>3, NormalType DEF Applicable
  <2>5. payload[w] = Payload(e, CoinsOf(file))
    BY <1>4, <1>8, <2>1, <2>2 DEF Payload
  <2> QED BY <1>1, <1>2, <1>3, <1>4, <1>5, <1>8, <2>4, <2>5, SameData DEF Promise!Take, calls
<1>9. CASE w \in unsettled
  BY <1>1, <1>2, <1>3, <1>5, <1>9, SameData DEF Promise!Stray, calls
<1> QED BY <1>4, <1>6, <1>7, <1>8, <1>9

LEMMA CompareFieldsMaps ==
    ASSUME IInv, NEW w \in Windows, CompareFields(w)
    PROVE  Promise!Recognize(w) \/ UNCHANGED <<file, calls, answer, unsettled>>
<1>1. /\ stage[w] = "locked" /\ edit[w] # None /\ edit[w].kind = "mutate"
      /\ UNCHANGED <<file, edit, answer, unsettled>>
  BY DEF CompareFields, Step, disk, memory
<1>2. CASE stage' = [stage EXCEPT ![w] = "found"]
  <2>1. /\ file \in Collections /\ file[edit[w].id] # None
        /\ Applied(edit[w], file) = DOMAIN edit[w].desired
    BY <1>1, <1>2 DEF CompareFields, Step, IInv, TypeOK
  <2>2. calls' = [calls EXCEPT ![w].done = TRUE]
    BY <1>1, <1>2 DEF IInv, TypeOK, calls
  <2>3. calls[w].edit = edit[w] /\ ~calls[w].done
    BY <1>1 DEF calls
  <2> QED BY <1>1, <2>1, <2>2, <2>3, SameData DEF Promise!Recognize, calls
<1>3. CASE stage' # [stage EXCEPT ![w] = "found"]
  <2>1. PICK t \in {"refused", "checked"} : stage' = [stage EXCEPT ![w] = t]
    BY <1>3 DEF CompareFields, Step
  <2>2. \A u \in Windows :
          (stage'[u] \in {"published", "found"}) = (stage[u] \in {"published", "found"})
    BY <1>1, <2>1 DEF IInv, TypeOK
  <2> QED BY <1>1, <2>2, Zenon DEF calls
<1> QED BY <1>2, <1>3

\* A step that leaves every call where it was in the abstract specification.
LEMMA StageMaps ==
    ASSUME TypeOK, NEW w \in Windows, edit' = edit,
           NEW t \in {"asked", "locked", "checked", "refused"},
           stage[w] \in {"asked", "locked", "checked"}, stage' = [stage EXCEPT ![w] = t]
    PROVE  calls' = calls
<1>1. \A u \in Windows :
        (stage'[u] \in {"published", "found"}) = (stage[u] \in {"published", "found"})
  BY DEF TypeOK
<1> QED BY <1>1, Zenon DEF calls

\* The promise of AtomicCollection is kept, for any number of windows, edits
\* and faults: each call takes effect at one moment or not at all, and its
\* answer is true (save_collection, mutate_fields_conditionally).
THEOREM WritersKeepPromise == Spec => ImplementsPromise
<1>1. Init => Promise!Init
  <2> SUFFICES ASSUME Init PROVE Promise!Init
    OBVIOUS
  <2>1. file \in Collections \cup {Missing, Corrupt}
    BY WritersAssumption DEF Init
  <2>2. \A w \in Windows : stage[w] = "idle" /\ edit[w] = None
    BY DEF Init
  <2>3. ("idle" \in {"published", "found"}) = FALSE
    OBVIOUS
  <2>4. calls = [w \in Windows |-> Promise!NoCall]
    BY <2>2, <2>3, Zenon DEF calls, Promise!NoCall
  <2> QED BY <2>1, <2>4, SameData DEF Promise!Init, Init, calls
<1>2. IInv /\ [Next]_vars => [Promise!Next]_(Promise!vars)
  <2> SUFFICES ASSUME IInv, [Next]_vars,
                      ~ UNCHANGED <<file, calls, answer, unsettled>>
               PROVE  Promise!Next
    BY DEF Promise!vars, calls
  <2> USE DEF IInv
  <2>1. ASSUME NEW w \in Windows, Load(w) PROVE Promise!Reload(w)
    <3>1. calls[w] = Promise!NoCall
      <4>1. stage[w] = "idle" /\ edit[w] = None
        BY <2>1 DEF Load, CallsHaveEdits
      <4>2. (stage[w] \in {"published", "found"}) = FALSE
        BY <4>1
      <4> QED BY <4>1, <4>2, Zenon DEF calls, Promise!NoCall
    <3>2. calls' = calls /\ calls = [calls EXCEPT ![w] = Promise!NoCall]
      BY <2>1, <3>1 DEF Load, calls
    <3> QED BY <2>1, <3>2 DEF Promise!Reload, Load, disk, calls
  <2>2. ASSUME NEW w \in Windows, NEW e \in Edits, Ask(w, e) PROVE Promise!Ask(w)
    <3>1. /\ stage[w] = "idle" /\ edit[w] = None
          /\ stage' = [stage EXCEPT ![w] = "asked"] /\ edit' = [edit EXCEPT ![w] = e]
      BY <2>2 DEF Ask, CallsHaveEdits
    <3>2. (stage[w] \in {"published", "found"}) = FALSE
      BY <3>1
    <3>3. calls[w] = Promise!NoCall
      BY <3>1, <3>2, Zenon DEF calls, Promise!NoCall
    <3>4. \A u \in Windows :
            /\ (stage'[u] \in {"published", "found"}) = (stage[u] \in {"published", "found"})
            /\ edit'[u] = IF u = w THEN e ELSE edit[u]
      BY <3>1 DEF TypeOK
    <3>5. calls' = [u \in Windows |-> IF u = w THEN [calls[u] EXCEPT !.edit = e] ELSE calls[u]]
      BY <3>4 DEF calls
    <3>6. calls' = [calls EXCEPT ![w].edit = e]
      BY <3>5 DEF calls
    <3> QED BY <2>2, <3>3, <3>6 DEF Promise!Ask, Ask, memory, calls
  <2>3. ASSUME NEW w \in Windows, Call(w) PROVE Promise!Next
    <3>1. ASSUME Acquire(w) PROVE FALSE
      BY <3>1, StageMaps DEF Acquire, memory
    <3>2. ASSUME CannotAcquire(w) PROVE Promise!Answer(w) \/ Promise!Error(w)
      <4>1. /\ edit[w] # None /\ stage[w] = "asked"
            /\ Return(w, IF edit[w].kind = "mutate" THEN "error" ELSE "refused")
            /\ UNCHANGED <<file, unsettled>>
        BY <3>2, NoneIsNoEdit DEF CannotAcquire, CallsHaveEdits, memory
      <4>2. calls' = [calls EXCEPT ![w] = Promise!NoCall]
        BY <4>1, ReturnMaps
      <4>3. calls[w].edit # None /\ ~calls[w].done
        BY <4>1 DEF calls
      <4> QED BY <4>1, <4>2, <4>3 DEF Return, Promise!Answer, Promise!Error, calls
    <3>3. ASSUME Compare(w) PROVE FALSE
      BY <3>3, StageMaps DEF Compare, Step, disk, memory
    <3>4. ASSUME CompareFields(w) PROVE Promise!Recognize(w)
      BY <3>4, CompareFieldsMaps
    <3>5. ASSUME Publish(w) PROVE Promise!Take(w) \/ Promise!Stray(w)
      BY <3>5, PublishMaps
    <3>6. ASSUME CannotWrite(w) PROVE FALSE
      BY <3>6, StageMaps DEF CannotWrite, Step, disk, memory
    <3>7. ASSUME Release(w) PROVE Promise!Answer(w)
      <4>1. /\ edit[w] # None /\ stage[w] \in {"published", "found", "refused"}
            /\ Return(w, IF stage[w] = "refused" THEN "refused" ELSE "saved")
            /\ UNCHANGED <<file, unsettled>>
        BY <3>7, NoneIsNoEdit DEF Release, CallsHaveEdits
      <4>2. calls' = [calls EXCEPT ![w] = Promise!NoCall]
        BY <4>1, ReturnMaps
      <4>3. calls[w].edit # None /\ (calls[w].done <=> stage[w] # "refused")
        BY <4>1 DEF calls
      <4> QED BY <4>1, <4>2, <4>3 DEF Return, Promise!Answer, calls
    <3>8. ASSUME CannotVerify(w) \/ CannotRelease(w) PROVE Promise!Error(w)
      <4>1. /\ edit[w] # None /\ Return(w, "error") /\ file' = file
            /\ unsettled' \in {unsettled, unsettled \cup {w}}
        BY <3>8, NoneIsNoEdit DEF CannotVerify, CannotRelease, CallsHaveEdits, memory
      <4>2. calls' = [calls EXCEPT ![w] = Promise!NoCall]
        BY <4>1, ReturnMaps
      <4>3. calls[w].edit # None
        BY <4>1 DEF calls
      <4> QED BY <4>1, <4>2, <4>3 DEF Return, Promise!Error, calls
    <3> QED BY <2>3, <3>1, <3>2, <3>3, <3>4, <3>5, <3>6, <3>7, <3>8 DEF Call, Promise!Next
  <2>4. ASSUME NEW w \in Windows, Close(w) PROVE Promise!Reload(w)
    <3>1. Return(w, "none") /\ file' = file /\ unsettled' = unsettled \ {w}
      BY <2>4 DEF Close
    <3>2. calls' = [calls EXCEPT ![w] = Promise!NoCall]
      BY <3>1, ReturnMaps
    <3> QED BY <3>1, <3>2 DEF Return, Promise!Reload, calls
  <2>5. ASSUME ClearStaleLock PROVE FALSE
    BY <2>5 DEF ClearStaleLock, memory, calls
  <2>6. ASSUME UNCHANGED vars PROVE FALSE
    BY <2>6 DEF vars, calls
  <2> QED BY <2>1, <2>2, <2>3, <2>4, <2>5, <2>6 DEF Next, Promise!Next
<1> QED BY <1>1, <1>2, Invariance, PTL DEF Spec, ImplementsPromise, Promise!Spec
=============================================================================
