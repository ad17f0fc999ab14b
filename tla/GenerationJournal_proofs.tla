---------------------- MODULE GenerationJournal_proofs ----------------------
(***************************************************************************)
(* Theorems about GenerationJournal, for any clients, bodies and numbers,  *)
(* and any number of failures.                                             *)
(*                                                                         *)
(* That a load always finds a readable directory is not inductive: it      *)
(* depends on the writer being the only one who knows the newest head,     *)
(* and that on what the load before its write has found.  The invariant    *)
(* has one part for the directory (Sound) and one for the call in progress *)
(* (Working).                                                              *)
(***************************************************************************)
EXTENDS GenerationJournal, FiniteSetTheorems, SequenceTheorems, TLAPS

\* The directory is a chain, with at most the one candidate its head authorizes.
Sound ==
    /\ dir # "owned" => files = <<>> /\ cand = NoCandidate
    /\ Numbered
    /\ cand # NoCandidate => Authorized
    /\ \A c \in Clients : known[c] <= Len(files)

\* What the call in progress relies on.
Working ==
    /\ ~At("idle") => call.client \in Clients
    /\ At("owner") => dir = "unowned"
    /\ call.step \in {"open", "fill", "publish", "return"} => dir = "owned"
    /\ call.step \in {"owner", "open", "fill", "publish"} =>
            /\ known[call.client] = Len(files) /\ ~Closed
            /\ call.body \in Entries
    /\ At("open") => cand = NoCandidate
    /\ At("fill") => cand.body = Partial
    /\ At("publish") => cand.body = call.body
    /\ At("return") => cand = NoCandidate
    /\ At("load") /\ call.goal = "append" =>
            /\ known[call.client] > 0 /\ call.body \in Entries
            /\ files[known[call.client]].body \notin Final

IInv == TypeOK /\ Sound /\ Working

\* In a chain, a file with the next number sorts to the end.
LEMMA SortedLast ==
  ASSUME files \in Seq(Files), Numbered, NEW f \in Files, f.number = Len(files)
  PROVE  Sorted(f) = Append(files, f)
<1> DEFINE n == Len(files)
           k == Cardinality({i \in DOMAIN files : files[i].number <= f.number})
<1>1. n \in Nat /\ DOMAIN files = 1..n
  OBVIOUS
<1>2. \A i \in 1..n : files[i].number + 1 = i /\ files[i].number \in Nat
  <2> SUFFICES ASSUME NEW i \in 1..n PROVE files[i].number + 1 = i /\ files[i].number \in Nat
    OBVIOUS
  <2>1. files[i] \in Files
    BY <1>1
  <2> QED BY <1>1, <2>1 DEF Numbered, Files
<1>3. {i \in DOMAIN files : files[i].number <= f.number} = 1..n
  <2>1. \A i \in 1..n : files[i].number <= n
    BY <1>1, <1>2
  <2> QED BY <1>1, <2>1
<1>4. k = n
  <2>1. k = Cardinality(1..n)
    BY <1>3
  <2> HIDE DEF n
  <2>2. n \in Int /\ 1 \in Int
    BY <1>1
  <2>3. Cardinality(1..n) = IF 1 > n THEN 0 ELSE n - 1 + 1
    BY <2>2, FS_Interval
  <2>4. Cardinality(1..n) = n
    BY <1>1, <2>3
  <2> QED BY <2>1, <2>4
<1>5. SubSeq(files, 1, n) = files
  BY SubSeqFull
<1>6. SubSeq(files, n + 1, n) = <<>>
  BY <1>1, SubSeqEmpty
<1>7. Sorted(f) = files \o <<f>> \o <<>>
  BY <1>4, <1>5, <1>6 DEF Sorted
<1> QED BY <1>7

\* Publishing the authorized candidate makes the chain one longer.
LEMMA PublishChain ==
  ASSUME TypeOK, Sound, PublishCandidate, cand.body \in Entries
  PROVE  /\ files' = Append(files, [number |-> Len(files), body |-> cand.body])
         /\ files' \in Seq(Files) /\ Len(files') = Len(files) + 1
         /\ \A i \in 1..Len(files) : files'[i] = files[i]
         /\ Numbered' /\ dir = "owned"
<1>1. cand # NoCandidate
  BY EntriesAssumption DEF NoCandidate
<1>2. cand \in Files /\ cand.number = Len(files) /\ files \in Seq(Files)
  BY <1>1, EntriesAssumption DEF TypeOK, Sound, Authorized, Files
<1>3. files' = Append(files, cand)
  BY <1>2, SortedLast DEF Sound, PublishCandidate
<1>4. cand = [number |-> Len(files), body |-> cand.body]
  BY <1>2 DEF Files
<1>5. /\ files' \in Seq(Files) /\ Len(files') = Len(files) + 1
      /\ \A i \in 1..Len(files) : files'[i] = files[i]
      /\ files'[Len(files) + 1] = cand
  BY <1>2, <1>3
<1>6. Numbered'
  <2> SUFFICES ASSUME NEW i \in DOMAIN files' PROVE files'[i].number + 1 = i
    BY DEF Numbered
  <2>1. i \in 1..Len(files) \/ i = Len(files) + 1
    BY <1>5
  <2>2. CASE i \in 1..Len(files)
    BY <1>2, <1>5, <2>2 DEF Sound, Numbered
  <2>3. CASE i = Len(files) + 1
    BY <1>2, <1>5, <2>3
  <2> QED BY <2>1, <2>2, <2>3
<1> QED BY <1>1, <1>3, <1>4, <1>5, <1>6 DEF Sound

\* The initial state satisfies the inductive invariant.
LEMMA IInvInit == Init => IInv
BY DEF Init, IInv, TypeOK, Sound, Working, Numbered, Authorized, NoCandidate, Idle, Calls, At, Files

\* Every step keeps the types.
LEMMA TypeOKStep == IInv /\ [Next]_vars => TypeOK'
<1> SUFFICES ASSUME IInv, [Next]_vars PROVE TypeOK'
  OBVIOUS
<1>0. TypeOK /\ Sound /\ Working /\ NoCandidate = [number |-> 0, body |-> None]
  BY DEF IInv, NoCandidate
<1> USE DEF TypeOK, Calls
<1>1. CASE UNCHANGED vars
  BY <1>0, <1>1 DEF vars
<1>2. ASSUME NEW c \in Clients, Create(c) \/ AppendGeneration(c) \/ Load(c) PROVE TypeOK'
  BY <1>0, <1>2 DEF Create, AppendGeneration, Load
<1>3. CASE WriteOwner \/ Return \/ Refuse \/ Answer \/ Admit
  BY <1>0, <1>3 DEF WriteOwner, Return, Refuse, Answer, Admit, Tell, Goto, Idle, At, Working
<1>4. CASE OpenCandidate \/ FillCandidate
  BY <1>0, <1>4 DEF OpenCandidate, FillCandidate, Goto, At, Working, NoCandidate
<1>5. CASE Publish
  <2>1. cand.body \in Entries
    BY <1>0, <1>5 DEF Publish, Working, At
  <2> QED BY <1>0, <1>5, <2>1, PublishChain DEF Publish, PublishCandidate, Goto
<1>6. CASE PublishFound
  BY <1>0, <1>6, PublishChain DEF PublishFound, PublishCandidate
<1>7. CASE DeletePartial
  BY <1>0, <1>7 DEF DeletePartial
<1>8. CASE Raise
  BY <1>0, <1>8 DEF Raise, Fails, Idle
<1>9. ASSUME NEW c \in Clients, Crash(c) PROVE TypeOK'
  BY <1>0, <1>9 DEF Crash, Fails, Idle
<1> QED BY <1>1, <1>2, <1>3, <1>4, <1>5, <1>6, <1>7, <1>8, <1>9 DEF Next, Begin, Continue

\* Every step keeps the chain and what the call in progress relies on.
LEMMA IInvStep == IInv /\ [Next]_vars => IInv'
<1> SUFFICES ASSUME IInv, [Next]_vars PROVE Sound' /\ Working'
  BY TypeOKStep DEF IInv
<1>0. /\ TypeOK /\ Sound /\ Working /\ TypeOK'
      /\ files \in Seq(Files) /\ known \in [Clients -> Nat] /\ call \in Calls
      /\ NoCandidate = [number |-> 0, body |-> None]
  BY TypeOKStep DEF IInv, TypeOK, NoCandidate
<1> USE EntriesAssumption DEF Sound, Working, At
<1>1. CASE UNCHANGED vars
  BY <1>0, <1>1 DEF vars, Numbered, Authorized, Closed
<1>2. ASSUME NEW c \in Clients, Create(c) PROVE Sound' /\ Working'
  <2>1. /\ files = <<>> /\ cand = NoCandidate /\ known[c] = 0 /\ Len(files) = 0
    BY <1>0, <1>2 DEF Create
  <2> QED BY <1>0, <1>2, <2>1 DEF Create, Numbered, Authorized, Closed
<1>3. ASSUME NEW c \in Clients, AppendGeneration(c) \/ Load(c) PROVE Sound' /\ Working'
  <2>1. Sound'
    BY <1>0, <1>3 DEF AppendGeneration, Load, Numbered, Authorized, Closed
  <2>2. ASSUME AppendGeneration(c) PROVE Working'
    <3>1. PICK e \in Entries :
             call' = [step |-> "load", goal |-> "append", client |-> c, body |-> e]
      BY <2>2 DEF AppendGeneration
    <3>2. known[c] > 0 /\ files[known[c]].body \notin Final
      BY <2>2, BoundsAssumption DEF AppendGeneration
    <3> QED BY <2>2, <3>1, <3>2 DEF AppendGeneration
  <2>3. ASSUME Load(c) PROVE Working'
    BY <2>3 DEF Load
  <2> QED BY <1>3, <2>1, <2>2, <2>3
<1>4. CASE WriteOwner \/ OpenCandidate \/ FillCandidate
  <2>1. CASE WriteOwner
    BY <1>0, <2>1 DEF WriteOwner, Goto, Numbered, Authorized, Closed, Calls
  <2>2. CASE OpenCandidate
    <3>1. /\ call' = [call EXCEPT !.step = "fill"] /\ UNCHANGED <<dir, files, known>>
          /\ cand' = [number |-> Len(files), body |-> Partial] /\ ~Closed
      BY <1>0, <2>2 DEF OpenCandidate, Goto
    <3>2. cand'.number = Len(files') /\ dir' = "owned" /\ ~Closed'
      BY <1>0, <2>2, <3>1 DEF OpenCandidate, Closed
    <3>3. Numbered' /\ \A c \in Clients : known'[c] <= Len(files')
      BY <1>0, <3>1 DEF Numbered
    <3>4. Sound'
      BY <3>2, <3>3 DEF Authorized
    <3>5. Working'
      BY <1>0, <2>2, <3>1 DEF OpenCandidate, Closed, Calls
    <3> QED BY <3>4, <3>5
  <2>3. CASE FillCandidate
    <3>1. /\ call' = [call EXCEPT !.step = "publish"] /\ UNCHANGED <<dir, files, known>>
          /\ cand # NoCandidate /\ cand' = [cand EXCEPT !.body = call.body]
      BY <1>0, <2>3 DEF FillCandidate, Goto, NoCandidate
    <3>2. cand'.number = cand.number /\ cand'.body = call.body
      BY <1>0, <3>1 DEF TypeOK
    <3>3. Sound'
      BY <1>0, <2>3, <3>1, <3>2 DEF Numbered, Authorized, Closed, FillCandidate
    <3>4. Working'
      BY <1>0, <2>3, <3>1, <3>2 DEF FillCandidate, Closed, Calls
    <3> QED BY <3>3, <3>4
  <2> QED BY <1>4, <2>1, <2>2, <2>3
<1>5. CASE Publish \/ PublishFound
  <2>1. cand.body \in Entries /\ PublishCandidate /\ UNCHANGED <<dir, known>>
    BY <1>0, <1>5 DEF Publish, PublishFound
  <2>2. /\ files' \in Seq(Files) /\ Len(files') = Len(files) + 1
        /\ \A i \in 1..Len(files) : files'[i] = files[i]
        /\ Numbered' /\ dir = "owned" /\ cand' = NoCandidate
    BY <1>0, <2>1, PublishChain DEF PublishCandidate
  <2>3. Sound'
    BY <1>0, <2>1, <2>2 DEF Authorized
  <2>4. CASE Publish
    BY <1>0, <2>1, <2>2, <2>4 DEF Publish, Goto, Calls, Closed
  <2>5. CASE PublishFound
    BY <1>0, <2>1, <2>2, <2>5 DEF PublishFound, Closed
  <2> QED BY <1>5, <2>3, <2>4, <2>5
<1>6. CASE Return \/ Answer
  BY <1>0, <1>6 DEF Return, Answer, Tell, Idle, Numbered, Authorized, Closed
<1>7. CASE Refuse \/ Raise
  BY <1>0, <1>7 DEF Refuse, Raise, Idle, Numbered, Authorized, Closed
<1>8. CASE DeletePartial
  BY <1>0, <1>8 DEF DeletePartial, Numbered, Authorized, Closed
<1>9. CASE Admit
  BY <1>0, <1>9 DEF Admit, Unreadable, Idle, Numbered, Authorized, Closed, Calls
<1>10. ASSUME NEW c \in Clients, Crash(c) PROVE Sound' /\ Working'
  BY <1>0, <1>10 DEF Crash, Idle, Numbered, Authorized, Closed
<1> QED BY <1>1, <1>2, <1>3, <1>4, <1>5, <1>6, <1>7, <1>8, <1>9, <1>10
        DEF Next, Begin, Continue

\* The chain, its one authorized candidate and what each call relies on hold
\* in every reachable state.
THEOREM JournalInductive == Spec => []IInv
BY IInvInit, IInvStep, PTL DEF Spec

\* State variables keep their types, from TypeOK being part of the invariant.
THEOREM JournalTypes == Spec => []TypeOK
<1>1. IInv => TypeOK
  BY DEF IInv
<1> QED BY <1>1, JournalInductive, PTL

\* Once a journal has its generation zero, no crash, stale client or abandoned
\* write makes it unreadable: load() never refuses it (durable_repository.py).
THEOREM AlwaysReadable == Spec => []StaysReadable
<1>1. IInv => StaysReadable
  BY DEF IInv, Sound, StaysReadable, Unreadable
<1> QED BY <1>1, JournalInductive, PTL

-----------------------------------------------------------------------------
(* The implementation of AppendOnlyLog.                                    *)

\* Steps that leave the directory's contents alone leave the log alone.
LEMMA LogFrame == UNCHANGED <<files, cand>> => Log' = Log
BY DEF Log, Bodies

\* Renaming a whole candidate to its final name does not change the log.
LEMMA PublishKeepsLog ==
  ASSUME TypeOK, Sound, PublishCandidate, cand.body \in Entries
  PROVE  Log' = Log
<1>1. /\ files' = Append(files, [number |-> Len(files), body |-> cand.body])
      /\ files' \in Seq(Files) /\ Len(files') = Len(files) + 1
      /\ \A i \in 1..Len(files) : files'[i] = files[i]
      /\ cand' = NoCandidate /\ files \in Seq(Files)
  BY PublishChain DEF PublishCandidate, TypeOK
<1>2. Log' = Bodies'
  BY <1>1, EntriesAssumption DEF Log, NoCandidate
<1>3. Log = Append(Bodies, cand.body)
  BY DEF Log
<1>4. Bodies' = Append(Bodies, cand.body)
  <2>1. Bodies = [i \in 1..Len(files) |-> files[i].body]
    BY <1>1 DEF Bodies
  <2>2. Bodies' = [i \in 1..(Len(files) + 1) |-> files'[i].body]
    BY <1>1 DEF Bodies
  <2>3. Bodies \in Seq(Entries) /\ Len(Bodies) = Len(files)
    <3>1. \A i \in 1..Len(files) : files[i] \in Files
      BY <1>1
    <3>2. \A i \in 1..Len(files) : files[i].body \in Entries
      BY <3>1 DEF Files
    <3>3. Len(files) \in Nat
      BY <1>1
    <3> QED BY <2>1, <3>2, <3>3
  <2>4. Append(Bodies, cand.body) =
          [i \in 1..(Len(files) + 1) |-> IF i = Len(files) + 1 THEN cand.body ELSE Bodies[i]]
    BY <2>3
  <2>5. \A i \in 1..(Len(files) + 1) :
          files'[i].body = IF i = Len(files) + 1 THEN cand.body ELSE Bodies[i]
    BY <1>1, <2>1
  <2> QED BY <2>2, <2>4, <2>5
<1> QED BY <1>2, <1>3, <1>4

\* The log is as long as the chain, plus the whole candidate if there is one.
LEMMA LogLength ==
  ASSUME TypeOK
  PROVE  /\ cand.body \notin Entries => Log = Bodies
         /\ Len(Bodies) = Len(files)
         /\ \A i \in DOMAIN files : Bodies[i] = files[i].body
BY DEF TypeOK, Log, Bodies

\* Initial states map to initial states.
LEMMA RefinesInit == Init => Promise!Init
<1> SUFFICES ASSUME Init PROVE Log = <<>> /\ known = [c \in Clients |-> 0]
  BY DEF Promise!Init
<1>1. cand.body \notin Entries /\ files = <<>>
  BY EntriesAssumption DEF Init, NoCandidate
<1> QED BY <1>1 DEF Init, Log, Bodies

\* Every step is one of the log's or leaves the log and what is known of it.
LEMMA RefinesStep == IInv /\ [Next]_vars => [Promise!Next]_<<Log, known>>
<1> SUFFICES ASSUME IInv, [Next]_vars PROVE Promise!Next \/ UNCHANGED <<Log, known>>
  OBVIOUS
<1>0. TypeOK /\ Sound /\ Working /\ NoCandidate.body \notin Entries /\ Partial \notin Entries
  BY EntriesAssumption DEF IInv, NoCandidate
<1>1. CASE UNCHANGED vars
  BY <1>1, LogFrame DEF vars
<1>2. ASSUME NEW c \in Clients, Create(c) \/ AppendGeneration(c) \/ Load(c)
      PROVE UNCHANGED <<Log, known>>
  BY <1>2, LogFrame DEF Create, AppendGeneration, Load
<1>3. CASE WriteOwner \/ Refuse \/ Admit \/ Raise
  BY <1>3, LogFrame DEF WriteOwner, Refuse, Admit, Raise
<1>4. CASE OpenCandidate \/ DeletePartial
  <2>1. cand.body \notin Entries /\ cand'.body \notin Entries
    BY <1>0, <1>4 DEF OpenCandidate, DeletePartial
  <2> QED BY <1>4, <2>1 DEF OpenCandidate, DeletePartial, Log, Bodies
<1>5. CASE FillCandidate
  <2>1. /\ call.client \in Clients /\ known[call.client] = Len(files)
        /\ ~Closed /\ call.body \in Entries /\ cand.body = Partial
        /\ cand \in [number : Nat, body : Entries \cup {Partial}] \cup {NoCandidate}
        /\ cand' = [cand EXCEPT !.body = call.body] /\ UNCHANGED <<files, known>>
    BY <1>0, <1>5 DEF TypeOK, Working, FillCandidate, At
  <2>2. cand'.body = call.body
    BY <2>1 DEF NoCandidate
  <2>3. Log = Bodies /\ Log' = Append(Bodies, call.body) /\ Len(Bodies) = Len(files)
    BY <1>0, <2>1, <2>2, LogLength DEF Log, Bodies
  <2>4. ~Promise!Closed
    BY <1>0, <2>1, <2>3, LogLength DEF Promise!Closed, Closed, TypeOK
  <2>5. Promise!Extend(call.client)
    BY <2>1, <2>3, <2>4 DEF Promise!Extend
  <2> QED BY <2>1, <2>5 DEF Promise!Next
<1>6. CASE Publish \/ PublishFound
  <2>1. cand.body \in Entries /\ PublishCandidate /\ UNCHANGED known
    BY <1>0, <1>6 DEF Publish, PublishFound, Working, At
  <2> QED BY <1>0, <2>1, PublishKeepsLog
<1>7. CASE Return \/ Answer
  <2>1. /\ cand = NoCandidate /\ call.client \in Clients /\ UNCHANGED <<files, cand>>
        /\ known' = [known EXCEPT ![call.client] = Len(files)]
    BY <1>0, <1>7 DEF Return, Answer, Tell, Working, At
  <2>2. Len(Log) = Len(files) /\ Log' = Log
    BY <1>0, <2>1, LogLength, LogFrame
  <2>3. Promise!Tell(call.client)
    BY <2>1, <2>2 DEF Promise!Tell
  <2> QED BY <2>1, <2>3 DEF Promise!Next
<1>8. ASSUME NEW c \in Clients, Crash(c) PROVE Promise!Next
  <2>1. Promise!Forget(c)
    BY <1>8, LogFrame DEF Crash, Promise!Forget
  <2> QED BY <2>1 DEF Promise!Next
<1> QED BY <1>1, <1>2, <1>3, <1>4, <1>5, <1>6, <1>7, <1>8 DEF Next, Begin, Continue

\* The journal on disk implements the append-only log: an append takes effect
\* once, only on the newest head, and no crash takes an entry back.
THEOREM JournalImplementsLog == Spec => ImplementsLog
<1>1. IInv /\ [Next]_vars => [Promise!Next]_Promise!vars
  BY RefinesStep DEF Promise!vars
<1>2. Init => Promise!Init
  BY RefinesInit
<1> QED BY <1>1, <1>2, JournalInductive, PTL DEF Spec, ImplementsLog, Promise!Spec
=============================================================================
