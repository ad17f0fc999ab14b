-------------------------- MODULE GenerationJournal --------------------------
(***************************************************************************)
(* The operational journal on disk (durable_repository.py): how one        *)
(* immutable generation at a time gets into the directory of an import,    *)
(* and what the next call makes of a write that was cut short.             *)
(*                                                                         *)
(* A generation is written under the one .next name its predecessor (for   *)
(* generation zero, owner.json) authorizes, synced, and renamed to its     *)
(* final name without replacing anything.  Every load reads the whole      *)
(* directory and first settles a candidate it finds there; every append    *)
(* loads first.                                                            *)
(*                                                                         *)
(* Clients are the importers and recovery passes that hold the import lock *)
(* for the time of a call, one after the other.  The head a client knows   *)
(* may be old by the time it appends.                                      *)
(*                                                                         *)
(* Simplifications: a body is one value, so the hash of the predecessor    *)
(* and the fixed fields, which only tampering could break, are not         *)
(* compared; which bodies may follow which is the matter of JournalRules.  *)
(* A process dies, the machine does not: what was renamed stays renamed    *)
(* although its directory was not yet synced.                              *)
(* PackageImport takes an append as one step, which this module justifies. *)
(***************************************************************************)
EXTENDS Naturals, Sequences, FiniteSets

CONSTANTS
    Clients,
    Entries,        \* the bodies of generations
    Final,          \* those with no token for a successor (H)
    Partial,        \* the body of a file cut short anywhere
    None,           \* no file, no body, no client
    MaxGeneration,  \* 4095 in the code
    MaxFailures     \* bound: crashes and raised errors in a behaviour

ASSUME EntriesAssumption ==
    /\ Final \subseteq Entries
    /\ Partial \notin Entries /\ None \notin Entries /\ Partial # None
ASSUME BoundsAssumption == MaxGeneration \in Nat /\ MaxFailures \in Nat

Files == [number : Nat, body : Entries]
NoCandidate == [number |-> 0, body |-> None]

VARIABLES
    dir,        \* absent, unowned (owner.json missing or cut short), owned
    files,      \* the generation files, as sorted by name
    cand,       \* the .next file
    known,      \* the number of generations up to the head a client knows
    call,       \* the call in progress
    failures

vars == <<dir, files, cand, known, call, failures>>

Idle == [step |-> "idle", goal |-> "none", client |-> None, body |-> None]
At(step) == call.step = step
Goto(step) == call' = [call EXCEPT !.step = step]

Init ==
    /\ dir = "absent" /\ files = <<>> /\ cand = NoCandidate
    /\ known = [c \in Clients |-> 0]
    /\ call = Idle /\ failures = 0

-----------------------------------------------------------------------------
(* What a load finds.                                                      *)

\* The names sort by number, and each must carry the number of its place.
Numbered == \A i \in DOMAIN files : files[i].number + 1 = i
Closed == files # <<>> /\ files[Len(files)].body \in Final

\* A successor's candidate must be the one the head authorizes.
Authorized == ~Closed /\ cand.number = Len(files)

\* Mutant: an incomplete candidate is an error, as for generation zero.
UnreadablePartial ==
    \/ dir # "owned"
    \/ files = <<>> /\ cand.body \notin Entries
    \/ ~Numbered
    \/ cand # NoCandidate /\ (~Authorized \/ cand.body = Partial)

\* Generation zero has no predecessor to fall back on: without a whole
\* candidate the directory is no journal.
Unreadable ==
    \/ dir # "owned"
    \/ files = <<>> /\ cand.body \notin Entries
    \/ ~Numbered
    \/ cand # NoCandidate /\ ~Authorized

\* Where the final name of a new file sorts in.
Sorted(f) ==
    LET k == Cardinality({i \in DOMAIN files : files[i].number <= f.number})
    IN  SubSeq(files, 1, k) \o <<f>> \o SubSeq(files, k + 1, Len(files))

PublishCandidate == files' = Sorted(cand) /\ cand' = NoCandidate

-----------------------------------------------------------------------------
(* create(): directory, owner.json, generation zero.                       *)

Create(c) ==
    /\ At("idle") /\ dir = "absent"
    /\ dir' = "unowned"
    /\ \E e \in Entries \ Final :
          call' = [step |-> "owner", goal |-> "create", client |-> c, body |-> e]
    /\ UNCHANGED <<files, cand, known, failures>>

WriteOwner ==
    /\ At("owner")
    /\ dir' = "owned" /\ Goto("open")
    /\ UNCHANGED <<files, cand, known, failures>>

(* append(): checks of the two generations, then a load, then the file.    *)

AppendGeneration(c) ==
    /\ At("idle") /\ known[c] \in 1..MaxGeneration
    /\ files[known[c]].body \notin Final
    /\ \E e \in Entries :
          call' = [step |-> "load", goal |-> "append", client |-> c, body |-> e]
    /\ UNCHANGED <<dir, files, cand, known, failures>>

\* _write_and_publish: exclusive creation, the bytes and their sync, rename.
OpenCandidate ==
    /\ At("open") /\ cand = NoCandidate
    /\ cand' = [number |-> known[call.client], body |-> Partial]
    /\ Goto("fill")
    /\ UNCHANGED <<dir, files, known, failures>>

FillCandidate ==
    /\ At("fill")
    /\ cand' = [cand EXCEPT !.body = call.body]
    /\ Goto("publish")
    /\ UNCHANGED <<dir, files, known, failures>>

Publish ==
    /\ At("publish") /\ PublishCandidate
    /\ Goto("return")
    /\ UNCHANGED <<dir, known, failures>>

Tell == known' = [known EXCEPT ![call.client] = Len(files)] /\ call' = Idle

Return ==
    /\ At("return") /\ Tell
    /\ UNCHANGED <<dir, files, cand, failures>>

-----------------------------------------------------------------------------
(* load(): settle the candidate, then answer.                              *)

Load(c) ==
    /\ At("idle") /\ dir # "absent"
    /\ call' = [step |-> "load", goal |-> "load", client |-> c, body |-> None]
    /\ UNCHANGED <<dir, files, cand, known, failures>>

Refuse ==
    /\ At("load") /\ Unreadable
    /\ call' = Idle
    /\ UNCHANGED <<dir, files, cand, known, failures>>

DiscardFound ==          \* mutant: a candidate nobody heard of is deleted
    /\ At("load") /\ ~Unreadable /\ cand # NoCandidate /\ files # <<>>
    /\ cand' = NoCandidate
    /\ UNCHANGED <<dir, files, known, call, failures>>

PublishFound ==
    /\ At("load") /\ ~Unreadable /\ cand.body \in Entries
    /\ PublishCandidate
    /\ UNCHANGED <<dir, known, call, failures>>

DeletePartial ==
    /\ At("load") /\ ~Unreadable /\ cand.body = Partial
    /\ cand' = NoCandidate
    /\ UNCHANGED <<dir, files, known, call, failures>>

Answer ==
    /\ At("load") /\ ~Unreadable /\ cand = NoCandidate
    /\ call.goal = "load"
    /\ Tell
    /\ UNCHANGED <<dir, files, cand, failures>>

AdmitAnyHead ==          \* mutant: head != previous is not checked
    /\ At("load") /\ ~Unreadable /\ cand = NoCandidate
    /\ call.goal = "append"
    /\ Goto("open")
    /\ UNCHANGED <<dir, files, cand, known, failures>>

\* The head must be the generation the caller took for its predecessor.
Admit ==
    /\ At("load") /\ ~Unreadable /\ cand = NoCandidate
    /\ call.goal = "append"
    /\ call' = IF known[call.client] = Len(files) THEN [call EXCEPT !.step = "open"]
                                                  ELSE Idle
    /\ UNCHANGED <<dir, files, cand, known, failures>>

-----------------------------------------------------------------------------
(* Failures.  Every effect so far stays; a client that raised still knows  *)
(* its old head, one that died is followed by one that knows nothing.      *)

Fails == failures < MaxFailures /\ failures' = failures + 1

Raise ==
    /\ Fails /\ ~At("idle")
    /\ call' = Idle
    /\ UNCHANGED <<dir, files, cand, known>>

Crash(c) ==
    /\ Fails /\ known' = [known EXCEPT ![c] = 0]
    /\ call' = IF ~At("idle") /\ call.client = c THEN Idle ELSE call
    /\ UNCHANGED <<dir, files, cand>>

-----------------------------------------------------------------------------
Begin == \E c \in Clients : Create(c) \/ AppendGeneration(c) \/ Load(c)
Continue ==
    \/ WriteOwner \/ OpenCandidate \/ FillCandidate \/ Publish \/ Return
    \/ Refuse \/ PublishFound \/ DeletePartial \/ Answer \/ Admit

Next == Begin \/ Continue \/ Raise \/ \E c \in Clients : Crash(c)

Spec == Init /\ [][Next]_vars

\* A call runs to its end or raises; recovery loads every listed journal when
\* the import dialog opens.
Fairness == WF_vars(Continue) /\ WF_vars(\E c \in Clients : Load(c))
LiveSpec == Spec /\ Fairness

-----------------------------------------------------------------------------
(* Correctness.                                                            *)

Calls ==
    [step : {"idle", "owner", "load", "open", "fill", "publish", "return"},
     goal : {"none", "create", "append", "load"},
     client : Clients \cup {None}, body : Entries \cup {None}]

TypeOK ==
    /\ dir \in {"absent", "unowned", "owned"}
    /\ files \in Seq(Files)
    /\ cand \in [number : Nat, body : Entries \cup {Partial}] \cup {NoCandidate}
    /\ known \in [Clients -> Nat]
    /\ call \in Calls
    /\ failures \in Nat

\* No crash point, stale client or abandoned write ever makes a journal
\* unreadable that had its generation zero: recovery is never locked out.
StaysReadable == files # <<>> => ~Unreadable

\* The promise of AppendOnlyLog.  An append takes effect when its candidate is
\* whole: from then on every load publishes it.
Bodies == [i \in DOMAIN files |-> files[i].body]
Log == IF cand.body \in Entries THEN Append(Bodies, cand.body) ELSE Bodies

Promise == INSTANCE AppendOnlyLog WITH log <- Log, seen <- known
ImplementsLog == Promise!Spec

\* A candidate left behind is settled by a later load, whoever makes it.
CandidateSettles == files # <<>> /\ cand # NoCandidate ~> cand = NoCandidate
=============================================================================
