-------------------------- MODULE AtomicCollection --------------------------
(***************************************************************************)
(* What the collection promises to everyone who edits it, with no lock, no *)
(* memory copies and no baselines: every edit takes effect at one moment   *)
(* between the request and the answer, on the collection as it is at that  *)
(* moment, or not at all; "saved" means it did, "refused" that it did not. *)
(* CollectionWriters implements this specification.                        *)
(*                                                                         *)
(* A window that is "unsettled" (its last call ended in an unexpected      *)
(* error instead of an answer) is promised nothing until it reloads: the   *)
(* code can then publish something nobody asked for (README, section 5).   *)
(***************************************************************************)
EXTENDS CollectionEdits

CONSTANT Windows    \* open application windows

VARIABLES
    records,    \* the collection
    call,       \* the request each window waits on, and whether it took effect
    answer,     \* what each window was told last
    unsettled   \* windows that are promised nothing

vars == <<records, call, answer, unsettled>>

Answers == {"none", "saved", "refused", "error"}

TypeOK ==
    /\ records \in Collections \cup {Missing, Corrupt}
    /\ call \in [Windows -> [edit : Edits \cup {None}, done : BOOLEAN]]
    /\ answer \in [Windows -> Answers]
    /\ unsettled \in SUBSET Windows

NoCall == [edit |-> None, done |-> FALSE]

Init ==
    /\ records \in Collections \cup {Missing, Corrupt}
    /\ call = [w \in Windows |-> NoCall]
    /\ answer = [w \in Windows |-> "none"]
    /\ unsettled = {}

Ask(w) ==
    /\ call[w] = NoCall
    /\ \E e \in Edits : call' = [call EXCEPT ![w].edit = e]
    /\ answer' = [answer EXCEPT ![w] = "none"]
    /\ UNCHANGED <<records, unsettled>>

\* The edit takes effect on whatever the collection holds now.
Take(w) ==
    /\ call[w].edit # None /\ ~call[w].done
    /\ w \notin unsettled \/ call[w].edit.kind \notin Ordinary
    /\ records # Corrupt
    /\ LET e == call[w].edit
           c == CoinsOf(records)
       IN  /\ Applicable(e, c)
           /\ e.kind = "mutate" => Conflicted(e, c) = {}
           /\ records' = Payload(e, c)
    /\ call' = [call EXCEPT ![w].done = TRUE]
    /\ UNCHANGED <<answer, unsettled>>

\* A conditional edit that finds every field as desired took effect before.
Recognize(w) ==
    /\ call[w].edit # None /\ call[w].edit.kind = "mutate" /\ ~call[w].done
    /\ records \in Collections
    /\ LET e == call[w].edit
       IN  records[e.id] # None /\ Applied(e, records) = DOMAIN e.desired
    /\ call' = [call EXCEPT ![w].done = TRUE]
    /\ UNCHANGED <<records, answer, unsettled>>

\* No promise: a whole collection from the memory of an unsettled window.
Stray(w) ==
    /\ w \in unsettled /\ call[w].edit # None /\ ~call[w].done
    /\ records # Corrupt
    /\ records' \in Collections
    /\ call' = [call EXCEPT ![w].done = TRUE]
    /\ UNCHANGED <<answer, unsettled>>

\* "saved" and "refused" tell the truth; an error may mean either.
Answer(w) ==
    /\ call[w].edit # None
    /\ answer' = [answer EXCEPT ![w] = IF call[w].done THEN "saved" ELSE "refused"]
    /\ call' = [call EXCEPT ![w] = NoCall]
    /\ UNCHANGED <<records, unsettled>>

Error(w) ==
    /\ call[w].edit # None
    /\ answer' = [answer EXCEPT ![w] = "error"]
    /\ call' = [call EXCEPT ![w] = NoCall]
    /\ unsettled' \in {unsettled, unsettled \cup {w}}
    /\ UNCHANGED records

\* A window that reloads, or ends with its process, starts afresh.
Reload(w) ==
    /\ call' = [call EXCEPT ![w] = NoCall]
    /\ answer' = [answer EXCEPT ![w] = "none"]
    /\ unsettled' = unsettled \ {w}
    /\ UNCHANGED records

Next ==
    \E w \in Windows :
        Ask(w) \/ Take(w) \/ Recognize(w) \/ Stray(w) \/ Answer(w) \/ Error(w) \/ Reload(w)

Spec == Init /\ [][Next]_vars
=============================================================================
