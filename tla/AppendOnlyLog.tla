---------------------------- MODULE AppendOnlyLog ----------------------------
(***************************************************************************)
(* What the operational journal promises the importer and its recovery,    *)
(* with no files: a log that only grows, by one entry at a time, and only  *)
(* by a client that has seen all of it.  An append may take effect without *)
(* its client hearing of it; a client that is told a length never finds a  *)
(* shorter or a different log afterwards.  GenerationJournal implements    *)
(* this specification.                                                     *)
(***************************************************************************)
EXTENDS Naturals, Sequences

CONSTANTS
    Clients,
    Entries,
    Final       \* entries that accept no successor

VARIABLES
    log,        \* the entries that took effect
    seen        \* how many of them each client has been told of

vars == <<log, seen>>

Init == log = <<>> /\ seen = [c \in Clients |-> 0]

Closed == log # <<>> /\ log[Len(log)] \in Final

Extend(c) ==
    /\ seen[c] = Len(log) /\ ~Closed
    /\ \E e \in Entries : log' = Append(log, e)
    /\ UNCHANGED seen

Tell(c) == seen' = [seen EXCEPT ![c] = Len(log)] /\ UNCHANGED log

\* The client dies, and its successor starts from nothing.
Forget(c) == seen' = [seen EXCEPT ![c] = 0] /\ UNCHANGED log

Next == \E c \in Clients : Extend(c) \/ Tell(c) \/ Forget(c)

Spec == Init /\ [][Next]_vars
=============================================================================
