---------------------------- MODULE AtomicImport ----------------------------
(***************************************************************************)
(* What the desktop importer promises the collector, with no files, no     *)
(* journal and no processes: an accepted package is either added to the    *)
(* collection as a whole or not at all, the choice is made once, and the   *)
(* one history record written afterwards tells the truth about it          *)
(* (docs/DESKTOP_PACKAGE_IMPORT_RECOVERY_INVARIANTS.md, invariants 1, 2    *)
(* and 6).  PackageImport and ProcessedImport implement it, which have no  *)
(* step in common: they are two importers with one promise.                *)
(***************************************************************************)

VARIABLES
    outcome,    \* what has become of the import
    record      \* the result retained in terminal history

vars == <<outcome, record>>

Outcomes == {"none", "undecided", "imported", "abandoned"}
Records == {"none", "SUCCEEDED", "ROLLED_BACK"}

TypeOK == outcome \in Outcomes /\ record \in Records

Init == outcome = "none" /\ record = "none"

\* A durable import begins.
Begin ==
    /\ outcome = "none"
    /\ outcome' = "undecided"
    /\ UNCHANGED record

\* The only two decisions, each made from "undecided" and never revised.
Import ==
    /\ outcome = "undecided"
    /\ outcome' = "imported"
    /\ UNCHANGED record

Abandon ==
    /\ outcome = "undecided"
    /\ outcome' = "abandoned"
    /\ UNCHANGED record

\* History is written once, after the decision, and agrees with it.
Record ==
    /\ record = "none"
    /\ \/ outcome = "imported" /\ record' = "SUCCEEDED"
       \/ outcome = "abandoned" /\ record' = "ROLLED_BACK"
    /\ UNCHANGED outcome

Next == Begin \/ Import \/ Abandon \/ Record

Spec == Init /\ [][Next]_vars
=============================================================================
