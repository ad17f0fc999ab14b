---------------------------- MODULE JournalRules ----------------------------
(***************************************************************************)
(* The rules of the operational journal, and whether the importer keeps    *)
(* them.  durable_models.py says which generations are valid by            *)
(* themselves, durable_repository.py which may follow which; append()      *)
(* checks both before anything is written, and every load checks both      *)
(* again.  The code that writes generations (schema2_runtime.py,           *)
(* terminal_persistence.py) is another: where the two disagree, an import  *)
(* that has already changed the disk can neither go on nor be resumed.     *)
(*                                                                         *)
(* PackageImport appends whatever the writers build; here every one of     *)
(* its appends is held against the rules.  The rules about order numbers,  *)
(* hashes and names are in GenerationJournal; RECOVERY_REQUIRED and        *)
(* ROLLBACK_FAILED are legal phases that no Schema 2 code writes.          *)
(***************************************************************************)
EXTENDS PackageImport

CleanupFields == {"op", "targets", "receipts", "status"}

-----------------------------------------------------------------------------
(* A generation by itself: OperationalJournalGeneration.validate.          *)

\* CleanupOperation.validate, of the last operation.
ValidCleanup(g) ==
    g.op # "NONE" =>
        /\ g.targets # {} /\ g.receipts \subseteq g.targets
        /\ g.status = "COMPLETE" => g.receipts = g.targets

\* No phase holds the evidence of a later one, and each holds its own.
ValidPhase(g) ==
    /\ g.phase \in Undecided => g.op = "NONE" /\ g.audit = "none"
    /\ g.phase \in Undecided \ {"COMMITTING_COLLECTION"} =>
            g.temp = "NONE" /\ g.backup = "NONE"
    /\ g.phase = "PREPARED" => g.verified = {}
    /\ g.phase \in {"FILES_READY", "COMMITTING_COLLECTION", "COLLECTION_COMMITTED"}
            => g.verified = Images
    /\ g.phase = "COMMITTING_COLLECTION" => g.temp # "NONE"
    /\ g.phase = "COLLECTION_COMMITTED" => g.temp = "PUBLISHED" /\ g.audit # "none"

\* Compaction begins when no artifact, snapshot or cleanup is outstanding.
ValidCompaction(g) ==
    /\ g.phase = "COMPACTING" <=> g.compaction # "NONE"
    /\ g.phase = "COMPACTING" =>
            /\ ~g.snapRef /\ g.temp = "NONE" /\ g.backup = "NONE"
            /\ g.status = "COMPLETE" /\ g.audit # "none"

Valid(g) == ValidPhase(g) /\ ValidCompaction(g) /\ ValidCleanup(g)

-----------------------------------------------------------------------------
(* A generation after another: _validate_transition.                       *)

Changed(g, h) == {f \in DOMAIN g : g[f] # h[f]}

Successors(phase) ==
    CASE phase = "PREPARED" -> {"COPYING_IMAGES", "ROLLING_BACK"}
      [] phase = "COPYING_IMAGES" -> {"FILES_READY", "ROLLING_BACK"}
      [] phase = "FILES_READY" -> {"COMMITTING_COLLECTION", "ROLLING_BACK"}
      [] phase = "COMMITTING_COLLECTION" -> {"COLLECTION_COMMITTED", "ROLLING_BACK"}
      [] phase \in {"COLLECTION_COMMITTED", "ROLLING_BACK"} -> {"COMPACTING"}
      [] OTHER -> {}

\* What a generation that enters a phase may change besides the phase.
Entering(phase) ==
    CASE phase = "COMMITTING_COLLECTION" -> {"temp", "backup"}
      [] phase = "COLLECTION_COMMITTED" -> {"temp", "backup", "audit"}
      [] phase = "ROLLING_BACK" -> {"audit"}
      [] phase = "COMPACTING" -> {"temp", "backup", "compaction"}
      [] OTHER -> {}

LegalEntry(g, h) ==
    /\ h.phase \in Successors(g.phase)
    /\ Changed(g, h) \subseteq {"phase"} \cup Entering(h.phase)
    /\ h.phase = "COMPACTING" => g.status = "COMPLETE"

\* _validate_cleanup_transition: a new intent after complete ones, one more
\* receipt, or completion once every target has its receipt.
LegalCleanup(g, h) ==
    \/ g.status # "INTENT" /\ h.status = "INTENT" /\ h.receipts = {}
    \/ /\ h.op = g.op /\ h.targets = g.targets /\ g.status = "INTENT"
       /\ \/ h.status = "INTENT"
             /\ \E o \in g.targets \ g.receipts : h.receipts = g.receipts \cup {o}
          \/ h.status = "COMPLETE" /\ g.receipts = g.targets /\ h.receipts = g.receipts

\* A generation that stays in its phase records one piece of progress in it.
LegalWithin(g, h) ==
    CASE g.phase = "COPYING_IMAGES" ->
            \E i \in Images \ g.verified : h = [g EXCEPT !.verified = @ \cup {i}]
      [] g.phase = "COMMITTING_COLLECTION" ->
            g # h /\ Changed(g, h) \subseteq {"temp", "backup"}
      [] g.phase \in {"COLLECTION_COMMITTED", "ROLLING_BACK"} ->
            /\ Changed(g, h) \subseteq CleanupFields \cup {"snapRef", "backup"}
            /\ LegalCleanup(g, h)
      [] g.phase = "COMPACTING" ->
            g.compaction = "PLANNING" /\ h = [g EXCEPT !.compaction = "READY"]
      [] OTHER -> FALSE

Legal(g, h) == IF g.phase = h.phase THEN LegalWithin(g, h) ELSE LegalEntry(g, h)

-----------------------------------------------------------------------------
\* The writers keep the rules: whatever the importer and any number of
\* interrupted recovery passes append, the generation is valid and may follow
\* the one before it, so append() never refuses it and load() never stops at it.
Appends == store'.chain > store.chain
AppendsAreLegal ==
    [][Appends => /\ Valid(jr')
                  /\ IF jr.phase = "NONE" THEN jr'.phase = "PREPARED"
                                          ELSE Legal(jr, jr')]_vars
=============================================================================
