-------------------------- MODULE MCProcessedImport -------------------------
(* Every platform and starting collection in one run. *)
EXTENDS ProcessedImport

AllWorlds == [windows: BOOLEAN, baseline: BOOLEAN]
=============================================================================
