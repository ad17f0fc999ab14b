-------------------------- MODULE MCPackageImport --------------------------
EXTENDS JournalRules, TLC
Sym == Permutations(Images)
=============================================================================
