-------------------------- MODULE MCBackupRestore ---------------------------
EXTENDS BackupRestore, TLC
CONSTANTS w1, w2, collection, session

MCOrder == <<session, collection>>
Sym == Permutations(Windows)
=============================================================================
