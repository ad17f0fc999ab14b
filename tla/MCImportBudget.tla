--------------------------- MODULE MCImportBudget ---------------------------
EXTENDS ImportBudget
\* The least import, the largest that rolls back whole with two photos a coin,
\* and the most photos an archive has room for; on each platform, with and
\* without a collection to keep.
Platform(coins, images) ==
    {[coins |-> coins, images |-> images, windows |-> w, baseline |-> b] :
        w \in BOOLEAN, b \in BOOLEAN}
Sizes == Platform(1, 2) \cup Platform(98, 196) \cup Platform(85, 255)
=============================================================================
