---------------------------- MODULE MCPhoneEntry ----------------------------
EXTENDS PhoneEntry, TLC
CONSTANTS w1, w2, a, b, x, y, p1, p2, c1, c2

Sym == Permutations(Windows) \cup Permutations(DesktopPhotos) \cup Permutations(PhonePhotos)
       \cup Permutations(Pairs) \cup Permutations(Coins)
=============================================================================
