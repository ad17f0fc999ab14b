------------------------ MODULE MCCollectionWriters ------------------------
EXTENDS CollectionWriters, TLC
CONSTANTS w1, w2, c1, c2, country, year, v, p1

Sym == Permutations(Windows)

Text(x, y) == (country :> x) @@ (year :> y)

\* No file, a damaged one, and one coin whose legacy record has no country.
MCFound ==
    {Missing, Corrupt,
     (c1 :> [text |-> Text(None, Blank), photo |-> None]) @@ (c2 :> None)}

MCEdits ==
    {[kind |-> k, id |-> c2, text |-> Text(v, v)] : k \in {"add", "csv", "import"}}
    \cup {[kind |-> "update", id |-> c1, text |-> Text(v, Blank)],
          [kind |-> "photos", id |-> c1, photo |-> p1],
          [kind |-> "delete", id |-> c1],
          \* two fields at once, and one of them alone
          [kind |-> "mutate", id |-> c1, expected |-> Text(None, Blank), desired |-> Text(v, v)],
          [kind |-> "mutate", id |-> c1, expected |-> (year :> Blank), desired |-> (year :> v)]}
=============================================================================
