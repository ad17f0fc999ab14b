--------------------------- MODULE CollectionEdits ---------------------------
(***************************************************************************)
(* The coin collection as data: what collection.json may hold, and what    *)
(* each edit the application offers makes of it (coin_collection.py).      *)
(*                                                                         *)
(* A coin is its identity text (the fields the conditional mutation may    *)
(* name: country, denomination, year) and the managed photo it refers to.  *)
(* The derived fields an identity correction rewrites follow from the      *)
(* text and are left out, as is the order of the coins.                    *)
(***************************************************************************)
EXTENDS Naturals

CONSTANTS
    Ids,        \* coin IDs
    Fields,     \* identity fields of a coin
    Values,     \* texts of a field
    Photos,     \* names of managed photo files, one per copy ever made
    Blank,      \* the empty text
    None,       \* a field absent from the JSON record; no coin; no photo
    Missing,    \* there is no collection.json
    Corrupt,    \* collection.json cannot be decoded
    Edits       \* the edits that are asked for

ASSUME EditsAssumption ==
    /\ Blank \in Values /\ None \notin Values
    /\ None \notin Photos /\ Missing # Corrupt

Texts == [Fields -> Values \cup {None}]
Coins == [text : Texts, photo : Photos \cup {None}]
Collections == [Ids -> Coins \cup {None}]

ASSUME FileStatesAssumption == {Missing, Corrupt} \cap Collections = {}
ASSUME NoneIsNoCoin == None \notin Coins

NoCoins == [i \in Ids |-> None]

\* CoinItem.from_dict: an absent field is read as the empty string, and every
\* later to_dict writes it.
Read(t) == [f \in Fields |-> IF t[f] = None THEN Blank ELSE t[f]]
Normal(c) ==
    [i \in Ids |-> IF c[i] = None THEN None
                   ELSE [text |-> Read(c[i].text), photo |-> c[i].photo]]

\* The coins that can be read in a file.
CoinsOf(f) == IF f \in {Missing, Corrupt} THEN NoCoins ELSE f

\* The managed photos the coins refer to.
PhotosOf(c) == {p \in Photos : \E i \in Ids : c[i] # None /\ c[i].photo = p}

Written == [Fields -> Values]
Changes == UNION {[F -> Values \cup {None}] : F \in SUBSET Fields \ {{}}}

\* What a collector, or the workflow executor, may ask for.
AllEdits ==
    [kind : {"add", "csv", "update", "import"}, id : Ids, text : Written]
    \cup [kind : {"photos"}, id : Ids, photo : Photos]
    \cup [kind : {"delete"}, id : Ids]
    \cup {e \in [kind : {"mutate"}, id : Ids, expected : Changes, desired : Changes] :
            /\ DOMAIN e.expected = DOMAIN e.desired
            /\ \A f \in DOMAIN e.desired : e.expected[f] # e.desired[f]}

ASSUME EditsAreEdits == Edits \subseteq AllEdits
ASSUME NoneIsNoEdit == None \notin Edits

\* The edits made to the window's memory and then saved as a whole.
Ordinary == {"add", "csv", "update", "photos", "delete"}

\* An edit of a coin needs it; a new coin has a new ID.
Applicable(e, c) ==
    IF e.kind \in {"add", "csv", "import"} THEN c[e.id] = None ELSE c[e.id] # None

\* The coins c after an applicable edit e.
Revised(e, t) == [f \in Fields |-> IF f \in DOMAIN e.desired THEN e.desired[f] ELSE t[f]]
After(e, c) ==
    LET old == c[e.id]
        new == CASE e.kind \in {"add", "csv", "import"} -> [text |-> e.text, photo |-> None]
                 [] e.kind = "update" -> [text |-> e.text, photo |-> old.photo]
                 [] e.kind = "photos" -> [text |-> old.text, photo |-> e.photo]
                 [] e.kind = "delete" -> None
                 [] e.kind = "mutate" -> [text |-> Revised(e, old.text), photo |-> old.photo]
    IN  [c EXCEPT ![e.id] = new]

\* The bytes published for e over the coins c: mutate edits the raw JSON, the
\* others write out decoded items.
Payload(e, c) == IF e.kind = "mutate" THEN After(e, c) ELSE After(e, Normal(c))

\* The three-way comparison of mutate_fields_conditionally.
Applied(e, c) == {f \in DOMAIN e.desired : c[e.id].text[f] = e.desired[f]}
Expected(e, c) == {f \in DOMAIN e.desired : c[e.id].text[f] = e.expected[f]}
Conflicted(e, c) == DOMAIN e.desired \ (Applied(e, c) \cup Expected(e, c))
=============================================================================
