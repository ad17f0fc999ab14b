CONSTANTS
    w1 = w1
    w2 = w2
    c1 = c1
    c2 = c2
    country = country
    year = year
    v = v
    p1 = p1
    Blank = blank
    None = none
    Missing = missing
    Corrupt = corrupt
    Ids = {c1, c2}
    Fields = {country, year}
    Values = {blank, v}
    Photos = {p1}
    Edits <- MCEdits
    Found <- MCFound
    Windows = {w1, w2}
    MaxEdits = 3
    MaxFaults = 2
SYMMETRY Sym
SPECIFICATION Spec
INVARIANTS
    MemoryIsBaseline
PROPERTIES
    PhotosKept
    DamagedFileIsKept
    ImplementsPromise
