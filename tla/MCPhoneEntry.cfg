CONSTANTS
    w1 = w1
    w2 = w2
    a = a
    b = b
    x = x
    y = y
    p1 = p1
    p2 = p2
    c1 = c1
    c2 = c2
    Phone = phone
    None = none
    Windows = {w1, w2}
    DesktopPhotos = {a, b}
    PhonePhotos = {x, y}
    Pairs = {p1, p2}
    Coins = {c1, c2}
    MaxFaults = 1
SYMMETRY Sym
CHECK_DEADLOCK FALSE
SPECIFICATION Spec
INVARIANTS
    OneCoinPerPhoto
    IntentStands
    CoinsHavePhotos
    AuditAgrees
PROPERTIES
    SavedOnEvidence
