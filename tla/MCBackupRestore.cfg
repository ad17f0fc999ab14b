CONSTANTS
    w1 = w1
    w2 = w2
    collection = collection
    session = session
    Windows = {w1, w2}
    Collection = collection
    Session = session
    Order <- MCOrder
    Package = package
    Torn = torn
    Missing = missing
    None = none
    MaxRestores = 1
    MaxSaves = 2
    MaxFaults = 1
CHECK_DEADLOCK FALSE
SYMMETRY Sym
SPECIFICATION Spec
PROPERTIES
    VersionsKept
    AllOrNothing
