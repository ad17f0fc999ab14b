SPECIFICATION LiveSpec
CONSTANTS
    Images = {i1, i2}
    Worlds <- AllWorlds
    MaxTargets = 10
    MaxFailures = 3
    MaxSaves = 2
INVARIANTS EvidenceOutlivesUse
PROPERTIES ImplementsPromise SettlesOrWedges WedgedForGood
