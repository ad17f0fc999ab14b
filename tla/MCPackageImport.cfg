CONSTANTS
    Images = {i1, i2}
    Windows = FALSE
    HasBaseline = TRUE
    MaxFailures = 2
    MaxSaves = 1
SPECIFICATION LiveSpec
INVARIANTS
    HistoryIsTrue
    ImagesOutliveTheCoins
    BaselineKept
    EvidenceKept
    CleanupPrecedesHistory
    OneAuthority
    Serialized
PROPERTIES
    DeletesUnderAuthority
    DecisionIsFinal
    ImplementsPromise
    AppendsAreLegal
    SettlesOrWedges
    WedgedForGood
