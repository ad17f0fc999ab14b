CONSTANTS
    Images = {i1}
    Windows = TRUE
    HasBaseline = TRUE
    MaxFailures = 2
    MaxSaves = 1
SPECIFICATION LiveSpec
PROPERTIES
    SettlesOrWedges
