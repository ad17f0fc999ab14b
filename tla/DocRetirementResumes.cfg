SPECIFICATION LiveSpec
CONSTANTS
    Images = {i1, i2}
    Worlds <- AllWorlds
    MaxTargets = 10
    MaxFailures = 1
    MaxSaves = 1

PROPERTIES RetirementResumes
