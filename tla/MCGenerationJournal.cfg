CONSTANTS
    Clients = {a, b}
    Entries = {e, f, h}
    Final = {h}
    Partial = Partial
    None = None
    MaxGeneration = 3
    MaxFailures = 3
SPECIFICATION LiveSpec
INVARIANTS
    StaysReadable
PROPERTIES
    ImplementsLog
    CandidateSettles
