CONSTANTS
    d1 = d1
    d2 = d2
    Free = free
    Dialogs = {d1, d2}
    MaxFailures = 2
CHECK_DEADLOCK FALSE
SPECIFICATION FairSpec
INVARIANTS
    FilesOutliveTheirUse
    WorkerLeavesNothing
    CommitIsUndisturbed
    CanBeCancelled
    PreviewIsBacked
PROPERTIES
    EveryDialogIsAnswered
    ApplicationLearnsOfImport
