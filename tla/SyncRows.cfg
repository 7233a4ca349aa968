SPECIFICATION Spec
CONSTANTS
    Providers = {"GMAIL", "OUTLOOK", "CUSTOM"}
    LastMessage = 1
    Window = 1
    FolderOrder <- MCFolderOrder
    Flags = {"read"}
    SyncJobs = {j1, j2}
    Handlers = {h1}
    MaxEvents = 1
    MaxFailures = 0
    MaxCrashes = 0
    MaxAttempts = 2
    MaxStalled = 1
CHECK_DEADLOCK FALSE
INVARIANTS FoldersBounded OneRowPerMessage DeletedStaysDeleted
SYMMETRY MCSymmetry
