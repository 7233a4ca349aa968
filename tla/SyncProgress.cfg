SPECIFICATION Spec
CONSTANTS
    Providers = {"GMAIL", "CUSTOM"}
    LastMessage = 2
    Window = 1
    FolderOrder <- MCFolderOrder
    Flags = {"read", "star"}
    SyncJobs = {j1}
    Handlers = {h1}
    MaxEvents = 1
    MaxFailures = 1
    MaxCrashes = 1
    MaxAttempts = 2
    MaxStalled = 1
CHECK_DEADLOCK FALSE
PROPERTIES FlagsConverge ListedIsStored SyncsEnd
