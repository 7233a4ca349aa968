SPECIFICATION Spec
CONSTANTS
    e1 = e1
    e2 = e2
    m1 = m1
    MessageOf <- MCOneMessage
    MailboxOf <- MCOneMailbox
    Emails = {e1}
    Mailboxes = {m1}
    Handlers = {h1}
    RemoteParts = {e1}
    LocalParts = {}
    SyncFolders = {"INBOX", "SPAM"}
    Concurrency = 1
    Requests = {"scan", "delete", "report", "reclassify", "remove", "send"}
    MaxRequests = 2
    MaxCrashes = 1
    MaxLate = 1
    MaxAttempts = 2
    MaxStalled = 1
CHECK_DEADLOCK FALSE
INVARIANTS MalwareFolderUnflagged MaliciousOnlyMovedByOwner AttachmentCopiesBounded
PROPERTIES RecordLife
