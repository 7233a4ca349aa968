SPECIFICATION Spec
CONSTANTS
    e1 = e1
    e2 = e2
    m1 = m1
    MessageOf <- MCOneMessage
    MailboxOf <- MCOneMailbox
    Emails = {e1, e2}
    Mailboxes = {m1}
    Handlers = {h1}
    RemoteParts = {}
    LocalParts = {}
    SyncFolders = {"INBOX", "SPAM"}
    Concurrency = 2
    Requests = {}
    MaxRequests = 0
    MaxCrashes = 0
    MaxLate = 0
    MaxAttempts = 2
    MaxStalled = 1
CHECK_DEADLOCK FALSE
PROPERTIES DuplicateLeavesACopy
