SPECIFICATION Spec
CONSTANTS
    e1 = e1
    e2 = e2
    m1 = m1
    MessageOf <- MCOneMessage
    MailboxOf <- MCOneMailbox
    Emails = {e1, e2}
    Mailboxes = {m1}
    Handlers = {h1}
    RemoteParts = {}
    LocalParts = {e1}
    SyncFolders = {"INBOX", "SPAM"}
    Concurrency = 2
    Requests = {"send"}
    MaxRequests = 1
    MaxCrashes = 0
    MaxLate = 1
    MaxAttempts = 2
    MaxStalled = 0
CHECK_DEADLOCK FALSE
INVARIANTS NoSilentPending
