SPECIFICATION Spec
CONSTANTS
    e1 = e1
    e2 = e2
    m1 = m1
    MessageOf <- MCOneMessage
    MailboxOf <- MCOneMailbox
    Emails = {e1}
    Mailboxes = {m1, m2}
    Handlers = {h1}
    RemoteParts = {}
    LocalParts = {}
    SyncFolders = {"INBOX"}
    Concurrency = 1
    Requests = {"cancel", "clear", "pause"}
    MaxRequests = 2
    MaxCrashes = 1
    MaxLate = 1
    MaxAttempts = 2
    MaxStalled = 1
CHECK_DEADLOCK FALSE
PROPERTIES PendingSettles JobsEnd
