SPECIFICATION Spec
CONSTANTS
    a = a
    b = b
    trash = trash
    Mails = {a}
    Mailboxes = {b}
    MailboxOf <- MCMailboxOf
    OtherFolders = {trash}
    MaxMakers = 1
    MaxFound = 1
    MaxEvents = 1
    MaxCrashes = 1
    MaxAttempts = 2
    MaxStalled = 1
CHECK_DEADLOCK FALSE
INVARIANTS CompletedIsRecorded OneRecordPerCopy
PROPERTIES MailsDelivered RecordedNotResent SendsEnd
