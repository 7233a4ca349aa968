---------------------------- MODULE MailboxSyncMC ----------------------------
(* Instances of MailboxSync for TLC. *)
EXTENDS MailboxSync, TLC

MCFolderOrder == <<"INBOX", "SPAM">>

\* The jobs are interchangeable.
MCSymmetry == Permutations(SyncJobs)
=============================================================================
