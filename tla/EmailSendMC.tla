---------------------------- MODULE EmailSendMC ----------------------------
(***************************************************************************)
(* Instance of EmailSend for TLC: one mail, from a mailbox of each provider.*)
(***************************************************************************)
EXTENDS EmailSend

CONSTANTS a, b, trash

MCMailboxOf == [m \in Mails |-> b]
=============================================================================
