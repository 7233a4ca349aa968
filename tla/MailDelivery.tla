---------------------------- MODULE MailDelivery ----------------------------
(***************************************************************************)
(* What sending promises about a mail, whatever queue, retries, crashes and*)
(* syncs are behind it.  A mail the server has accepted is handed to the   *)
(* provider at most MaxCopies times and never once its job is over.  It    *)
(* counts as sent only with the last copy on the shelf of its mailbox,     *)
(* unless that mailbox is gone or the record was deleted; a mail that is   *)
(* given up may have been delivered all the same.  The shelf holds copies  *)
(* of connected mailboxes, and only copies that were handed over.          *)
(*                                                                         *)
(* EmailSend implements this specification.                                *)
(***************************************************************************)
EXTENDS Naturals

CONSTANTS Mails, Mailboxes, MailboxOf, MaxCopies

VARIABLES
    state,    \* what became of each mail
    copies,   \* how often the provider took it
    boxes,    \* the connected mailboxes
    shelf,    \* the copies <<mail, number>> with a record in the mailbox
    discarded \* the copies of which a record was deleted

vars == <<state, copies, boxes, shelf, discarded>>

States == {"new", "accepted", "sent", "lost"}

Become(m, st) == state' = [state EXCEPT ![m] = st]

Init ==
    /\ state = [m \in Mails |-> "new"]
    /\ copies = [m \in Mails |-> 0]
    /\ boxes = Mailboxes
    /\ shelf = {} /\ discarded = {}

\* The request is answered and its job queued.
Accept(m) ==
    /\ state[m] = "new" /\ MailboxOf[m] \in boxes
    /\ Become(m, "accepted")
    /\ UNCHANGED <<copies, boxes, shelf, discarded>>

\* The provider takes the mail, its mailbox connected or not; with the answer
\* lost, this may have been the last attempt.
HandOver(m) ==
    /\ state[m] = "accepted" /\ copies[m] < MaxCopies
    /\ copies' = [copies EXCEPT ![m] = @ + 1]
    /\ \/ UNCHANGED state
       \/ Become(m, "lost")
    /\ UNCHANGED <<boxes, shelf, discarded>>

\* The processor or a sync stores a record of a copy.
Shelve(m, n) ==
    /\ n \in 1..copies[m] /\ MailboxOf[m] \in boxes
    /\ shelf' = shelf \cup {<<m, n>>}
    /\ UNCHANGED <<state, copies, boxes, discarded>>

\* The owner or an analysis deletes a record of a copy, which may not be the only one.
Discard(m, n) ==
    /\ <<m, n>> \in shelf
    /\ shelf' \in {shelf, shelf \ {<<m, n>>}}
    /\ discarded' = discarded \cup {<<m, n>>}
    /\ UNCHANGED <<state, copies, boxes>>

Settle(m) ==
    /\ state[m] = "accepted" /\ copies[m] > 0
    /\ MailboxOf[m] \in boxes => <<m, copies[m]>> \in shelf \cup discarded
    /\ Become(m, "sent")
    /\ UNCHANGED <<copies, boxes, shelf, discarded>>

GiveUp(m) ==
    /\ state[m] = "accepted"
    /\ Become(m, "lost")
    /\ UNCHANGED <<copies, boxes, shelf, discarded>>

\* The owner disconnects a mailbox.
Disconnect(box) ==
    /\ box \in boxes
    /\ boxes' = boxes \ {box}
    /\ shelf' = {copy \in shelf : MailboxOf[copy[1]] # box}
    /\ UNCHANGED <<state, copies, discarded>>

Next ==
    \/ \E m \in Mails :
         \/ Accept(m) \/ HandOver(m) \/ Settle(m) \/ GiveUp(m)
         \/ \E n \in 1..copies[m] : Shelve(m, n) \/ Discard(m, n)
    \/ \E box \in Mailboxes : Disconnect(box)

Spec == Init /\ [][Next]_vars
=============================================================================
