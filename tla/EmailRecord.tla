---------------------------- MODULE EmailRecord ----------------------------
(***************************************************************************)
(* What the backend promises about the email records, whatever jobs,       *)
(* workers, retries, scans and crashes are behind it.  A record is stored  *)
(* once and is gone for good; a judgement is never taken back; only the    *)
(* owner's requests undo a status that came with a judgement, and only his *)
(* hand takes a malicious mail out of the MALWARE folder.                  *)
(*                                                                         *)
(* EmailAnalysis implements this specification.                            *)
(***************************************************************************)
CONSTANTS Emails, Handlers

VARIABLES
    record,   \* the records
    asked     \* the owner's requests in progress on each record

vars == <<record, asked>>

Statuses == {"PENDING", "COMPLETED", "FAILED"}
Records == [st     : {"absent", "present", "deleted"},
            status : Statuses,
            judged : BOOLEAN,    \* there is a report
            guilty : BOOLEAN,    \* a malicious attachment was found
            kept   : BOOLEAN,    \* in the MALWARE folder
            moved  : BOOLEAN]    \* moved by the owner since the last verdict

Unknown == [st |-> "absent", status |-> "PENDING", judged |-> FALSE, guilty |-> FALSE,
            kept |-> FALSE, moved |-> FALSE]

Present(e) == record[e].st = "present"
Become(e, row) == record' = [record EXCEPT ![e] = row] /\ asked' = asked

Init ==
    /\ record = [e \in Emails |-> Unknown]
    /\ asked = [e \in Emails |-> {}]

-----------------------------------------------------------------------------
(* The backend's own steps.                                                *)

\* A sync, or the send processor, stores the record.
Arrive(e) ==
    /\ record[e] = Unknown
    /\ Become(e, [Unknown EXCEPT !.st = "present"])

\* A verdict: MALWARE keeps what is guilty, a safe mail stays where it is.
Judge(e) ==
    /\ Present(e)
    /\ \E guilty \in BOOLEAN, kept \in BOOLEAN :
         /\ guilty => kept
         /\ Become(e, [record[e] EXCEPT !.judged = TRUE, !.guilty = guilty, !.kept = kept,
                                        !.moved = FALSE])

\* A malware scan that ends after the verdict.
Condemn(e) ==
    /\ Present(e)
    /\ Become(e, [record[e] EXCEPT !.guilty = TRUE, !.kept = TRUE, !.moved = FALSE])

Complete(e) ==
    /\ Present(e)
    /\ Become(e, [record[e] EXCEPT !.status = "COMPLETED"])

\* An attempt failed; never after a judgement.
Fail(e) ==
    /\ Present(e) /\ ~record[e].judged
    /\ Become(e, [record[e] EXCEPT !.status = "FAILED"])

\* Records go: a duplicate, a deletion, all those of a mailbox.
Remove(S) ==
    /\ \A e \in S : Present(e)
    /\ record' = [e \in Emails |-> IF e \in S THEN [record[e] EXCEPT !.st = "deleted"]
                                   ELSE record[e]]
    /\ asked' = asked

\* A crash ends the requests.
Restart ==
    /\ record' = record
    /\ asked' = [e \in Emails |-> {}]

-----------------------------------------------------------------------------
(* The owner's requests.                                                   *)

Without(h) == [e \in Emails |-> asked[e] \ {h}]

Ask(h, S) ==
    /\ record' = record
    /\ asked' = [e \in Emails |-> IF e \in S THEN asked[e] \cup {h} ELSE asked[e]]

Answer(h) ==
    /\ record' = record
    /\ asked' = Without(h)

\* A request writes the status of records it was made for.  COMPLETED is written
\* only where there is a judgement.
Settle(h, S, status) ==
    /\ \A e \in S : Present(e) /\ h \in asked[e]
    /\ status = "COMPLETED" => \A e \in S : record[e].judged
    /\ record' = [e \in Emails |-> IF e \in S THEN [record[e] EXCEPT !.status = status]
                                   ELSE record[e]]
    /\ asked' \in {asked, Without(h)}

\* The owner moves the record to a folder other than MALWARE.
Refile(e) ==
    /\ Present(e)
    /\ Become(e, [record[e] EXCEPT !.kept = FALSE, !.moved = TRUE])

Next ==
    \/ \E e \in Emails :
         Arrive(e) \/ Judge(e) \/ Condemn(e) \/ Complete(e) \/ Fail(e) \/ Refile(e)
    \/ \E S \in SUBSET Emails : Remove(S)
    \/ \E h \in Handlers :
         \/ \E S \in SUBSET Emails : Ask(h, S)
         \/ \E S \in SUBSET Emails, status \in Statuses : Settle(h, S, status)
         \/ Answer(h)
    \/ Restart

Spec == Init /\ [][Next]_vars
=============================================================================
