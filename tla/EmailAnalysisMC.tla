-------------------------- MODULE EmailAnalysisMC --------------------------
(***************************************************************************)
(* Instances of EmailAnalysis for TLC.                                     *)
(***************************************************************************)
EXTENDS EmailAnalysis, TLC

CONSTANTS e1, e2, m1

\* All the records belong to one mailbox; a second one, if any, stays empty.
MCOneMailbox == [e \in Emails |-> m1]
\* All the records are copies of one message.
MCOneMessage == [e \in Emails |-> "message"]

\* Handlers are interchangeable: no action or property names one.
MCHandlerSymmetry == Permutations(Handlers)
=============================================================================
