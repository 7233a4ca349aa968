----------------------------- MODULE Detection ------------------------------
(***************************************************************************)
(* SecurityService.runPipeline on one mail, from its input to its verdict: *)
(* the five stages that are awaited together and any of which may fail,    *)
(* the scan of the attachments racing with its window of five seconds, the *)
(* rules, the graph, the correlation, the score and the decision; and the  *)
(* rescans of the mail, which find its own row as the last run left it.    *)
(*                                                                         *)
(* The mandatory AI report and what a verdict does to the record are       *)
(* EmailAnalysis'; a scan that outlives the window continues there.        *)
(***************************************************************************)
EXTENDS Rules

CONSTANTS
    Mails,      \* the mails that may be analysed
    MaxRuns,    \* bound: analyses of the mail
    MaxRetries  \* MALWARE_GRPC_RETRIES

ASSUME DetectionAssumption ==
    /\ \A m \in Mails : IsMail(m)
    /\ MaxRuns \in Nat \ {0} /\ MaxRetries \in Nat

VARIABLES
    mail,     \* the mail
    filed,    \* whether its row is flagged isSpam or isPhishing
    runs,     \* analyses begun
    pc,       \* "gather", "amplify", "judge" or "done"
    waiting,  \* the stages whose answer is awaited
    failed,   \* the stages of this run that failed, in full or in part
    history,  \* of the runs in which nothing failed: mail, its flag before, its tier
    context,  \* the signals gathered
    window,   \* whether the scan may still answer in time
    scan,     \* runMalwareScan: the attachment it is at, attempts made, reports
    results,  \* ctx.ruleResults, of the triggered rules
    signals, risk, action   \* what was scored, its assessment, the verdict's action

gathering == <<waiting, context>>
verdict == <<history, signals, risk, action>>
vars == <<mail, filed, runs, pc, gathering, failed, window, scan, results, verdict>>

Stages == {"reputation", "behavior", "urls"}

\* Mutant: the headers are lost on the way.
InputWithoutHeaders(m) == [m EXCEPT !.headers = NoHeaders]

\* What the caller hands over: the processor of synced mail reads neither headers
\* nor Reply-To from the record, only the security test passes a message's own.
Input(m) == IF m.caller = "test" THEN m ELSE [m EXCEPT !.headers = NoHeaders]

\* The security test's mails have no row.
Stored == mail.caller = "processor"

\* The context as the parser and the synchronous authentication stage leave it.
Parsed(m) ==
    [m |-> m, auth |-> AuthSignals(m), rep |-> UnknownReputation, beh |-> DefaultBehavior,
     url |-> NoUrls]

NoScan == [at |-> 1, attempt |-> 0, merged |-> NoReport, answered |-> {}]

Begin(m) ==
    /\ pc' = "gather"
    /\ waiting' = Stages
    /\ failed' = {}
    /\ context' = Parsed(Input(m))
    /\ window' = TRUE
    /\ scan' = NoScan
    /\ results' = <<>>

Init ==
    /\ mail \in Mails
    /\ filed = FALSE
    /\ runs = 1
    /\ pc = "gather"
    /\ waiting = Stages
    /\ failed = {}
    /\ context = Parsed(Input(mail))
    /\ window = TRUE
    /\ scan = NoScan
    /\ results = <<>>
    /\ history = <<>> /\ signals = <<>> /\ risk = <<>> /\ action = "none"

-----------------------------------------------------------------------------
(* The stages.                                                             *)
CheckReputation ==
    /\ "reputation" \in waiting
    /\ waiting' = waiting \ {"reputation"}
    /\ \E whoisAnswers \in BOOLEAN :
          /\ context' = [context EXCEPT !.rep = ReputationSignals(context.m, whoisAnswers)]
          /\ failed' = IF whoisAnswers THEN failed ELSE failed \cup {"reputation"}
    /\ UNCHANGED <<mail, filed, runs, pc, window, scan, results, verdict>>

AnalyzeBehavior ==
    /\ "behavior" \in waiting
    /\ waiting' = waiting \ {"behavior"}
    /\ context' = [context EXCEPT !.beh = BehaviorSignals(context.m, Stored, filed)]
    /\ UNCHANGED <<mail, filed, runs, pc, failed, window, scan, results, verdict>>

AnalyzeUrls ==
    /\ "urls" \in waiting
    /\ waiting' = waiting \ {"urls"}
    /\ context' = [context EXCEPT !.url = UrlSignals(context.m)]
    /\ UNCHANGED <<mail, filed, runs, pc, failed, window, scan, results, verdict>>

\* A stage that throws leaves the default of the context.
FailStage(s) ==
    /\ s \in waiting
    /\ waiting' = waiting \ {s}
    /\ failed' = failed \cup {s}
    /\ UNCHANGED <<mail, filed, runs, pc, context, window, scan, results, verdict>>

-----------------------------------------------------------------------------
(* The scan, one attachment after another, beside the stages.  What it does *)
(* after the window has closed does not reach this run.                    *)
Scanning == pc = "gather" /\ window /\ scan.at \in DOMAIN mail.files

ScanAnswers ==
    /\ Scanning
    /\ LET report == mail.files[scan.at].report
       IN scan' = [at       |-> scan.at + 1,
                   attempt  |-> 0,
                   merged   |-> IF scan.answered = {} THEN report
                                ELSE MergeMalwareSignals(scan.merged, report),
                   answered |-> scan.answered \cup {scan.at}]
    /\ UNCHANGED <<mail, filed, runs, pc, gathering, failed, window, results, verdict>>

ScanUnavailable ==
    /\ Scanning
    /\ scan.attempt < MaxRetries
    /\ scan' = [scan EXCEPT !.attempt = @ + 1]
    /\ UNCHANGED <<mail, filed, runs, pc, gathering, failed, window, results, verdict>>

\* An unreadable or oversized file, another error, or the last retry: the file is
\* passed over and the others count.
ScanFails ==
    /\ Scanning
    /\ scan' = [scan EXCEPT !.at = @ + 1, !.attempt = 0]
    /\ failed' = failed \cup {"malware"}
    /\ UNCHANGED <<mail, filed, runs, pc, gathering, window, results, verdict>>

\* Mutant: the window waits for a first answer.
CloseWindowOnceAnswered ==
    /\ Scanning /\ scan.answered # {}
    /\ window' = FALSE
    /\ failed' = failed \cup {"malware"}
    /\ UNCHANGED <<mail, filed, runs, pc, gathering, scan, results, verdict>>

CloseWindow ==
    /\ Scanning
    /\ window' = FALSE
    /\ failed' = failed \cup {"malware"}
    /\ UNCHANGED <<mail, filed, runs, pc, gathering, scan, results, verdict>>

-----------------------------------------------------------------------------
(* The rest of the pipeline.                                               *)
Malware == IF window THEN scan.merged ELSE NoReport

RunRules ==
    /\ pc = "gather" /\ waiting = {} /\ ~Scanning
    /\ pc' = "amplify"
    /\ results' = RunRuleEngine(context)
    /\ UNCHANGED <<mail, filed, runs, gathering, failed, window, scan, verdict>>

Amplify ==
    /\ pc = "amplify"
    /\ pc' = "judge"
    /\ results' = ApplyGraphAmplification(results)
    /\ UNCHANGED <<mail, filed, runs, gathering, failed, window, scan, verdict>>

Judge ==
    /\ pc = "judge"
    /\ pc' = "done"
    /\ signals' = HandedOver(context, results, Malware)
    /\ risk' = ComputeRisk(signals')
    /\ action' = ComputeAction(risk')
    /\ filed' = (Stored /\ ~risk'.isMalware /\ (risk'.isSpam \/ risk'.isPhishing))
    /\ history' = IF failed = {} THEN Append(history, [mail |-> mail, filed |-> filed, tier |-> risk'.tier])
                  ELSE history
    /\ UNCHANGED <<mail, runs, gathering, failed, window, scan, results>>

\* One text, of which feeds, scanner and mailbox may know different things.
SameText(m, n) ==
    /\ \A field \in {"caller", "cues", "bec", "sender", "bare", "headers"} : m[field] = n[field]
    /\ Len(m.urls) = Len(n.urls) /\ Len(m.files) = Len(n.files)
    /\ \A i \in DOMAIN m.urls : m.urls[i].cues = n.urls[i].cues
    /\ \A i \in DOMAIN m.files : m.files[i].kind = n.files[i].kind

\* The owner has the stored mail scanned again, when more may be known of it.
Rescan ==
    /\ pc = "done" /\ Stored
    /\ runs < MaxRuns
    /\ runs' = runs + 1
    /\ \E m \in Mails : SameText(m, mail) /\ mail' = m /\ Begin(m)
    /\ UNCHANGED <<filed, verdict>>

Step ==
    \/ CheckReputation \/ AnalyzeBehavior \/ AnalyzeUrls
    \/ \E s \in Stages : FailStage(s)
    \/ CloseWindow
    \/ RunRules \/ Amplify \/ Judge

Next == Step \/ ScanAnswers \/ ScanUnavailable \/ ScanFails \/ Rescan

Spec == Init /\ [][Next]_vars

\* The program's own steps are fair.  The scanner's are not: it may stay silent, and
\* the window closes all the same.  The lookups have timeouts of their own.
FairSpec == Spec /\ WF_vars(Step)
-----------------------------------------------------------------------------
Finished == pc = "done"
Fired == DOMAIN results

TypeOK ==
    /\ mail \in Mails /\ filed \in BOOLEAN /\ runs \in 1..MaxRuns
    /\ pc \in {"gather", "amplify", "judge", "done"}
    /\ waiting \subseteq Stages /\ failed \subseteq Stages \cup {"malware"}
    /\ window \in BOOLEAN
    /\ scan.at \in 1..Len(mail.files) + 1 /\ scan.attempt \in 0..MaxRetries
    /\ results \in [Fired -> [original : 1..100, amplified : 0..100]]
    /\ Finished => signals \in SignalSets /\ risk \in Risks /\ action \in Actions

\* Whatever fails on the way, scoring gets the signals its theorems speak of (a bonus
\* comes with a pattern, a spoofed domain with the score of its rule or of a failed
\* authentication), so that no mail judged a threat is let through: the confidence
\* that DecisionService.computeAction asks for is always there.
ThreatsAnswered ==
    Finished => Coherent(signals) /\ (risk.tier # "SAFE" => action # "allow")

\* A file that the scanner scores as malware inside the window decides, whatever the
\* files beside it are reported as and whichever of their scans fail (the merge in
\* SecurityService.runMalwareScan, ScoringService's override).
MaliciousFileDecides ==
    Finished /\ window /\ (\E i \in scan.answered : mail.files[i].report.score >= 50) =>
        risk.tier = "MALICIOUS" /\ action = "delete"

\* A mail without cue, link, file or record of any kind passes when every lookup
\* answered, although no authentication result comes with it.
Innocuous(m) ==
    /\ m.cues = {} /\ m.bec = 0 /\ m.urls = <<>> /\ m.files = <<>> /\ m.past.flagged = 0
    /\ m.whois > 90 /\ m.domain <= 0 /\ m.ip = UnknownIp
    /\ ~HasAuthFailure(AuthSignals(m)) /\ m.headers.replyTo # "other"
InnocuousPasses == Finished /\ failed = {} /\ Innocuous(mail) => action = "allow"

\* Of two analyses of a mail in which every stage answered and of which nothing else
\* was known, the one that found the mail's own row flagged never yields less: the
\* row, which is in the history that the behaviour stage reads, only adds to it.  (An
\* analysis that finds the flag taken off since may well yield less.)
RescanKeepsVerdict ==
    \A i, j \in DOMAIN history :
        history[i].mail = history[j].mail /\ (history[j].filed => history[i].filed) =>
            TierRank(history[i].tier) >= TierRank(history[j].tier)

\* Every analysis ends in a verdict, the scanner answering or not.
AnalysisEnds == pc = "gather" ~> Finished

\* s and t are signals of two finished analyses, s at least as strong.
Strengthened(t, s) ==
    {s, t} \subseteq SignalSets /\ Coherent(s) /\ Coherent(t) /\ AtLeast(s, t)

\* Between two analyses of one mail, lookups, scan and history may find more or less.
\* When the second finds every signal at least as strong, tier and action are not
\* milder: across caps, rounding, the amplifier's threshold, the corroboration rule,
\* the gates and the confidence that is taken off a high score without hard signals.
EvidenceNeverSoftens ==
    [][action # "none" /\ Strengthened(signals, signals') =>
         /\ TierRank(risk'.tier) >= TierRank(risk.tier)
         /\ Severity(action') >= Severity(action)]_vars
=============================================================================
