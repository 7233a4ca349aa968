------------------------------ MODULE Signals -------------------------------
(***************************************************************************)
(* What the stages of the pipeline read off one mail.  Text is reduced to  *)
(* cues, the patterns and word lists that match it; a mail is a record:    *)
(*   caller    "processor" for a stored mail, "test" for the security test*)
(*   cues      those of sender, subject, body, HTML                        *)
(*   bec       how many BEC patterns match                                 *)
(*   sender    "none" (no domain), "ordinary", "business", "brand" or      *)
(*             "whitelisted"                                               *)
(*   bare      whether the stored address ends with the domain, or as in   *)
(*             "Name <a@b>" with what follows it                           *)
(*   headers   what the message's headers carry (NoHeaders for none)       *)
(*   past      the sender's earlier mails in the mailbox: count, how many  *)
(*             are flagged, their cues                                     *)
(*   ip, whois, domain    what the feeds know of sender and domain (the     *)
(*             domain's is VirusTotal's balance of votes, which may be     *)
(*             negative and has no bound)                                  *)
(*   urls      sequence of links: cues and the feeds' answer               *)
(*   files     sequence of attachments: kind and the scanner's report      *)
(***************************************************************************)
EXTENDS RiskScore, FiniteSetsExt, Functions, Sequences

\* The cues of a text, by the word lists and patterns they stand for.
LanguageCues == {"urgent", "urgentArabic", "payment", "financialWords", "hijack", "capitals",
                 "exclamations", "actionWord", "replySubject"}
BrandCues == {"brandName", "brandMentions", "encodedBrand", "homoglyph", "lookalike"}
SenderCues == {"roleName", "disposable"}
MarkupCues == {"password", "form", "externalForm", "trustedForm", "ipForm", "hiddenHtml",
               "dataUri", "base64Url"}
TopicCues == {"bec", "wire", "newWire", "phish", "newsletter", "financial", "order", "hr", "support"}
Cues == LanguageCues \cup BrandCues \cup SenderCues \cup MarkupCues \cup TopicCues
LinkCues == {"malformed", "ip", "short", "homoglyph", "tld", "base64", "redirect", "brandSubdomain"}
Senders == {"none", "ordinary", "business", "brand", "whitelisted"}
FileKinds == {"executable", "archive", "office", "other"}

Absent == "absent"
Unknown == -1

HeaderSets ==
    [spf : AuthStatuses \cup {Absent}, receivedSpf : AuthStatuses \cup {Absent},
     dkim : AuthStatuses \cup {Absent}, signature : BOOLEAN, dmarc : AuthStatuses \cup {Absent},
     received : BOOLEAN, replyTo : {"none", "other"}, inReplyTo : BOOLEAN]
IpSets == [score : 0..100, blacklisted : BOOLEAN, tor : BOOLEAN, proxy : BOOLEAN]
Feeds == [verdict : {"unknown", "clean", "suspicious", "malicious"}, score : 0..100]
Reports == [malicious : BOOLEAN, score : 0..100]

IsMail(m) ==
    /\ m \in [caller : {"processor", "test"}, cues : SUBSET Cues, bec : 0..10, sender : Senders,
              bare : BOOLEAN, headers : HeaderSets,
              past : [count : Nat, flagged : Nat, cues : SUBSET Cues],
              ip : IpSets, whois : Nat \cup {Unknown}, domain : Int,
              urls : Seq([cues : SUBSET LinkCues, feed : Feeds]),
              files : Seq([kind : FileKinds, report : Reports])]
    /\ m.past.flagged <= m.past.count


NoHeaders == [spf |-> Absent, receivedSpf |-> Absent, dkim |-> Absent, signature |-> FALSE,
              dmarc |-> Absent, received |-> FALSE, replyTo |-> "none", inReplyTo |-> FALSE]

-----------------------------------------------------------------------------
(* Authentication.                                                         *)
ParseSpf(h) ==
    CASE h.spf # Absent -> h.spf
      [] h.spf = Absent /\ h.receivedSpf # Absent -> h.receivedSpf
      [] OTHER -> "none"
ParseDkim(h) ==
    CASE h.dkim # Absent -> h.dkim
      [] h.dkim = Absent /\ h.signature -> "unknown"
      [] OTHER -> "none"
ParseDmarc(h) == IF h.dmarc # Absent THEN h.dmarc ELSE "none"

AuthSignals(m) ==
    [spf |-> ParseSpf(m.headers), dkim |-> ParseDkim(m.headers), dmarc |-> ParseDmarc(m.headers)]

HasAuthFailure(auth) == {auth.spf, auth.dkim, auth.dmarc} \cap {"fail", "permerror"} # {}

-----------------------------------------------------------------------------
(* Reputation.  An age that is not known is Unknown, but the feed service   *)
(* answers 0 days for a whois that failed or names no date, and a stage    *)
(* that fails altogether has UNKNOWN_REPUTATION, 0 days old as well.       *)
UnknownIp == [score |-> 0, blacklisted |-> FALSE, tor |-> FALSE, proxy |-> FALSE]

\* Mutant: the age is lost on its way.
DomainAgeLost(m, whoisAnswers) == 0

DomainAge(m, whoisAnswers) == IF whoisAnswers /\ m.whois # Unknown THEN m.whois ELSE 0

ReputationSignals(m, whoisAnswers) ==
    [ip     |-> IF m.headers.received THEN m.ip ELSE UnknownIp,
     domain |-> IF m.sender # "none" THEN m.domain ELSE 0,
     age    |-> IF m.sender # "none" THEN DomainAge(m, whoisAnswers) ELSE Unknown,
     newly  |-> m.sender # "none" /\ whoisAnswers /\ m.whois \in 0..29]

UnknownReputation == [ip |-> UnknownIp, domain |-> 0, age |-> 0, newly |-> FALSE]

-----------------------------------------------------------------------------
(* Behaviour.  The history is looked up by the end of the stored address,  *)
(* so it holds the sender's mails, the analysed one among them, only when  *)
(* these addresses are bare.                                               *)
HasAttachment(m) == m.files # <<>>

InferTopic(cues, count) ==
    CASE {"bec", "wire"} \subseteq cues -> "bec"
      [] ~({"bec", "wire"} \subseteq cues) /\ "hr" \in cues -> "hr_internal"
      [] OTHER ->
            CASE "support" \in cues -> "support"
              [] "support" \notin cues /\ "financial" \in cues -> "invoice"
              [] {"support", "financial"} \cap cues = {} /\ "newsletter" \in cues -> "newsletter"
              [] OTHER -> IF "order" \in cues THEN "order"
                          ELSE IF "phish" \in cues THEN "security"
                          ELSE IF count >= 3 THEN "regular" ELSE "unknown"

\* What a mail says that the topic of the earlier ones does not lead to expect.
AnomalyMatrix ==
    {<<"newsletter", "bec", 45>>, <<"order", "phish", 35>>, <<"support", "phish", 30>>,
     <<"regular", "bec", 30>>, <<"hr_internal", "bec", 40>>, <<"invoice", "newWire", 35>>}

AnomalyScore(m, topic, count, flagged) == Lesser(100,
    SumFunction([a \in {b \in AnomalyMatrix : b[1] = topic /\ b[2] \in m.cues} |-> a[3]])
        + Lesser(20, 7 * flagged) + Points(HasAttachment(m) /\ count >= 5, 15))

NewSenderScore(m) ==
    Points("bec" \in m.cues, 30) + Points("phish" \in m.cues, 10) + Points(HasAttachment(m), 10)

NewSenderSignals(m) ==
    [count |-> 0, score |-> NewSenderScore(m), anomaly |-> NewSenderScore(m) > 0]

\* Mutant: the history leaves out what is flagged.
BehaviorSignalsUnflagged(m, stored, filed) ==
    LET count == Lesser(30, m.past.count - m.past.flagged + Points(stored /\ ~filed, 1))
        cues == m.past.cues \cup (IF filed THEN {} ELSE m.cues)
        score == AnomalyScore(m, InferTopic(cues, count), count, 0)
    IN IF ~m.bare \/ m.sender = "none" \/ count = 0 THEN NewSenderSignals(m)
       ELSE [count |-> count, score |-> score, anomaly |-> score >= 20]

\* stored: the mail has a row of its own; filed: an earlier analysis flagged it.
BehaviorSignals(m, stored, filed) ==
    LET count == Lesser(30, m.past.count + Points(stored, 1))
        flagged == m.past.flagged + Points(filed, 1)
        topic == InferTopic(m.past.cues \cup (IF stored THEN m.cues ELSE {}), count)
        score == AnomalyScore(m, topic, count, flagged)
    IN IF ~m.bare \/ m.sender = "none" \/ count = 0 THEN NewSenderSignals(m)
       ELSE [count |-> count, score |-> score, anomaly |-> score >= 20]

DefaultBehavior == [count |-> 0, score |-> 0, anomaly |-> FALSE]

-----------------------------------------------------------------------------
(* Links.  A link's feed is the answer of the intelligence cache: verdict   *)
(* and score.  A malformed escape in one of them makes the whole analysis  *)
(* throw, and its result is that of a mail without links.                  *)
UrlPoints == [ip |-> 30, short |-> 20, homoglyph |-> 40, tld |-> 25, base64 |-> 20,
              redirect |-> 15, brandSubdomain |-> 35]

HeuristicScore(u) ==
    Lesser(80, SumFunction([c \in u.cues \cap DOMAIN UrlPoints |-> UrlPoints[c]]))
UrlScore(u) == Greater(u.feed.score, HeuristicScore(u))
UrlVerdict(u) ==
    CASE u.feed.verdict = "malicious" \/ UrlScore(u) >= 70 -> "malicious"
      [] u.feed.verdict # "malicious" /\ UrlScore(u) \in 1..69 -> "suspicious"
      [] OTHER -> IF u.feed.verdict = "suspicious" THEN "suspicious" ELSE "clean"

\* The sums of 0.7 max + 0.3 avg, below the cap that scoring puts on them, whose
\* double falls short of the half it stands for.
ShortHalves ==
    {<<6, 1>>, <<7, 2>>, <<12, 7>>, <<14, 9>>, <<17, 2>>, <<17, 12>>, <<19, 4>>, <<23, 8>>,
     <<23, 18>>, <<24, 9>>, <<24, 19>>, <<28, 3>>, <<28, 13>>, <<28, 23>>, <<29, 4>>, <<29, 14>>,
     <<29, 24>>, <<33, 8>>, <<33, 18>>, <<34, 9>>, <<34, 19>>, <<38, 3>>, <<39, 4>>}

NoUrls == [total |-> 0, malicious |-> FALSE, ip |-> FALSE, short |-> FALSE]

AggregateUrls(urls) ==
    LET n == Len(urls)
        score == [i \in 1..n |-> UrlScore(urls[i])]
        highest == Max({score[i] : i \in 1..n})
        average == (2 * SumFunction(score) + n) \div (2 * n)
    IN [total     |-> Lesser(100, (7 * highest + 3 * average + 5) \div 10
                                     - Points(<<highest, average>> \in ShortHalves, 1)),
        malicious |-> \E i \in 1..n : UrlVerdict(urls[i]) = "malicious",
        ip        |-> \E i \in 1..n : "ip" \in urls[i].cues,
        short     |-> \E i \in 1..n : "short" \in urls[i].cues]

UrlSignals(m) ==
    LET urls == SubSeq(m.urls, 1, Lesser(30, Len(m.urls)))
    IN IF urls = <<>> \/ \E i \in DOMAIN urls : "malformed" \in urls[i].cues
       THEN NoUrls ELSE AggregateUrls(urls)

-----------------------------------------------------------------------------
(* Attachments: of two reports the one with the higher score stays, of two  *)
(* with the same score the first.                                          *)
NoReport == [malicious |-> FALSE, score |-> 0]
\* Mutant: the last report stays.
MergeMalwareSignalsLast(a, b) == b

MergeMalwareSignals(a, b) == IF a.score >= b.score THEN a ELSE b
=============================================================================
