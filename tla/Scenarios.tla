----------------------------- MODULE Scenarios ------------------------------
(***************************************************************************)
(* The mails that SecurityTestController sends through the pipeline, as    *)
(* the parser, the rules and the history see them.                         *)
(***************************************************************************)
EXTENDS Detection

Headers(spf, dkim, dmarc) == [NoHeaders EXCEPT !.spf = spf, !.dkim = dkim, !.dmarc = dmarc]
NoPast == [count |-> 0, flagged |-> 0, cues |-> {}]
Unreported == [verdict |-> "unknown", score |-> 0]

Mail(cues, headers) ==
    [caller |-> "test", cues |-> cues, bec |-> 0, sender |-> "ordinary", bare |-> FALSE, headers |-> headers,
     past |-> NoPast, ip |-> UnknownIp, whois |-> Unknown, domain |-> 0, urls |-> <<>>,
     files |-> <<>>]

\* A fake PayPal, a password form that posts elsewhere, a link to a .tk domain.
Phishing ==
    [Mail({"brandName", "urgent", "phish", "actionWord", "password", "form", "externalForm"},
          Headers("fail", "fail", "fail"))
        EXCEPT !.urls = <<[cues |-> {"tld"}, feed |-> Unreported]>>]

\* "CEO John Smith" of gmail.com asks for a wire transfer and replies elsewhere.
Bec ==
    [Mail({"roleName", "urgent", "payment", "bec", "wire", "hijack", "phish", "actionWord",
           "financialWords"}, [NoHeaders EXCEPT !.replyTo = "other"])
        EXCEPT !.bec = 1, !.sender = "brand", !.whois = 10000]

\* An invoice that is a program.
Invoice ==
    [Mail({"bec", "wire", "payment", "financial", "financialWords"}, NoHeaders)
        EXCEPT !.bare = TRUE, !.files = <<[kind |-> "executable", report |-> NoReport]>>]

\* A newsletter that shouts.
Spam ==
    [Mail({"urgent", "newsletter", "order", "actionWord"}, Headers("pass", "pass", "pass"))
        EXCEPT !.bare = TRUE, !.urls = <<[cues |-> {}, feed |-> Unreported]>>]

\* A colleague's reminder.
Clean == Mail({}, Headers("pass", "pass", "pass"))

-----------------------------------------------------------------------------
\* What the feeds, the sender's past and the scanner may add to a scenario.
Known(m) ==
    {[m EXCEPT !.whois = IF @ = Unknown THEN w ELSE @, !.domain = d, !.past = p] :
        w \in {Unknown, 3, 2000}, d \in {0, 30},
        p \in {NoPast, [count |-> 1, flagged |-> 0, cues |-> {}],
               [count |-> 4, flagged |-> 1, cues |-> {"newsletter"}]}}

Reported(m) ==
    IF m.files = <<>> THEN {m}
    ELSE {[m EXCEPT !.files[1].report = [malicious |-> s >= 50, score |-> s]] : s \in {0, 90}}

ScenarioMails ==
    UNION {UNION {Reported(k) : k \in Known(m)} : m \in {Phishing, Bec, Invoice, Spam, Clean}}

-----------------------------------------------------------------------------
\* Whatever fails on the way and whatever is known of sender, link and file: the
\* phishing scenario is always deleted and the bec one is never let through; nor is the
\* program in an invoice, unless the mailbox holds mails of the sender and none of them
\* is flagged; and the clean one passes once whois and feeds speak for its domain.
ScenariosJudged ==
    Finished =>
        /\ SameText(mail, Phishing) => action = "delete"
        /\ SameText(mail, Bec) => action # "allow"
        /\ SameText(mail, Invoice) /\ (mail.past.count = 0 \/ mail.past.flagged > 0)
               => action # "allow"
        /\ SameText(mail, Clean) /\ mail.whois > 90 /\ mail.domain <= 0
               /\ "reputation" \notin failed => action = "allow"
=============================================================================
