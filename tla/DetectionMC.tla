---------------------------- MODULE DetectionMC -----------------------------
EXTENDS Scenarios, TLC

Plain ==
    [caller |-> "processor", cues |-> {}, bec |-> 0, sender |-> "ordinary", bare |-> TRUE, headers |-> NoHeaders,
     past |-> [count |-> 4, flagged |-> 0, cues |-> {}], ip |-> UnknownIp, whois |-> 2000,
     domain |-> 0, urls |-> <<>>, files |-> <<>>]

Spoofed == [Headers("fail", "fail", "fail") EXCEPT !.replyTo = "other"]
Link(cues, answer, score) == [cues |-> cues, feed |-> [verdict |-> answer, score |-> score]]
File(kind, malicious, score) ==
    [kind |-> kind, report |-> [malicious |-> malicious, score |-> score]]

\* Mails nothing speaks against.
Quiet ==
    {Plain,
     [Plain EXCEPT !.headers = Headers("pass", "pass", "pass"), !.sender = "brand"],
     [Plain EXCEPT !.headers = Headers("none", "none", "none"), !.bare = FALSE, !.domain = -12]}

\* Social engineering: language, names, history.
Social ==
    {[Plain EXCEPT !.cues = {"roleName", "bec", "wire", "payment", "urgent"}, !.bec = 2,
                   !.headers = Spoofed, !.past.cues = {"newsletter"}],
     [Plain EXCEPT !.cues = {"brandName", "homoglyph", "brandMentions", "actionWord", "urgent",
                             "password", "form", "externalForm", "ipForm"},
                   !.headers = Spoofed, !.whois = 3, !.bare = FALSE],
     [Plain EXCEPT !.cues = {"replySubject", "hijack", "bec", "newWire"}, !.bec = 1,
                   !.past.cues = {"financial"}],
     [Plain EXCEPT !.cues = {"brandName", "phish"}, !.past.cues = {"order"},
                   !.headers = Headers("softfail", "pass", "permerror")],
     [Plain EXCEPT !.cues = {"homoglyph"}, !.headers = Headers("pass", "permerror", "pass")],
     [Plain EXCEPT !.cues = {"phish", "capitals", "disposable", "exclamations"},
                   !.past = [count |-> 2, flagged |-> 2, cues |-> {"support"}]],
     [Plain EXCEPT !.sender = "none", !.past.count = 0, !.cues = {"urgentArabic"}, !.headers = [NoHeaders EXCEPT !.receivedSpf = "fail", !.signature = TRUE]]}

\* Links, and what the feeds know of link and server.
Links ==
    {[Plain EXCEPT !.urls = <<Link({"ip"}, "unknown", 0)>>],
     [Plain EXCEPT !.urls = <<Link({"ip"}, "unknown", 0), Link({"malformed"}, "unknown", 0)>>],
     [Plain EXCEPT !.urls = <<Link({"homoglyph", "brandSubdomain"}, "unknown", 0),
                              Link({"short"}, "unknown", 0)>>,
                   !.cues = {"hiddenHtml", "dataUri"}],
     [Plain EXCEPT !.urls = <<Link({"short", "tld"}, "suspicious", 45), Link({}, "clean", 0)>>,
                   !.cues = {"encodedBrand", "base64Url", "lookalike"}],
     [Plain EXCEPT !.urls = <<Link({}, "malicious", 60)>>,
                   !.headers = [Headers("fail", "pass", "fail") EXCEPT !.inReplyTo = TRUE],
                   !.ip = [score |-> 80, blacklisted |-> TRUE, tor |-> FALSE, proxy |-> TRUE]],
     [Plain EXCEPT !.whois = 60, !.domain = 30, !.cues = {"form"},
                   !.headers = Headers("pass", "fail", "none"),
                   !.ip = [score |-> 25, blacklisted |-> FALSE, tor |-> TRUE, proxy |-> FALSE]]}

\* Attachments.
Files ==
    {[Plain EXCEPT !.files = <<File("office", FALSE, 0)>>, !.bare = FALSE],
     [Plain EXCEPT !.files = <<File("executable", FALSE, 55), File("archive", FALSE, 0)>>,
                   !.cues = {"urgent"}],
     [Plain EXCEPT !.files = <<File("office", FALSE, 10), File("other", TRUE, 90)>>,
                   !.cues = {"financialWords", "bec"}, !.bec = 3]}

\* The same mails, handed over by the security test.
Tested(mails) == {[m EXCEPT !.caller = "test"] : m \in mails}

\* Mails whose rescans meet the row's own flag: at the edge of SPAM and SUSPICIOUS too.
Flagged ==
    {[Plain EXCEPT !.cues = {"phish", "brandName", "homoglyph"}, !.past = [count |-> n, flagged |-> f, cues |-> {t}]] :
        n \in {2, 5}, f \in 0..2, t \in {"order", "newsletter"}} \cup
    {[Plain EXCEPT !.cues = {"phish", "order", "capitals"},
                   !.past = [count |-> 0, flagged |-> 0, cues |-> {}]]}

\* Texts at the edge of a tier, of which feeds and whois know less or more.
Ip(score, listed) == [score |-> score, blacklisted |-> listed, tor |-> FALSE, proxy |-> FALSE]
Learned ==
    {[Plain EXCEPT !.cues = c, !.headers.replyTo = "other", !.urls = <<Link({"short"}, "unknown", u)>>,
                   !.ip = i, !.domain = d] :
        c \in {{"phish", "brandName"}, {"bec", "urgent", "capitals"}}, u \in {0, 45},
        i \in {UnknownIp, Ip(25, FALSE), Ip(80, TRUE)}, d \in {0, 30}}

MCMails == Quiet \cup Social \cup Links \cup Files \cup Flagged \cup Learned
           \cup Tested(Quiet \cup Social \cup Links \cup Files) \cup ScenarioMails
=============================================================================
