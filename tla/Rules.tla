------------------------------- MODULE Rules --------------------------------
(***************************************************************************)
(* The registered rules, the graph that amplifies them and the patterns    *)
(* that combine them.  A rule is its score for a context c (0 is "not      *)
(* triggered"): c.m the mail, c.auth, c.rep, c.beh, c.url its signals.     *)
(***************************************************************************)
EXTENDS Signals

Urgent(m) == m.cues \cap {"urgent", "urgentArabic"} # {}   \* PHISHING_URGENT_PATTERNS

-----------------------------------------------------------------------------
(* The sender's rules.                                                     *)
SuspiciousIp(c) == Lesser(30,
    Points(c.rep.ip.blacklisted, 25) + Points(c.rep.ip.tor, 15) + Points(c.rep.ip.proxy, 10)
        + Points(c.rep.ip.score >= 70, 15))

\* Mutant: a permanent error scores like a failed signature.
AuthFailureOnPermerror(c) == Points(HasAuthFailure(c.auth), 10)

AuthFailure(c) ==
    LET a == c.auth
    IN IF ~HasAuthFailure(a) THEN 0
       ELSE IF a.spf = "fail" /\ a.dkim = "fail" THEN IF a.dmarc = "fail" THEN 35 ELSE 25
       ELSE IF a.dmarc = "fail" THEN 20
       ELSE IF a.spf = "fail" THEN 15
       ELSE Points(a.spf = "softfail" \/ a.dkim = "fail", 10)

SenderDisplayNameMismatch(c) == Points("brandName" \in c.m.cues, 25)
DisplayNameImpersonation(c) ==
    Points("roleName" \in c.m.cues /\ c.m.sender \notin {"brand", "whitelisted"}, 30)
DisposableDomain(c) == Points("disposable" \in c.m.cues, 25)

ReplyToDomainMismatch(c) ==
    Points(/\ c.m.headers.replyTo = "other"
           /\ c.m.sender # "none"
           /\ \/ c.m.sender \in {"brand", "business"}
              \/ Urgent(c.m) \/ "payment" \in c.m.cues, 35)

FirstContactRisk(c) ==
    LET score == 10 + Points(Urgent(c.m), 10) + Points(HasAttachment(c.m), 10)
    IN Points(c.beh.count = 0 /\ score > 10, score)

-----------------------------------------------------------------------------
(* The content's rules.                                                    *)
IpBasedUrl(c) == Points(c.url.ip, 15)
ShortenedUrl(c) == Points(c.url.short, 15)
UrgentPhishingLanguage(c) == Points("urgent" \in c.m.cues, 10)
BECLanguage(c) == Lesser(25, 10 * c.m.bec)

CredentialHarvesting(c) ==
    LET has(cue) == cue \in c.m.cues
        external == has("externalForm") /\ ~has("trustedForm")
        score == Points(has("password"), 40)
                   + Points(external, IF has("password") THEN 30 ELSE 10)
                   + Points(external /\ has("ipForm"), 15)
    IN IF score = 0 THEN Points(has("form") /\ ~has("trustedForm"), 5) ELSE Lesser(50, score)

ExcessiveCapitalization(c) == Points("capitals" \in c.m.cues, 10)
ExcessiveExclamation(c) == Points("exclamations" \in c.m.cues, 5)

FilePoints(m, kind) ==
    CASE kind = "executable" -> 20 + Points(Urgent(m), 10)
      [] kind = "archive" -> IF Urgent(m) THEN 15 ELSE 10
      [] kind = "office" -> Points("financialWords" \in m.cues, 15)
      [] OTHER -> 0
RiskyAttachment(c) == Lesser(30,
    SumFunction([i \in DOMAIN c.m.files |-> FilePoints(c.m, c.m.files[i].kind)]))

-----------------------------------------------------------------------------
(* The advanced rules.  A total of 70 without a malicious link, the second *)
(* branch of MaliciousUrlRule, does not occur: a link of 70 is malicious.  *)
MaliciousUrl(c) == IF c.url.malicious THEN 50 ELSE Points(c.url.total >= 70, 25)

NewlyRegisteredDomain(c) ==
    LET age == c.rep.age
    IN IF age = Unknown THEN 0
       ELSE IF age <= 7 THEN 35 ELSE IF age <= 30 THEN 25
       ELSE IF age <= 90 THEN 10 ELSE Points(c.rep.newly, 15)

IsReplyThread(m) == m.headers.inReplyTo \/ "replySubject" \in m.cues
ConversationHijacking(c) == Points(IsReplyThread(c.m) /\ "hijack" \in c.m.cues, 35)

HomoglyphDomainSpoofing(c) == Points(c.m.sender # "none" /\ "homoglyph" \in c.m.cues, 30)
LookalikeDomain(c) ==
    Points(c.m.sender \notin {"none", "brand", "whitelisted"} /\ "lookalike" \in c.m.cues, 30)
BrandAbuse(c) ==
    Points(c.m.sender # "whitelisted" /\ {"brandMentions", "actionWord"} \subseteq c.m.cues, 20)
HTMLObfuscation(c) == Points(c.m.cues \cap {"hiddenHtml", "encodedBrand"} # {}, 25)
Base64EncodedUrl(c) ==
    IF "dataUri" \in c.m.cues THEN 35 ELSE Points("base64Url" \in c.m.cues, 25)

-----------------------------------------------------------------------------
(* The registry: what every registered rule scores in context c.           *)
RuleScores(c) ==
    [sender_display_name_mismatch   |-> SenderDisplayNameMismatch(c),
     display_name_impersonation     |-> DisplayNameImpersonation(c),
     disposable_sender_domain       |-> DisposableDomain(c),
     reply_to_domain_mismatch       |-> ReplyToDomainMismatch(c),
     first_contact_sender_risk      |-> FirstContactRisk(c),
     suspicious_received_headers    |-> SuspiciousIp(c),
     email_auth_failure             |-> AuthFailure(c),
     ip_based_url                   |-> IpBasedUrl(c),
     shortened_url                  |-> ShortenedUrl(c),
     malicious_url_reputation       |-> MaliciousUrl(c),
     urgent_phishing_language       |-> UrgentPhishingLanguage(c),
     bec_language_detected          |-> BECLanguage(c),
     credential_harvesting_attempt  |-> CredentialHarvesting(c),
     excessive_capitalization       |-> ExcessiveCapitalization(c),
     excessive_exclamation_marks    |-> ExcessiveExclamation(c),
     risky_attachment_detected      |-> RiskyAttachment(c),
     conversation_hijacking_attempt |-> ConversationHijacking(c),
     homoglyph_domain_spoofing      |-> HomoglyphDomainSpoofing(c),
     lookalike_domain_attack        |-> LookalikeDomain(c),
     brand_abuse_in_body            |-> BrandAbuse(c),
     html_obfuscation_phishing      |-> HTMLObfuscation(c),
     base64_encoded_url             |-> Base64EncodedUrl(c),
     newly_registered_domain        |-> NewlyRegisteredDomain(c)]

SpamRules ==
    {"disposable_sender_domain", "excessive_capitalization", "excessive_exclamation_marks"}

Category(r) ==
    CASE r = "suspicious_received_headers" -> "reputation"
      [] r = "email_auth_failure" -> "authentication"
      [] r = "risky_attachment_detected" -> "attachment"
      [] r = "conversation_hijacking_attempt" -> "headers"
      [] r \in {"sender_display_name_mismatch", "display_name_impersonation",
                "disposable_sender_domain", "reply_to_domain_mismatch",
                "first_contact_sender_risk"} -> "sender"
      [] r \in {"ip_based_url", "shortened_url", "malicious_url_reputation",
                "base64_encoded_url"} -> "url"
      [] r \in {"newly_registered_domain", "homoglyph_domain_spoofing",
                "lookalike_domain_attack", "brand_abuse_in_body",
                "html_obfuscation_phishing"} -> "advanced"
      [] OTHER -> "content"

\* One run of the engine: the rules that fire, each with its original score.  No
\* registered rule depends on another, so the second pass of its loop adds nothing.
RunRuleEngine(c) ==
    LET scores == RuleScores(c)
    IN [r \in {q \in DOMAIN scores : scores[q] > 0} |->
            [original |-> scores[r], amplified |-> scores[r]]]

-----------------------------------------------------------------------------
(* The graph, in its order, with the tenths that a factor adds to one.      *)
(* Targets that no registered rule has are left out.                       *)
Graph == <<
    [node |-> "email_auth_failure", tenths |-> 3, targets |->
        {"homoglyph_domain_spoofing", "lookalike_domain_attack", "sender_display_name_mismatch",
         "display_name_impersonation", "reply_to_domain_mismatch"}],
    [node |-> "display_name_impersonation", tenths |-> 4, targets |->
        {"bec_language_detected", "first_contact_sender_risk", "reply_to_domain_mismatch"}],
    [node |-> "bec_language_detected", tenths |-> 2, targets |->
        {"first_contact_sender_risk", "reply_to_domain_mismatch"}],
    [node |-> "newly_registered_domain", tenths |-> 3, targets |->
        {"credential_harvesting_attempt", "ip_based_url"}],
    [node |-> "malicious_url_reputation", tenths |-> 5, targets |->
        {"html_obfuscation_phishing", "base64_encoded_url"}],
    [node |-> "suspicious_received_headers", tenths |-> 2, targets |-> {"email_auth_failure"}]>>

\* The amplified score is the original times the factor less one, rounded; the last
\* node of the graph that fired and names the rule is the one that counts.
ApplyGraphAmplification(results) ==
    LET nodes(r) == {i \in DOMAIN Graph : Graph[i].node \in DOMAIN results /\ r \in Graph[i].targets}
    IN [r \in DOMAIN results |->
            IF nodes(r) = {} THEN results[r]
            ELSE [results[r] EXCEPT !.amplified =
                    Lesser(100, (results[r].original * Graph[Max(nodes(r))].tenths + 5) \div 10)]]

-----------------------------------------------------------------------------
(* The attack patterns: all required rules and one of the optional ones.    *)
AttackPatterns == {
    [id |-> "bec_attack", bonus |-> 30, required |-> {"bec_language_detected"}, optional |->
        {"reply_to_domain_mismatch", "email_auth_failure", "display_name_impersonation",
         "sender_display_name_mismatch"}],
    [id |-> "phishing_campaign", bonus |-> 25,
     required |-> {"urgent_phishing_language", "credential_harvesting_attempt"}, optional |->
        {"email_auth_failure", "newly_registered_domain", "sender_display_name_mismatch",
         "html_obfuscation_phishing", "ip_based_url"}],
    [id |-> "brand_spoofing_attack", bonus |-> 20, required |-> {"brand_abuse_in_body"}, optional |->
        {"homoglyph_domain_spoofing", "lookalike_domain_attack", "sender_display_name_mismatch",
         "email_auth_failure"}],
    [id |-> "auth_bypass_spoofing", bonus |-> 25,
     required |-> {"email_auth_failure", "sender_display_name_mismatch"}, optional |->
        {"display_name_impersonation", "reply_to_domain_mismatch", "newly_registered_domain"}],
    [id |-> "conversation_hijacking", bonus |-> 20,
     required |-> {"conversation_hijacking_attempt"}, optional |->
        {"bec_language_detected", "reply_to_domain_mismatch", "email_auth_failure"}],
    [id |-> "advanced_obfuscated_phishing", bonus |-> 20,
     required |-> {"html_obfuscation_phishing"}, optional |->
        {"base64_encoded_url", "ip_based_url", "malicious_url_reputation"}],
    [id |-> "malware_social_engineering", bonus |-> 25,
     required |-> {"risky_attachment_detected"}, optional |->
        {"urgent_phishing_language", "bec_language_detected", "first_contact_sender_risk",
         "email_auth_failure"}],
    [id |-> "infrastructure_abuse", bonus |-> 15,
     required |-> {"suspicious_received_headers", "email_auth_failure"}, optional |->
        {"newly_registered_domain", "malicious_url_reputation"}]}

Correlate(fired) ==
    {p \in AttackPatterns : p.required \subseteq fired /\ p.optional \cap fired # {}}

-----------------------------------------------------------------------------
(* What the context holds when scoring reads it.                           *)
HandedOver(c, results, malware) ==
    LET fired == DOMAIN results
        amplified(rules) == SumFunction([r \in rules |-> results[r].amplified])
        matched == Correlate(fired)
    IN [auth         |-> c.auth,
        ip           |-> c.rep.ip.score,
        domain       |-> c.rep.domain,
        phishing     |-> amplified(fired \ SpamRules),
        spam         |-> amplified(fired \cap SpamRules),
        behavior     |-> c.beh.score,
        anomaly      |-> c.beh.anomaly,
        url          |-> c.url.total,
        bonus        |-> SumFunction([p \in matched |-> p.bonus]),
        patterns     |-> {p.id : p \in matched},
        spoofed      |-> {"sender_display_name_mismatch", "homoglyph_domain_spoofing"}
                            \cap fired # {},
        replyTo      |-> "reply_to_domain_mismatch" \in fired,
        categories   |-> Cardinality({Category(r) : r \in fired}),
        strong       |-> \E r \in fired : results[r].original + results[r].amplified >= 20,
        maliciousUrl |-> c.url.malicious,
        maliciousFile |-> malware.malicious,
        malware      |-> malware.score]
=============================================================================
