----------------------------- MODULE RiskScore ------------------------------
(***************************************************************************)
(* The arithmetic of the verdict: how ScoringService adds the signals of a *)
(* mail up to a score, a tier and a confidence, and which action           *)
(* DecisionService reads off them.                                         *)
(*                                                                         *)
(* The rule results enter as their sums: phishing and spam are the         *)
(* amplified scores of the triggered rules of either target, categories    *)
(* how many categories triggered, strong whether one rule's original and   *)
(* amplified scores reach 20 together.                                     *)
(***************************************************************************)
EXTENDS FiniteSets, Integers

AuthStatuses ==
    {"pass", "fail", "softfail", "neutral", "none", "unknown", "permerror", "temperror"}
Auths == [spf : AuthStatuses, dkim : AuthStatuses, dmarc : AuthStatuses]

CriticalPatterns == {"bec_attack", "phishing_campaign", "malware_social_engineering"}
Patterns == CriticalPatterns \cup
    {"brand_spoofing_attack", "auth_bypass_spoofing", "conversation_hijacking",
     "advanced_obfuscated_phishing", "infrastructure_abuse"}

SignalSets ==
    [auth : Auths, ip : 0..100, domain : Int,         \* tier 1
     phishing : Nat, spam : Nat,                      \* tier 2
     behavior : 0..100, anomaly : BOOLEAN,
     url : 0..100, bonus : Nat,                       \* tier 3
     patterns : SUBSET Patterns,
     spoofed : BOOLEAN,     \* sender_display_name_mismatch or homoglyph_domain_spoofing
     replyTo : BOOLEAN,     \* reply_to_domain_mismatch
     categories : Nat, strong : BOOLEAN,
     maliciousUrl : BOOLEAN, maliciousFile : BOOLEAN, malware : 0..100]

Lesser(a, b) == IF a <= b THEN a ELSE b
Greater(a, b) == IF a <= b THEN b ELSE a
Points(condition, n) == IF condition THEN n ELSE 0

\* Math.round of 0.7 p + 0.3 s.  A half rounds up, but for the sums whose double
\* falls just below it; larger ones meet the cap of 60 whichever way they round.
Blend(p, s) ==
    (7 * p + 3 * s + 5) \div 10
        - Points((p \in {45, 85} /\ s = 0) \/ (p = 85 /\ s = 10), 1)

RuleScore(p, s) == Lesser(60, Blend(Blend(p, s), 0))

SpfPoints(status) ==
    CASE status = "fail" -> 20 [] status = "softfail" -> 10 [] status = "none" -> 4 [] OTHER -> 0
DkimPoints(status) == CASE status = "fail" -> 20 [] status = "none" -> 4 [] OTHER -> 0
DmarcPoints(status) == CASE status = "fail" -> 15 [] status = "none" -> 3 [] OTHER -> 0

AuthPenalty(a) == Lesser(50,
    SpfPoints(a.spf) + DkimPoints(a.dkim) + DmarcPoints(a.dmarc)
        + Points(a.spf = "fail" /\ a.dkim = "fail" /\ a.dmarc = "fail", 15))

ReputationScore(ip, domain) ==
    Lesser(40, Greater(ip, domain) + Points(ip >= 20 /\ domain >= 20, 8))

BehaviorScore(s) == Lesser(25, s.behavior)
Tier1(s) == AuthPenalty(s.auth) + ReputationScore(s.ip, s.domain)
Tier2(s) == RuleScore(s.phishing, s.spam) + BehaviorScore(s)

UrlThreat(s) == Lesser(30, s.url)
CorrelationBonus(s) == Lesser(IF Tier1(s) + Tier2(s) >= 20 THEN 35 ELSE 10, s.bonus)
UrlDomainAmplifier(s) ==
    Points(UrlThreat(s) >= 15 /\ s.spoofed, Lesser(20, (4 * UrlThreat(s) + 5) \div 10))
BecReplyToBonus(s) == Points(s.anomaly /\ BehaviorScore(s) >= 15 /\ s.replyTo, 30)
Tier3(s) == CorrelationBonus(s) + UrlThreat(s) + UrlDomainAmplifier(s) + BecReplyToBonus(s)

FinalScore(s) == Lesser(100, Tier1(s) + Tier2(s) + Tier3(s))

Corroborated(s) == s.categories >= 2 \/ s.strong

RiskTier(s) ==
    CASE FinalScore(s) >= 90 -> "MALICIOUS"
      [] FinalScore(s) \in 75..89 -> "PHISHING"
      [] FinalScore(s) \in 50..74 /\ Corroborated(s) -> "SUSPICIOUS"
      [] FinalScore(s) \in 25..49 /\ Corroborated(s) -> "SPAM"
      [] OTHER -> "SAFE"

Tier1Confidence(t) ==
    IF t >= 50 THEN 35 ELSE IF t >= 30 THEN 25 ELSE IF t >= 15 THEN 15 ELSE Points(t >= 5, 8)
Tier2Confidence(t) ==
    IF t >= 40 THEN 20 ELSE IF t >= 20 THEN 12 ELSE Points(t >= 10, 6)

Confidence(s) == Lesser(95, Greater(10,
    40 + Tier1Confidence(Tier1(s)) + Tier2Confidence(Tier2(s))
       + Points(Tier1(s) >= 20 /\ Tier2(s) >= 15, 15)
       + 5 * Cardinality(s.patterns) + 5 * Cardinality(s.patterns \cap CriticalPatterns)
       - Points(FinalScore(s) >= 75 /\ Tier1(s) < 10, 20)))

IsMalware(s) == s.maliciousFile \/ s.malware >= 50

\* A malicious attachment or URL decides alone, and is filed as malware either way.
MaliciousOverride(s) ==
    [tier |-> "MALICIOUS", final |-> IF IsMalware(s) THEN 95 ELSE 91, confidence |-> 95,
     phishing |-> 0, spam |-> 0, isPhishing |-> TRUE, isSpam |-> FALSE, isMalware |-> TRUE]

ComputeRisk(s) ==
    IF IsMalware(s) \/ s.maliciousUrl
    THEN MaliciousOverride(s)
    ELSE [tier       |-> RiskTier(s),
          final      |-> FinalScore(s),
          confidence |-> Confidence(s),
          phishing   |-> Lesser(100, s.phishing + CorrelationBonus(s)),
          spam       |-> Lesser(100, s.spam),
          isPhishing |-> RiskTier(s) \in {"PHISHING", "MALICIOUS"},
          isSpam     |-> RiskTier(s) = "SPAM",
          isMalware  |-> FALSE]

\* Mutant: the gate of SUSPICIOUS above the confidence of a mail without hard signals.
ComputeActionStrict(risk) ==
    CASE risk.isMalware -> "delete"
      [] ~risk.isMalware /\ risk.tier \in {"PHISHING", "MALICIOUS"} -> "block"
      [] risk.tier = "SPAM" -> "quarantine"
      [] risk.tier = "SUSPICIOUS" /\ risk.confidence >= 60 -> "quarantine"
      [] OTHER -> "allow"

ComputeAction(risk) ==
    CASE risk.isMalware -> "delete"
      [] ~risk.isMalware /\ risk.tier = "MALICIOUS" ->
            IF risk.confidence >= 85 THEN "delete" ELSE "block"
      [] risk.tier = "PHISHING" -> IF risk.confidence >= 70 THEN "block" ELSE "quarantine"
      [] risk.tier = "SPAM" -> "quarantine"
      [] risk.tier = "SUSPICIOUS" /\ risk.confidence >= 45 -> "quarantine"
      [] OTHER -> "allow"

Tiers == {"SAFE", "SPAM", "SUSPICIOUS", "PHISHING", "MALICIOUS"}
Actions == {"allow", "quarantine", "block", "delete"}
Risks == [tier : Tiers, final : 0..100, confidence : 10..95, phishing : 0..100,
          spam : 0..100, isPhishing : BOOLEAN, isSpam : BOOLEAN, isMalware : BOOLEAN]

-----------------------------------------------------------------------------
(* What the rule engine and the correlation guarantee of the signals they  *)
(* hand over (Detection shows it of the pipeline): a bonus comes with its  *)
(* pattern, and the rules that count as a spoofed domain either keep their *)
(* score of 25 and more or were lowered after a failed authentication.     *)
Coherent(s) ==
    /\ s.bonus > 0 => s.patterns # {}
    /\ s.spoofed => s.phishing >= 25 \/ AuthPenalty(s.auth) >= 10

\* Every signal of s is at least as strong as that of t.
Grows(s, t) == t => s
AtLeast(s, t) ==
    /\ SpfPoints(s.auth.spf) >= SpfPoints(t.auth.spf)
    /\ DkimPoints(s.auth.dkim) >= DkimPoints(t.auth.dkim)
    /\ DmarcPoints(s.auth.dmarc) >= DmarcPoints(t.auth.dmarc)
    /\ s.ip >= t.ip /\ s.domain >= t.domain
    /\ s.phishing >= t.phishing /\ s.spam >= t.spam
    /\ s.behavior >= t.behavior /\ Grows(s.anomaly, t.anomaly)
    /\ s.url >= t.url /\ s.bonus >= t.bonus /\ t.patterns \subseteq s.patterns
    /\ Grows(s.spoofed, t.spoofed) /\ Grows(s.replyTo, t.replyTo)
    /\ s.categories >= t.categories /\ Grows(s.strong, t.strong)
    /\ Grows(s.maliciousUrl, t.maliciousUrl) /\ Grows(s.maliciousFile, t.maliciousFile)
    /\ s.malware >= t.malware

TierRank(tier) ==
    CASE tier = "SAFE" -> 0 [] tier = "SPAM" -> 1 [] tier = "SUSPICIOUS" -> 2
      [] tier = "PHISHING" -> 3 [] tier = "MALICIOUS" -> 4
Severity(a) ==
    CASE a = "allow" -> 0 [] a = "quarantine" -> 1 [] a = "block" -> 2 [] a = "delete" -> 3
=============================================================================
