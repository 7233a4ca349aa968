-------------------------- MODULE Detection_proofs --------------------------
(***************************************************************************)
(* What the arithmetic of the verdict guarantees for every signal set: each*)
(* part of the score grows with its signals, a mail that is not SAFE is    *)
(* never allowed, and more evidence never makes tier or action milder.     *)
(* And what a run of the pipeline makes of every mail: the stages, rules,  *)
(* graph and correlation hand over such signals whatever fails, a malicious*)
(* file decides, an innocuous mail passes, a rescan keeps the verdict, and *)
(* the scenarios of the security test are judged as their names say.       *)
(***************************************************************************)
EXTENDS Scenarios, FiniteSetTheorems, WellFoundedInduction, TLAPS

-----------------------------------------------------------------------------
(* The parts of the score.                                                 *)

LEMMA BlendType ==
    ASSUME NEW p \in Nat, NEW s \in Nat
    PROVE  Blend(p, s) \in Nat
  BY DEF Blend, Points

LEMMA BlendMonotone ==
    ASSUME NEW p \in Nat, NEW q \in Nat, NEW s \in Nat, NEW r \in Nat, p <= q, s <= r
    PROVE  Blend(p, s) <= Blend(q, r)
  BY DEF Blend, Points

LEMMA RuleScoreType ==
    ASSUME NEW p \in Nat, NEW s \in Nat
    PROVE  RuleScore(p, s) \in 0..60
  <1>1. Blend(p, s) \in Nat
    BY BlendType
  <1>2. Blend(Blend(p, s), 0) \in Nat
    BY <1>1, BlendType
  <1> QED
    BY <1>2 DEF RuleScore, Lesser

LEMMA RuleScoreMonotone ==
    ASSUME NEW p \in Nat, NEW q \in Nat, NEW s \in Nat, NEW r \in Nat, p <= q, s <= r
    PROVE  RuleScore(p, s) <= RuleScore(q, r)
  <1>1. Blend(p, s) \in Nat /\ Blend(q, r) \in Nat
    BY BlendType
  <1>2. Blend(p, s) <= Blend(q, r)
    BY BlendMonotone
  <1>3. Blend(Blend(p, s), 0) \in Nat /\ Blend(Blend(q, r), 0) \in Nat
    BY <1>1, BlendType
  <1>4. Blend(Blend(p, s), 0) <= Blend(Blend(q, r), 0)
    BY <1>1, <1>2, BlendMonotone
  <1> QED
    BY <1>3, <1>4 DEF RuleScore, Lesser

\* One rule of 25 alone is worth 13 points, enough to count for the confidence.
LEMMA RuleScoreFloor ==
    ASSUME NEW p \in Nat, NEW s \in Nat, p >= 25
    PROVE  RuleScore(p, s) >= 13
  <1>1. Blend(p, s) \in Nat /\ Blend(p, s) >= 18
    BY DEF Blend, Points
  <1>2. Blend(Blend(p, s), 0) \in Nat /\ Blend(Blend(p, s), 0) >= 13
    BY <1>1 DEF Blend, Points
  <1> QED
    BY <1>2 DEF RuleScore, Lesser

LEMMA PointsOfStatuses ==
    ASSUME NEW status
    PROVE  /\ SpfPoints(status) \in 0..20 /\ (SpfPoints(status) = 20 <=> status = "fail")
           /\ DkimPoints(status) \in 0..20 /\ (DkimPoints(status) = 20 <=> status = "fail")
           /\ DmarcPoints(status) \in 0..15 /\ (DmarcPoints(status) = 15 <=> status = "fail")
  BY DEF SpfPoints, DkimPoints, DmarcPoints

LEMMA AuthPenaltyType ==
    ASSUME NEW a
    PROVE  AuthPenalty(a) \in 0..50
  BY PointsOfStatuses DEF AuthPenalty, Lesser, Points

LEMMA AuthPenaltyMonotone ==
    ASSUME NEW a, NEW b,
           SpfPoints(b.spf) >= SpfPoints(a.spf),
           DkimPoints(b.dkim) >= DkimPoints(a.dkim),
           DmarcPoints(b.dmarc) >= DmarcPoints(a.dmarc)
    PROVE  AuthPenalty(b) >= AuthPenalty(a)
  <1>1. /\ SpfPoints(a.spf) \in 0..20 /\ (SpfPoints(a.spf) = 20 <=> a.spf = "fail")
        /\ DkimPoints(a.dkim) \in 0..20 /\ (DkimPoints(a.dkim) = 20 <=> a.dkim = "fail")
        /\ DmarcPoints(a.dmarc) \in 0..15 /\ (DmarcPoints(a.dmarc) = 15 <=> a.dmarc = "fail")
    BY PointsOfStatuses
  <1>2. /\ SpfPoints(b.spf) \in 0..20 /\ (SpfPoints(b.spf) = 20 <=> b.spf = "fail")
        /\ DkimPoints(b.dkim) \in 0..20 /\ (DkimPoints(b.dkim) = 20 <=> b.dkim = "fail")
        /\ DmarcPoints(b.dmarc) \in 0..15 /\ (DmarcPoints(b.dmarc) = 15 <=> b.dmarc = "fail")
    BY PointsOfStatuses
  <1> DEFINE all(x) == x.spf = "fail" /\ x.dkim = "fail" /\ x.dmarc = "fail"
             sum(x) == SpfPoints(x.spf) + DkimPoints(x.dkim) + DmarcPoints(x.dmarc)
  <1>3. all(a) => all(b)
    BY <1>1, <1>2
  <1> DEFINE extra(x) == IF all(x) THEN 15 ELSE 0
  <1>4. extra(a) \in {0, 15} /\ extra(b) \in {0, 15} /\ extra(a) <= extra(b)
    BY <1>3
  <1>5. sum(a) \in Nat /\ sum(b) \in Nat /\ sum(a) <= sum(b)
    <2> HIDE DEF all, extra
    <2>1. ASSUME NEW x \in Nat, NEW y \in Nat, NEW z \in Nat,
                 NEW u \in Nat, NEW v \in Nat, NEW w \in Nat, u >= x, v >= y, w >= z
          PROVE  x + y + z <= u + v + w /\ x + y + z \in Nat /\ u + v + w \in Nat
      BY <2>1
    <2>2. /\ SpfPoints(a.spf) \in Nat /\ DkimPoints(a.dkim) \in Nat /\ DmarcPoints(a.dmarc) \in Nat
          /\ SpfPoints(b.spf) \in Nat /\ DkimPoints(b.dkim) \in Nat /\ DmarcPoints(b.dmarc) \in Nat
      BY <1>1, <1>2
    <2>3. /\ SpfPoints(b.spf) >= SpfPoints(a.spf)
          /\ DkimPoints(b.dkim) >= DkimPoints(a.dkim)
          /\ DmarcPoints(b.dmarc) >= DmarcPoints(a.dmarc)
      OBVIOUS
    <2> QED
      BY <2>1, <2>2, <2>3
  <1>6. /\ AuthPenalty(a) = Lesser(50, sum(a) + extra(a))
        /\ AuthPenalty(b) = Lesser(50, sum(b) + extra(b))
    BY DEF AuthPenalty, Points
  <1> HIDE DEF all, sum, extra
  <1> QED
    BY <1>4, <1>5, <1>6 DEF Lesser

LEMMA ReputationType ==
    ASSUME NEW i \in 0..100, NEW d \in Int
    PROVE  ReputationScore(i, d) \in 0..40
  BY DEF ReputationScore, Lesser, Greater, Points

LEMMA ReputationMonotone ==
    ASSUME NEW i \in 0..100, NEW d \in Int, NEW j \in 0..100, NEW e \in Int,
           j >= i, e >= d
    PROVE  ReputationScore(j, e) >= ReputationScore(i, d)
  BY DEF ReputationScore, Lesser, Greater, Points

LEMMA TiersType ==
    ASSUME NEW s \in SignalSets
    PROVE  /\ Tier1(s) \in 0..90
           /\ BehaviorScore(s) \in 0..25
           /\ Tier2(s) \in 0..85
           /\ Tier2(s) >= BehaviorScore(s)
           /\ UrlThreat(s) \in 0..30
           /\ CorrelationBonus(s) \in 0..35
           /\ UrlDomainAmplifier(s) \in 0..20
           /\ BecReplyToBonus(s) \in {0, 30}
           /\ FinalScore(s) \in 0..100
  <1>1. /\ s.ip \in 0..100 /\ s.domain \in Int /\ s.phishing \in Nat /\ s.spam \in Nat
        /\ s.behavior \in 0..100 /\ s.url \in 0..100 /\ s.bonus \in Nat
    BY DEF SignalSets
  <1>2. Tier1(s) \in 0..90
    <2>1. AuthPenalty(s.auth) \in 0..50 /\ ReputationScore(s.ip, s.domain) \in 0..40
      BY <1>1, AuthPenaltyType, ReputationType
    <2> QED
      BY <2>1 DEF Tier1
  <1>3. BehaviorScore(s) \in 0..25
    BY <1>1 DEF BehaviorScore, Lesser
  <1>4. Tier2(s) \in 0..85 /\ Tier2(s) >= BehaviorScore(s)
    <2>1. RuleScore(s.phishing, s.spam) \in 0..60
      BY <1>1, RuleScoreType
    <2> QED
      BY <2>1, <1>3 DEF Tier2
  <1>5. UrlThreat(s) \in 0..30
    BY <1>1 DEF UrlThreat, Lesser
  <1>6. CorrelationBonus(s) \in 0..35
    BY <1>1, <1>2, <1>4 DEF CorrelationBonus, Lesser
  <1>7. UrlDomainAmplifier(s) \in 0..20
    BY <1>5 DEF UrlDomainAmplifier, Lesser, Points
  <1>8. BecReplyToBonus(s) \in {0, 30}
    BY DEF BecReplyToBonus, Points
  <1>9. FinalScore(s) \in 0..100
    <2>1. Tier3(s) \in Nat
      BY <1>5, <1>6, <1>7, <1>8 DEF Tier3
    <2>2. ASSUME NEW a \in 0..90, NEW b \in 0..85, NEW d \in Nat
          PROVE  Lesser(100, a + b + d) \in 0..100
      BY DEF Lesser
    <2> QED
      BY <1>2, <1>4, <2>1, <2>2 DEF FinalScore
  <1> QED
    BY <1>2, <1>3, <1>4, <1>5, <1>6, <1>7, <1>8, <1>9

LEMMA PatternCounts ==
    ASSUME NEW P \in SUBSET Patterns
    PROVE  /\ IsFiniteSet(P) /\ IsFiniteSet(P \cap CriticalPatterns)
           /\ Cardinality(P) \in Nat /\ Cardinality(P \cap CriticalPatterns) \in Nat
           /\ P # {} => Cardinality(P) >= 1
  <1>1. IsFiniteSet(Patterns)
    <2> DEFINE three(x, y, z) == {x} \cup {y} \cup {z}
    <2>1. ASSUME NEW x, NEW y, NEW z PROVE IsFiniteSet(three(x, y, z))
      BY FS_Singleton, FS_Union
    <2>2. Patterns = three("bec_attack", "phishing_campaign", "malware_social_engineering")
                \cup three("brand_spoofing_attack", "auth_bypass_spoofing", "conversation_hijacking")
                \cup three("advanced_obfuscated_phishing", "infrastructure_abuse",
                           "infrastructure_abuse")
      BY DEF Patterns, CriticalPatterns
    <2> HIDE DEF three
    <2> QED
      BY <2>1, <2>2, FS_Union
  <1>2. IsFiniteSet(P) /\ IsFiniteSet(P \cap CriticalPatterns)
    BY <1>1, FS_Subset
  <1> QED
    BY <1>2, FS_CardinalityType, FS_EmptySet
-----------------------------------------------------------------------------
(* A mail that is not SAFE is never allowed.                               *)

LEMMA ConfidenceType ==
    ASSUME NEW s \in SignalSets
    PROVE  Confidence(s) \in 10..95
  <1> DEFINE raw == 40 + Tier1Confidence(Tier1(s)) + Tier2Confidence(Tier2(s))
                     + Points(Tier1(s) >= 20 /\ Tier2(s) >= 15, 15)
                     + 5 * Cardinality(s.patterns)
                     + 5 * Cardinality(s.patterns \cap CriticalPatterns)
                     - Points(FinalScore(s) >= 75 /\ Tier1(s) < 10, 20)
  <1>1. s.patterns \in SUBSET Patterns
    BY DEF SignalSets
  <1>2. raw \in Int
    <2>1. /\ Cardinality(s.patterns) \in Nat
          /\ Cardinality(s.patterns \cap CriticalPatterns) \in Nat
      BY <1>1, PatternCounts
    <2> QED
      BY <2>1, TiersType DEF Tier1Confidence, Tier2Confidence, Points
  <1>3. Confidence(s) = Lesser(95, Greater(10, raw))
    BY DEF Confidence
  <1> HIDE DEF raw
  <1> QED
    BY <1>2, <1>3 DEF Lesser, Greater

\* Without a pattern, a score below 50 is all that can come with a low confidence.
LEMMA WeakSignalsStayLow ==
    ASSUME NEW s \in SignalSets, Coherent(s),
           s.patterns = {}, Tier1(s) < 5, Tier2(s) < 10
    PROVE  FinalScore(s) < 50
  <1>1. /\ s.phishing \in Nat /\ s.spam \in Nat /\ s.ip \in 0..100 /\ s.domain \in Int
        /\ s.bonus \in Nat
    BY DEF SignalSets
  <1>2. ~(s.bonus > 0)
    BY DEF Coherent
  <1>3. CorrelationBonus(s) = 0
    BY <1>1, <1>2 DEF CorrelationBonus, Lesser
  <1>4. BecReplyToBonus(s) = 0
    <2>1. BehaviorScore(s) < 15
      BY TiersType
    <2> QED
      BY <2>1, TiersType DEF BecReplyToBonus, Points
  <1>5. UrlDomainAmplifier(s) = 0
    <2>1. ~(s.phishing >= 25)
      <3>1. RuleScore(s.phishing, s.spam) \in 0..60 /\ BehaviorScore(s) \in 0..25
        BY <1>1, RuleScoreType, TiersType
      <3>2. RuleScore(s.phishing, s.spam) < 13
        BY <3>1 DEF Tier2
      <3> QED
        BY <3>1, <3>2, <1>1, RuleScoreFloor
    <2>2. ~(AuthPenalty(s.auth) >= 10)
      <3>1. AuthPenalty(s.auth) \in 0..50 /\ ReputationScore(s.ip, s.domain) \in 0..40
        BY <1>1, AuthPenaltyType, ReputationType
      <3> QED
        BY <3>1 DEF Tier1
    <2>3. ~s.spoofed
      BY <2>1, <2>2 DEF Coherent
    <2> QED
      BY <2>3 DEF UrlDomainAmplifier, Points
  <1>6. Tier1(s) \in Nat /\ Tier2(s) \in Nat /\ UrlThreat(s) \in 0..30
    BY TiersType
  <1> QED
    BY <1>3, <1>4, <1>5, <1>6 DEF FinalScore, Tier3, Lesser

LEMMA MiddleScoresAreTrusted ==
    ASSUME NEW s \in SignalSets, Coherent(s), FinalScore(s) \in 50..74
    PROVE  Confidence(s) >= 45
  <1> DEFINE counted == 5 * Cardinality(s.patterns)
                         + 5 * Cardinality(s.patterns \cap CriticalPatterns)
             both == Points(Tier1(s) >= 20 /\ Tier2(s) >= 15, 15)
             raw == 40 + Tier1Confidence(Tier1(s)) + Tier2Confidence(Tier2(s)) + both + counted
  <1>1. s.patterns \in SUBSET Patterns
    BY DEF SignalSets
  <1>2. counted \in Nat /\ (s.patterns # {} => counted >= 5)
    <2>1. /\ Cardinality(s.patterns) \in Nat
          /\ Cardinality(s.patterns \cap CriticalPatterns) \in Nat
          /\ s.patterns # {} => Cardinality(s.patterns) >= 1
      BY <1>1, PatternCounts
    <2>2. ASSUME NEW c \in Nat, NEW d \in Nat
          PROVE  5 * c + 5 * d \in Nat /\ (c >= 1 => 5 * c + 5 * d >= 5)
      OBVIOUS
    <2> QED
      BY <2>1, <2>2
  <1>3. Tier1(s) \in Nat /\ Tier2(s) \in Nat /\ FinalScore(s) \in Nat
    BY TiersType
  <1>4. s.patterns # {} \/ Tier1(s) >= 5 \/ Tier2(s) >= 10
    BY <1>3, WeakSignalsStayLow
  <1>5. /\ Tier1Confidence(Tier1(s)) \in Nat /\ Tier2Confidence(Tier2(s)) \in Nat
        /\ Tier1(s) >= 5 => Tier1Confidence(Tier1(s)) >= 8
        /\ Tier2(s) >= 10 => Tier2Confidence(Tier2(s)) >= 6
        /\ both \in Nat
    BY <1>3 DEF Tier1Confidence, Tier2Confidence, Points
  <1>6. Confidence(s) = Lesser(95, Greater(10, raw))
    <2>1. Points(FinalScore(s) >= 75 /\ Tier1(s) < 10, 20) = 0
      BY <1>3 DEF Points
    <2>2. Confidence(s) = Lesser(95, Greater(10,
              40 + Tier1Confidence(Tier1(s)) + Tier2Confidence(Tier2(s)) + both
                 + 5 * Cardinality(s.patterns) + 5 * Cardinality(s.patterns \cap CriticalPatterns)
                 - Points(FinalScore(s) >= 75 /\ Tier1(s) < 10, 20)))
      BY DEF Confidence
    <2>3. /\ Cardinality(s.patterns) \in Nat
          /\ Cardinality(s.patterns \cap CriticalPatterns) \in Nat
      BY <1>1, PatternCounts
    <2>4. both \in Nat
      BY <1>5
    <2> HIDE DEF both
    <2> QED
      BY <2>1, <2>2, <2>3, <2>4, <1>5
  <1> HIDE DEF counted, both
  <1>7. raw \in Nat /\ raw >= 45
    BY <1>2, <1>4, <1>5
  <1> QED
    BY <1>6, <1>7 DEF Lesser, Greater

LEMMA TierIsOfScore ==
    ASSUME NEW s \in SignalSets
    PROVE  /\ RiskTier(s) \in Tiers
           /\ RiskTier(s) = "MALICIOUS" <=> FinalScore(s) >= 90
           /\ RiskTier(s) = "PHISHING" <=> FinalScore(s) \in 75..89
           /\ RiskTier(s) = "SUSPICIOUS" <=> FinalScore(s) \in 50..74 /\ Corroborated(s)
           /\ RiskTier(s) = "SPAM" <=> FinalScore(s) \in 25..49 /\ Corroborated(s)
  <1>1. FinalScore(s) \in 0..100
    BY TiersType
  <1> QED
    BY <1>1 DEF RiskTier, Tiers

LEMMA ActionOfTier ==
    ASSUME NEW s \in SignalSets, Coherent(s)
    PROVE  /\ ComputeAction(ComputeRisk(s)) \in Actions
           /\ ComputeRisk(s).tier = "SAFE" => ComputeAction(ComputeRisk(s)) = "allow"
           /\ ComputeRisk(s).tier \in {"SPAM", "SUSPICIOUS"} =>
                 ComputeAction(ComputeRisk(s)) = "quarantine"
           /\ ComputeRisk(s).tier = "PHISHING" =>
                 ComputeAction(ComputeRisk(s)) =
                    IF ComputeRisk(s).confidence >= 70 THEN "block" ELSE "quarantine"
           /\ ComputeRisk(s).tier = "MALICIOUS" =>
                 ComputeAction(ComputeRisk(s)) =
                    IF ComputeRisk(s).confidence >= 85 THEN "delete" ELSE "block"
  <1>1. CASE IsMalware(s) \/ s.maliciousUrl
    BY <1>1 DEF ComputeRisk, MaliciousOverride, ComputeAction, Actions
  <1>2. CASE ~(IsMalware(s) \/ s.maliciousUrl)
    <2>1. /\ ComputeRisk(s).tier = RiskTier(s) /\ ComputeRisk(s).confidence = Confidence(s)
          /\ ComputeRisk(s).isMalware = FALSE
      BY <1>2 DEF ComputeRisk
    <2>2. RiskTier(s) \in Tiers
      BY TierIsOfScore
    <2>3. RiskTier(s) = "SUSPICIOUS" => Confidence(s) >= 45
      BY TierIsOfScore, MiddleScoresAreTrusted
    <2> QED
      BY <2>1, <2>2, <2>3 DEF ComputeAction, Actions, Tiers
  <1> QED
    BY <1>1, <1>2
-----------------------------------------------------------------------------
(* More evidence never softens the verdict.                                *)

LEMMA SignalFields ==
    ASSUME NEW s \in SignalSets
    PROVE  /\ s.phishing \in Nat /\ s.spam \in Nat /\ s.ip \in 0..100 /\ s.domain \in Int
           /\ s.behavior \in 0..100 /\ s.url \in 0..100 /\ s.bonus \in Nat
           /\ s.categories \in Nat /\ s.malware \in 0..100
           /\ s.patterns \in SUBSET Patterns
           /\ s.anomaly \in BOOLEAN /\ s.spoofed \in BOOLEAN /\ s.replyTo \in BOOLEAN
           /\ s.strong \in BOOLEAN
           /\ s.maliciousUrl \in BOOLEAN /\ s.maliciousFile \in BOOLEAN
  BY DEF SignalSets

LEMMA SumsGrow ==
    ASSUME NEW a \in Int, NEW b \in Int, NEW x \in Int, NEW y \in Int, a >= x, b >= y
    PROVE  a + b >= x + y
  OBVIOUS

LEMMA TiersGrow ==
    ASSUME NEW s \in SignalSets, NEW t \in SignalSets, AtLeast(s, t)
    PROVE  /\ Tier1(s) >= Tier1(t) /\ Tier2(s) >= Tier2(t)
           /\ BehaviorScore(s) >= BehaviorScore(t)
           /\ UrlThreat(s) >= UrlThreat(t)
  <1>1. Tier1(s) >= Tier1(t)
    <2>1. AuthPenalty(s.auth) >= AuthPenalty(t.auth)
      BY AuthPenaltyMonotone DEF AtLeast
    <2>2. ReputationScore(s.ip, s.domain) >= ReputationScore(t.ip, t.domain)
      BY SignalFields, ReputationMonotone DEF AtLeast
    <2>3. /\ AuthPenalty(s.auth) \in 0..50 /\ AuthPenalty(t.auth) \in 0..50
          /\ ReputationScore(s.ip, s.domain) \in 0..40
          /\ ReputationScore(t.ip, t.domain) \in 0..40
      BY SignalFields, AuthPenaltyType, ReputationType
    <2> DEFINE a == AuthPenalty(s.auth)
               x == AuthPenalty(t.auth)
               b == ReputationScore(s.ip, s.domain)
               y == ReputationScore(t.ip, t.domain)
    <2>4. a \in Int /\ b \in Int /\ x \in Int /\ y \in Int /\ a >= x /\ b >= y
      BY <2>1, <2>2, <2>3
    <2>5. Tier1(s) = a + b /\ Tier1(t) = x + y
      BY DEF Tier1
    <2> HIDE DEF a, b, x, y
    <2> QED
      BY <2>4, <2>5, SumsGrow
  <1>2. BehaviorScore(s) >= BehaviorScore(t)
    BY SignalFields DEF AtLeast, BehaviorScore, Lesser
  <1>3. Tier2(s) >= Tier2(t)
    <2>1. RuleScore(s.phishing, s.spam) >= RuleScore(t.phishing, t.spam)
      BY SignalFields, RuleScoreMonotone DEF AtLeast
    <2>2. /\ RuleScore(s.phishing, s.spam) \in 0..60 /\ RuleScore(t.phishing, t.spam) \in 0..60
          /\ BehaviorScore(s) \in 0..25 /\ BehaviorScore(t) \in 0..25
      BY SignalFields, RuleScoreType, TiersType
    <2> DEFINE a == RuleScore(s.phishing, s.spam)
               x == RuleScore(t.phishing, t.spam)
               b == BehaviorScore(s)
               y == BehaviorScore(t)
    <2>4. a \in Int /\ b \in Int /\ x \in Int /\ y \in Int /\ a >= x /\ b >= y
      BY <1>2, <2>1, <2>2
    <2>5. Tier2(s) = a + b /\ Tier2(t) = x + y
      BY DEF Tier2
    <2> HIDE DEF a, b, x, y
    <2> QED
      BY <2>4, <2>5, SumsGrow
  <1>4. UrlThreat(s) >= UrlThreat(t)
    BY SignalFields DEF AtLeast, UrlThreat, Lesser
  <1> QED
    BY <1>1, <1>2, <1>3, <1>4

LEMMA FinalScoreGrows ==
    ASSUME NEW s \in SignalSets, NEW t \in SignalSets, AtLeast(s, t)
    PROVE  FinalScore(s) >= FinalScore(t)
  <1>1. /\ Tier1(s) \in Nat /\ Tier1(t) \in Nat /\ Tier2(s) \in Nat /\ Tier2(t) \in Nat
        /\ UrlThreat(s) \in 0..30 /\ UrlThreat(t) \in 0..30
        /\ CorrelationBonus(s) \in Nat /\ CorrelationBonus(t) \in Nat
        /\ UrlDomainAmplifier(s) \in Nat /\ UrlDomainAmplifier(t) \in Nat
        /\ BecReplyToBonus(s) \in {0, 30} /\ BecReplyToBonus(t) \in {0, 30}
        /\ BehaviorScore(s) \in Nat /\ BehaviorScore(t) \in Nat
    BY TiersType
  <1>2. /\ Tier1(s) >= Tier1(t) /\ Tier2(s) >= Tier2(t) /\ UrlThreat(s) >= UrlThreat(t)
        /\ BehaviorScore(s) >= BehaviorScore(t)
    BY TiersGrow
  <1>3. CorrelationBonus(s) >= CorrelationBonus(t)
    <2>1. s.bonus \in Nat /\ t.bonus \in Nat /\ s.bonus >= t.bonus
      BY SignalFields DEF AtLeast
    <2> QED
      BY <1>1, <1>2, <2>1 DEF CorrelationBonus, Lesser
  <1>4. UrlDomainAmplifier(s) >= UrlDomainAmplifier(t)
    <2>1. t.spoofed => s.spoofed
      BY DEF AtLeast, Grows
    <2> QED
      BY <1>1, <1>2, <2>1 DEF UrlDomainAmplifier, Points, Lesser
  <1>5. BecReplyToBonus(s) >= BecReplyToBonus(t)
    <2>1. (t.anomaly => s.anomaly) /\ (t.replyTo => s.replyTo)
      BY DEF AtLeast, Grows
    <2> QED
      BY <1>1, <1>2, <2>1 DEF BecReplyToBonus, Points
  <1>6. Tier3(s) \in Nat /\ Tier3(t) \in Nat /\ Tier3(s) >= Tier3(t)
    BY <1>1, <1>2, <1>3, <1>4, <1>5 DEF Tier3
  <1> QED
    BY <1>1, <1>2, <1>6 DEF FinalScore, Lesser

LEMMA CorroborationGrows ==
    ASSUME NEW s \in SignalSets, NEW t \in SignalSets, AtLeast(s, t), Corroborated(t)
    PROVE  Corroborated(s)
  BY SignalFields DEF Corroborated, AtLeast, Grows

\* Above the threshold of PHISHING the deduction for a missing tier 1 only shrinks.
LEMMA ConfidenceGrows ==
    ASSUME NEW s \in SignalSets, NEW t \in SignalSets, AtLeast(s, t), FinalScore(t) >= 75
    PROVE  Confidence(s) >= Confidence(t)
  <1> DEFINE c(x) == Cardinality(x.patterns)
             k(x) == Cardinality(x.patterns \cap CriticalPatterns)
             both(x) == Points(Tier1(x) >= 20 /\ Tier2(x) >= 15, 15)
             less(x) == Points(FinalScore(x) >= 75 /\ Tier1(x) < 10, 20)
             raw(x) == 40 + Tier1Confidence(Tier1(x)) + Tier2Confidence(Tier2(x))
                          + both(x) + 5 * c(x) + 5 * k(x) - less(x)
  <1>1. /\ Tier1(s) \in Nat /\ Tier1(t) \in Nat /\ Tier2(s) \in Nat /\ Tier2(t) \in Nat
        /\ FinalScore(s) \in Nat /\ FinalScore(t) \in Nat
    BY TiersType
  <1>2. Tier1(s) >= Tier1(t) /\ Tier2(s) >= Tier2(t) /\ FinalScore(s) >= 75
    BY <1>1, TiersGrow, FinalScoreGrows
  <1>3. /\ c(s) \in Nat /\ c(t) \in Nat /\ c(s) >= c(t)
        /\ k(s) \in Nat /\ k(t) \in Nat /\ k(s) >= k(t)
    <2>1. s.patterns \in SUBSET Patterns /\ t.patterns \in SUBSET Patterns
      BY SignalFields
    <2>2. t.patterns \subseteq s.patterns
      BY DEF AtLeast
    <2>3. IsFiniteSet(s.patterns) /\ IsFiniteSet(s.patterns \cap CriticalPatterns)
      BY <2>1, PatternCounts
    <2>4. c(t) <= c(s)
      BY <2>2, <2>3, FS_Subset
    <2>5. k(t) <= k(s)
      <3>1. t.patterns \cap CriticalPatterns \subseteq s.patterns \cap CriticalPatterns
        BY <2>2
      <3> QED
        BY <3>1, <2>3, FS_Subset
    <2>6. c(s) \in Nat /\ c(t) \in Nat /\ k(s) \in Nat /\ k(t) \in Nat
      BY <2>1, PatternCounts
    <2> QED
      BY <2>4, <2>5, <2>6
  <1>4. /\ both(s) \in Nat /\ both(t) \in Nat /\ both(s) >= both(t)
        /\ less(s) \in Nat /\ less(t) \in Nat /\ less(s) <= less(t)
    BY <1>1, <1>2 DEF Points
  <1>5. /\ Tier1Confidence(Tier1(s)) \in Nat /\ Tier1Confidence(Tier1(t)) \in Nat
        /\ Tier1Confidence(Tier1(s)) >= Tier1Confidence(Tier1(t))
    BY <1>1, <1>2 DEF Tier1Confidence, Points
  <1>6. /\ Tier2Confidence(Tier2(s)) \in Nat /\ Tier2Confidence(Tier2(t)) \in Nat
        /\ Tier2Confidence(Tier2(s)) >= Tier2Confidence(Tier2(t))
    BY <1>1, <1>2 DEF Tier2Confidence, Points
  <1>7. /\ Confidence(s) = Lesser(95, Greater(10, raw(s)))
        /\ Confidence(t) = Lesser(95, Greater(10, raw(t)))
    BY DEF Confidence
  <1>8. raw(s) \in Int /\ raw(t) \in Int /\ raw(s) >= raw(t)
    <2> HIDE DEF c, k, both, less
    <2> QED
      BY <1>3, <1>4, <1>5, <1>6
  <1> HIDE DEF raw
  <1> QED
    BY <1>7, <1>8 DEF Lesser, Greater

LEMMA OverrideGrows ==
    ASSUME NEW s \in SignalSets, NEW t \in SignalSets, AtLeast(s, t),
           IsMalware(t) \/ t.maliciousUrl
    PROVE  IsMalware(s) \/ s.maliciousUrl
  BY SignalFields DEF AtLeast, Grows, IsMalware

LEMMA VerdictGrows ==
    ASSUME NEW s \in SignalSets, NEW t \in SignalSets, AtLeast(s, t)
    PROVE  /\ TierRank(ComputeRisk(s).tier) >= TierRank(ComputeRisk(t).tier)
           /\ ComputeRisk(s).tier = ComputeRisk(t).tier
                  /\ ComputeRisk(t).tier \in {"PHISHING", "MALICIOUS"} =>
                 ComputeRisk(s).confidence >= ComputeRisk(t).confidence
  <1>1. CASE IsMalware(s) \/ s.maliciousUrl
    <2>1. ComputeRisk(s).tier = "MALICIOUS" /\ ComputeRisk(s).confidence = 95
      BY <1>1 DEF ComputeRisk, MaliciousOverride
    <2>2. ComputeRisk(t).tier \in Tiers /\ ComputeRisk(t).confidence \in 10..95
      BY TierIsOfScore, ConfidenceType DEF ComputeRisk, MaliciousOverride, Tiers
    <2> QED
      BY <2>1, <2>2 DEF TierRank, Tiers
  <1>2. CASE ~(IsMalware(s) \/ s.maliciousUrl)
    <2>1. ~(IsMalware(t) \/ t.maliciousUrl)
      BY <1>2, OverrideGrows
    <2>2. /\ ComputeRisk(s).tier = RiskTier(s) /\ ComputeRisk(s).confidence = Confidence(s)
          /\ ComputeRisk(t).tier = RiskTier(t) /\ ComputeRisk(t).confidence = Confidence(t)
      BY <1>2, <2>1 DEF ComputeRisk
    <2>3. /\ FinalScore(s) \in 0..100 /\ FinalScore(t) \in 0..100
          /\ FinalScore(s) >= FinalScore(t)
      BY TiersType, FinalScoreGrows
    <2>4. Corroborated(t) => Corroborated(s)
      BY CorroborationGrows
    <2>5. TierRank(RiskTier(s)) >= TierRank(RiskTier(t))
      BY <2>3, <2>4, TierIsOfScore DEF TierRank, Tiers
    <2>6. RiskTier(t) \in {"PHISHING", "MALICIOUS"} => Confidence(s) >= Confidence(t)
      BY <2>3, TierIsOfScore, ConfidenceGrows
    <2> QED
      BY <2>2, <2>5, <2>6
  <1> QED
    BY <1>1, <1>2

LEMMA Severities ==
    /\ Severity("allow") = 0 /\ Severity("quarantine") = 1
    /\ Severity("block") = 2 /\ Severity("delete") = 3
  BY DEF Severity

LEMMA ActionGrows ==
    ASSUME NEW s \in SignalSets, NEW t \in SignalSets, AtLeast(s, t), Coherent(s), Coherent(t)
    PROVE  Severity(ComputeAction(ComputeRisk(s))) >= Severity(ComputeAction(ComputeRisk(t)))
  <1> DEFINE rs == ComputeRisk(s)
             rt == ComputeRisk(t)
             as == ComputeAction(ComputeRisk(s))
             at == ComputeAction(ComputeRisk(t))
  <1>1. /\ rs.tier \in Tiers /\ rt.tier \in Tiers
        /\ rs.confidence \in 10..95 /\ rt.confidence \in 10..95
    BY TierIsOfScore, ConfidenceType DEF ComputeRisk, MaliciousOverride, Tiers
  <1>2. /\ as \in Actions
        /\ rs.tier = "SAFE" => as = "allow"
        /\ rs.tier \in {"SPAM", "SUSPICIOUS"} => as = "quarantine"
        /\ rs.tier = "PHISHING" => as = IF rs.confidence >= 70 THEN "block" ELSE "quarantine"
        /\ rs.tier = "MALICIOUS" => as = IF rs.confidence >= 85 THEN "delete" ELSE "block"
    BY ActionOfTier
  <1>3. /\ at \in Actions
        /\ rt.tier = "SAFE" => at = "allow"
        /\ rt.tier \in {"SPAM", "SUSPICIOUS"} => at = "quarantine"
        /\ rt.tier = "PHISHING" => at = IF rt.confidence >= 70 THEN "block" ELSE "quarantine"
        /\ rt.tier = "MALICIOUS" => at = IF rt.confidence >= 85 THEN "delete" ELSE "block"
    BY ActionOfTier
  <1>4. /\ TierRank(rs.tier) >= TierRank(rt.tier)
        /\ rs.tier = rt.tier /\ rt.tier \in {"PHISHING", "MALICIOUS"} =>
              rs.confidence >= rt.confidence
    BY VerdictGrows
  <1> HIDE DEF rs, rt, as, at
  <1>5. CASE rt.tier = "SAFE"
    <2>1. at = "allow" /\ as \in {"allow", "quarantine", "block", "delete"}
      BY <1>2, <1>3, <1>5 DEF Actions
    <2> QED
      BY <2>1, Severities DEF as, at
  <1>6. CASE rt.tier \in {"SPAM", "SUSPICIOUS"}
    <2>1. rs.tier \in {"SPAM", "SUSPICIOUS", "PHISHING", "MALICIOUS"}
      BY <1>1, <1>4, <1>6 DEF TierRank, Tiers
    <2>2. as \in {"quarantine", "block", "delete"}
      BY <1>2, <2>1
    <2>3. at = "quarantine"
      BY <1>3, <1>6
    <2> QED
      BY <2>2, <2>3, Severities DEF as, at
  <1>7. CASE rt.tier = "PHISHING"
    <2>1. rs.tier \in {"PHISHING", "MALICIOUS"}
      BY <1>1, <1>4, <1>7 DEF TierRank, Tiers
    <2>2. CASE rs.tier = "PHISHING"
      <3>1. rs.confidence >= rt.confidence
        BY <1>4, <1>7, <2>2
      <3>2. CASE rt.confidence >= 70
        <4>1. rs.confidence >= 70
          BY <1>1, <3>1, <3>2
        <4>2. as = "block" /\ at = "block"
          BY <1>2, <1>3, <1>7, <2>2, <3>2, <4>1
        <4> QED
          BY <4>2, Severities DEF as, at
      <3>3. CASE ~(rt.confidence >= 70)
        <4>1. at = "quarantine" /\ as \in {"quarantine", "block"}
          BY <1>2, <1>3, <1>7, <2>2, <3>3
        <4> QED
          BY <4>1, Severities DEF as, at
      <3> QED
        BY <3>2, <3>3
    <2>3. CASE rs.tier = "MALICIOUS"
      <3>1. as \in {"block", "delete"} /\ at \in {"quarantine", "block"}
        BY <1>2, <1>3, <1>7, <2>3
      <3> QED
        BY <3>1, Severities DEF as, at
    <2> QED
      BY <2>1, <2>2, <2>3
  <1>8. CASE rt.tier = "MALICIOUS"
    <2>1. rs.tier = "MALICIOUS"
      BY <1>1, <1>4, <1>8 DEF TierRank, Tiers
    <2>2. rs.confidence >= rt.confidence
      BY <1>4, <1>8, <2>1
    <2>3. CASE rt.confidence >= 85
      <3>1. rs.confidence >= 85
        BY <1>1, <2>2, <2>3
      <3>2. as = "delete" /\ at = "delete"
        BY <1>2, <1>3, <1>8, <2>1, <2>3, <3>1
      <3> QED
        BY <3>2, Severities DEF as, at
    <2>4. CASE ~(rt.confidence >= 85)
      <3>1. at = "block" /\ as \in {"block", "delete"}
        BY <1>2, <1>3, <1>8, <2>1, <2>4
      <3> QED
        BY <3>1, Severities DEF as, at
    <2> QED
      BY <2>3, <2>4
  <1> QED
    BY <1>1, <1>5, <1>6, <1>7, <1>8 DEF Tiers

-----------------------------------------------------------------------------
(* The verdict.                                                            *)

LEMMA RiskType ==
    ASSUME NEW s \in SignalSets
    PROVE  ComputeRisk(s) \in Risks
  <1>1. CASE IsMalware(s) \/ s.maliciousUrl
    BY <1>1 DEF ComputeRisk, MaliciousOverride, Risks, Tiers
  <1>2. CASE ~(IsMalware(s) \/ s.maliciousUrl)
    <2>1. /\ RiskTier(s) \in Tiers /\ FinalScore(s) \in 0..100 /\ Confidence(s) \in 10..95
      BY TierIsOfScore, TiersType, ConfidenceType
    <2>2. /\ Lesser(100, s.phishing + CorrelationBonus(s)) \in 0..100
          /\ Lesser(100, s.spam) \in 0..100
      BY SignalFields, TiersType DEF Lesser
    <2> QED
      BY <1>2, <2>1, <2>2 DEF ComputeRisk, Risks
  <1> QED
    BY <1>1, <1>2

\* A verdict has a tier, a score up to 100, a confidence between 10 and 95 and one of
\* the four actions, whatever the signals (ScoringService, DecisionService).
THEOREM VerdictsAreTyped ==
    ASSUME NEW s \in SignalSets
    PROVE  ComputeRisk(s) \in Risks /\ ComputeAction(ComputeRisk(s)) \in Actions
  BY RiskType DEF ComputeAction, Actions

\* A mail judged anything but SAFE is never allowed through, whatever the signals: the
\* confidence that DecisionService.computeAction asks for comes with the score.
THEOREM ThreatsNeverAllowed ==
    ASSUME NEW s \in SignalSets, Coherent(s), ComputeRisk(s).tier # "SAFE"
    PROVE  ComputeAction(ComputeRisk(s)) # "allow"
  <1>1. ComputeRisk(s).tier \in Tiers
    BY RiskType DEF Risks
  <1> QED
    BY <1>1, ActionOfTier DEF Tiers

\* What a finished run leaves is the verdict of the signals it found, until the next.
Judged == action # "none" => risk = ComputeRisk(signals) /\ action = ComputeAction(risk)

LEMMA OnlyJudging ==
    ASSUME [Next]_vars
    PROVE  Judge \/ UNCHANGED verdict
  BY DEF Next, Step, CheckReputation, AnalyzeBehavior, AnalyzeUrls, FailStage, CloseWindow,
         RunRules, Amplify, ScanAnswers, ScanUnavailable, ScanFails, Rescan, vars, verdict

LEMMA JudgedAlways == Spec => []Judged
  <1>1. Init => Judged
    BY DEF Init, Judged
  <1>2. Judged /\ [Next]_vars => Judged'
    <2> SUFFICES ASSUME Judged, [Next]_vars PROVE Judged'
      OBVIOUS
    <2>1. CASE Judge
      BY <2>1 DEF Judge, Judged
    <2>2. CASE UNCHANGED verdict
      BY <2>2 DEF verdict, Judged
    <2> QED
      BY <2>1, <2>2, OnlyJudging
  <1> QED
    BY <1>1, <1>2, PTL DEF Spec

\* A later analysis of a mail that finds every signal at least as strong as the one
\* before never ends with a milder tier or action, whatever the signals.
THEOREM EvidenceAlwaysCounts == Spec => EvidenceNeverSoftens
  <1> DEFINE Harsher == action # "none" /\ Strengthened(signals, signals') =>
                           /\ TierRank(risk'.tier) >= TierRank(risk.tier)
                           /\ Severity(action') >= Severity(action)
  <1>1. Judged /\ [Next]_vars => [Harsher]_vars
    <2> SUFFICES ASSUME Judged, [Next]_vars, action # "none",
                        Strengthened(signals, signals')
                 PROVE  /\ TierRank(risk'.tier) >= TierRank(risk.tier)
                        /\ Severity(action') >= Severity(action)
      OBVIOUS
    <2>1. /\ signals \in SignalSets /\ signals' \in SignalSets
          /\ Coherent(signals) /\ Coherent(signals') /\ AtLeast(signals', signals)
      BY DEF Strengthened
    <2>2. risk = ComputeRisk(signals) /\ action = ComputeAction(ComputeRisk(signals))
      BY <2>1 DEF Judged
    <2>3. risk' = ComputeRisk(signals') /\ action' = ComputeAction(ComputeRisk(signals'))
      <3>1. CASE Judge
        BY <3>1 DEF Judge
      <3>2. CASE UNCHANGED verdict
        BY <2>2, <3>2 DEF verdict
      <3> QED
        BY <3>1, <3>2, OnlyJudging
    <2> QED
      BY <2>1, <2>2, <2>3, VerdictGrows, ActionGrows
  <1> QED
    BY <1>1, JudgedAlways, PTL DEF Spec, EvidenceNeverSoftens

-----------------------------------------------------------------------------
(* Sums over finite sets.  SumFunction folds a function by taking one      *)
(* element off its domain after another; any two such recursions agree     *)
(* where they meet, and one exists on every finite set: otherwise there    *)
(* were a smallest subset without.                                         *)
Pick(s) == CHOOSE x \in s : TRUE
Recursion(w, U, f) ==
    f = [s \in SUBSET U |-> IF s = {} THEN 0 ELSE w[Pick(s)] + f[s \ {Pick(s)}]]

LEMMA Picked ==
    ASSUME NEW s, s # {}
    PROVE  Pick(s) \in s
  BY DEF Pick

\* A set of subsets of a finite set has a minimal member.
LEMMA MinimalSubset ==
    ASSUME NEW S, IsFiniteSet(S), NEW T \in SUBSET (SUBSET S), T # {}
    PROVE  \E U \in T : \A V \in T : V \subseteq U => V = U
  <1>1. IsWellFoundedOn(StrictSubsetOrdering(S), SUBSET S)
    BY FS_StrictSubsetOrderingWellFounded, FS_FiniteSubsetsOfFinite
  <1>2. PICK U \in T : \A V \in T : ~(<<V, U>> \in StrictSubsetOrdering(S))
    BY <1>1, WFMin
  <1> QED
    BY <1>2 DEF StrictSubsetOrdering

LEMMA RecursionUnique ==
    ASSUME NEW S, IsFiniteSet(S), NEW w, NEW U \in SUBSET S, NEW V \in SUBSET S, NEW f, NEW g,
           Recursion(w, U, f), Recursion(w, V, g), NEW s \in SUBSET U, s \in SUBSET V
    PROVE  f[s] = g[s]
  <1> DEFINE T == {t \in SUBSET S : t \subseteq U /\ t \subseteq V /\ f[t] # g[t]}
  <1>1. SUFFICES ASSUME T # {} PROVE FALSE
    OBVIOUS
  <1>2. PICK t \in T : \A r \in T : r \subseteq t => r = t
    <2>1. T \in SUBSET (SUBSET S)
      OBVIOUS
    <2> HIDE DEF T
    <2> QED
      BY <1>1, <2>1, MinimalSubset
  <1>3. f[t] = IF t = {} THEN 0 ELSE w[Pick(t)] + f[t \ {Pick(t)}]
    BY DEF Recursion
  <1>4. g[t] = IF t = {} THEN 0 ELSE w[Pick(t)] + g[t \ {Pick(t)}]
    BY DEF Recursion
  <1>5. t # {}
    BY <1>3, <1>4
  <1>6. t \ {Pick(t)} \notin T
    BY <1>2, <1>5, Picked
  <1>7. f[t \ {Pick(t)}] = g[t \ {Pick(t)}]
    BY <1>6
  <1> QED
    BY <1>3, <1>4, <1>7

LEMMA RecursionExists ==
    ASSUME NEW S, IsFiniteSet(S), NEW w
    PROVE  \E f : Recursion(w, S, f)
  <1> DEFINE T == {U \in SUBSET S : ~\E f : Recursion(w, U, f)}
  <1>1. SUFFICES ASSUME T # {} PROVE FALSE
    OBVIOUS
  <1>2. PICK U \in T : \A V \in T : V \subseteq U => V = U
    <2>1. T \in SUBSET (SUBSET S)
      OBVIOUS
    <2> HIDE DEF T
    <2> QED
      BY <1>1, <2>1, MinimalSubset
  <1> DEFINE g(V) == CHOOSE f : Recursion(w, V, f)
             rest == U \ {Pick(U)}
             h == [s \in SUBSET U |->
                      IF s = U
                      THEN IF U = {} THEN 0 ELSE w[Pick(U)] + g(rest)[rest]
                      ELSE g(s)[s]]
  <1>3. ASSUME NEW V \in SUBSET U, V # U PROVE Recursion(w, V, g(V))
    BY <1>2, <1>3
  <1> HIDE DEF g
  <1>4. ASSUME NEW s \in SUBSET U
        PROVE  h[s] = IF s = {} THEN 0 ELSE w[Pick(s)] + h[s \ {Pick(s)}]
    <2>1. CASE s = U
      <3>1. CASE U = {}
        BY <2>1, <3>1
      <3>2. CASE U # {}
        <4>1. rest # U /\ rest \in SUBSET U
          BY <3>2, Picked
        <4>2. h[rest] = g(rest)[rest]
          BY <4>1
        <4> QED
          BY <2>1, <3>2, <4>2
      <3> QED
        BY <3>1, <3>2
    <2>2. CASE s # U
      <3>1. h[s] = g(s)[s]
        BY <2>2
      <3>2. Recursion(w, s, g(s))
        BY <1>3, <2>2
      <3>3. g(s)[s] = IF s = {} THEN 0 ELSE w[Pick(s)] + g(s)[s \ {Pick(s)}]
        BY <3>2 DEF Recursion
      <3>4. CASE s = {}
        BY <3>1, <3>3, <3>4
      <3>5. CASE s # {}
        <4> DEFINE r == s \ {Pick(s)}
        <4>1. r \in SUBSET s /\ r \in SUBSET U /\ r # U
          BY <3>5, Picked
        <4>2. Recursion(w, r, g(r)) /\ h[r] = g(r)[r]
          BY <1>3, <4>1
        <4>3. g(s)[r] = g(r)[r]
          <5>1. s \in SUBSET S /\ r \in SUBSET S /\ r \in SUBSET r
            BY <1>2, <4>1
          <5> HIDE DEF r
          <5> QED
            BY <3>2, <4>1, <4>2, <5>1, RecursionUnique
        <4> QED
          BY <3>1, <3>3, <3>5, <4>2, <4>3
      <3> QED
        BY <3>4, <3>5
    <2> QED
      BY <2>1, <2>2
  <1>5. h = [s \in SUBSET U |-> IF s = {} THEN 0 ELSE w[Pick(s)] + h[s \ {Pick(s)}]]
    <2>1. h = [s \in SUBSET U |-> h[s]]
      OBVIOUS
    <2> HIDE DEF h
    <2> QED
      BY <1>4, <2>1
  <1>6. Recursion(w, U, h)
    <2> HIDE DEF h
    <2> QED BY <1>5 DEF Recursion
  <1> QED
    BY <1>2, <1>6

LEMMA SumIsRecursive ==
    ASSUME NEW w, IsFiniteSet(DOMAIN w)
    PROVE  \E f : Recursion(w, DOMAIN w, f) /\ SumFunction(w) = f[DOMAIN w]
  <1> DEFINE f == CHOOSE f : Recursion(w, DOMAIN w, f)
  <1>1. Recursion(w, DOMAIN w, f)
    BY RecursionExists
  <1>2. SumFunction(w) = f[DOMAIN w]
    BY DEF SumFunction, SumFunctionOnSet, FoldFunctionOnSet, MapThenFoldSet, Recursion, Pick
  <1> HIDE DEF f
  <1> QED
    BY <1>1, <1>2

\* A sum of natural numbers is one, and at least each of them.
LEMMA Sums ==
    ASSUME NEW w, IsFiniteSet(DOMAIN w), \A x \in DOMAIN w : w[x] \in Nat
    PROVE  /\ SumFunction(w) \in Nat
           /\ \A x \in DOMAIN w : SumFunction(w) >= w[x]
           /\ DOMAIN w = {} => SumFunction(w) = 0
  <1>1. PICK f : Recursion(w, DOMAIN w, f) /\ SumFunction(w) = f[DOMAIN w]
    BY SumIsRecursive
  <1> DEFINE Good(s) == f[s] \in Nat /\ \A x \in s : f[s] >= w[x]
             T == {s \in SUBSET DOMAIN w : ~Good(s)}
  <1>2. ASSUME NEW s \in SUBSET DOMAIN w
        PROVE  f[s] = IF s = {} THEN 0 ELSE w[Pick(s)] + f[s \ {Pick(s)}]
    BY <1>1 DEF Recursion
  <1>3. T = {}
    <2>1. SUFFICES ASSUME T # {} PROVE FALSE
      OBVIOUS
    <2>2. PICK s \in T : \A r \in T : r \subseteq s => r = s
      <3>1. T \in SUBSET (SUBSET DOMAIN w)
        OBVIOUS
      <3> HIDE DEF T
      <3> QED
        BY <2>1, <3>1, MinimalSubset
    <2>3. s # {}
      <3>1. ~Good(s) /\ s \in SUBSET DOMAIN w
        BY <2>2
      <3>2. s = {} => f[s] = 0
        BY <1>2, <3>1
      <3> QED
        BY <3>1, <3>2
    <2>4. Pick(s) \in s /\ s \ {Pick(s)} # s /\ s \ {Pick(s)} \in SUBSET DOMAIN w
      BY <2>3, Picked
    <2>5. Good(s \ {Pick(s)})
      BY <2>2, <2>4
    <2>6. w[Pick(s)] \in Nat /\ f[s] = w[Pick(s)] + f[s \ {Pick(s)}]
      BY <1>2, <2>3, <2>4
    <2>7. ASSUME NEW x \in s PROVE f[s] >= w[x]
      <3>1. CASE x = Pick(s)
        BY <2>5, <2>6, <3>1
      <3>2. CASE x # Pick(s)
        <4>1. f[s \ {Pick(s)}] >= w[x] /\ w[x] \in Nat
          BY <2>5, <3>2
        <4> QED BY <2>5, <2>6, <4>1
      <3> QED BY <3>1, <3>2
    <2>8. f[s] \in Nat
      BY <2>5, <2>6
    <2>9. Good(s)
      BY <2>7, <2>8
    <2> QED
      BY <2>2, <2>9
  <1>4. Good(DOMAIN w)
    BY <1>3
  <1>5. DOMAIN w = {} => f[DOMAIN w] = 0
    BY <1>2
  <1> QED
    BY <1>1, <1>4, <1>5

-----------------------------------------------------------------------------
(* What the stages find is typed.                                          *)

Inputs == {Input(m) : m \in Mails}
Reputations == [ip : IpSets, domain : Int, age : Nat \cup {Unknown}, newly : BOOLEAN]
Behaviors == [count : Nat, score : 0..100, anomaly : BOOLEAN]
UrlResults == [total : 0..100, malicious : BOOLEAN, ip : BOOLEAN, short : BOOLEAN]
Contexts == [m : Inputs, auth : Auths, rep : Reputations, beh : Behaviors, url : UrlResults]

LEMMA MailFields ==
    ASSUME NEW m, IsMail(m)
    PROVE  /\ m.caller \in {"processor", "test"} /\ m.cues \in SUBSET Cues /\ m.bec \in 0..10
           /\ m.sender \in Senders /\ m.bare \in BOOLEAN /\ m.headers \in HeaderSets
           /\ m.past.count \in Nat /\ m.past.flagged \in Nat /\ m.past.cues \in SUBSET Cues
           /\ m.ip \in IpSets /\ m.whois \in Nat \cup {Unknown} /\ m.domain \in Int
           /\ m.urls \in Seq([cues : SUBSET LinkCues, feed : Feeds])
           /\ m.files \in Seq([kind : FileKinds, report : Reports])
  BY DEF IsMail

LEMMA InputType ==
    ASSUME NEW n \in Mails
    PROVE  /\ IsMail(n) /\ IsMail(Input(n)) /\ Input(n) \in Inputs
           /\ Input(n).caller = n.caller /\ Input(n).cues = n.cues /\ Input(n).bec = n.bec
           /\ Input(n).sender = n.sender /\ Input(n).bare = n.bare /\ Input(n).past = n.past
           /\ Input(n).ip = n.ip /\ Input(n).whois = n.whois /\ Input(n).domain = n.domain
           /\ Input(n).urls = n.urls /\ Input(n).files = n.files
           /\ Input(n).headers \in {n.headers, NoHeaders}
  <1>1. IsMail(n)
    BY DetectionAssumption
  <1>2. NoHeaders \in HeaderSets
    BY DEF NoHeaders, HeaderSets, Absent
  <1>3. Input(n) = n \/ Input(n) = [n EXCEPT !.headers = NoHeaders]
    BY DEF Input
  <1>4. n = [caller |-> n.caller, cues |-> n.cues, bec |-> n.bec, sender |-> n.sender,
             bare |-> n.bare, headers |-> n.headers, past |-> n.past, ip |-> n.ip,
             whois |-> n.whois, domain |-> n.domain, urls |-> n.urls, files |-> n.files]
    BY <1>1 DEF IsMail
  <1>5. CASE Input(n) = n
    BY <1>1, <1>5 DEF Inputs
  <1>6. CASE Input(n) = [n EXCEPT !.headers = NoHeaders]
    <2>1. IsMail([n EXCEPT !.headers = NoHeaders])
      BY <1>1, <1>2 DEF IsMail
    <2> QED
      BY <1>1, <1>4, <1>6, <2>1 DEF Inputs
  <1> QED
    BY <1>3, <1>5, <1>6

LEMMA AuthType ==
    ASSUME NEW m, m.headers \in HeaderSets
    PROVE  AuthSignals(m) \in Auths
  <1> DEFINE h == m.headers
  <1>1. h \in HeaderSets
    OBVIOUS
  <1> HIDE DEF h
  <1>2. ParseSpf(h) \in AuthStatuses
    BY <1>1 DEF ParseSpf, HeaderSets, AuthStatuses
  <1>3. ParseDkim(h) \in AuthStatuses
    BY <1>1 DEF ParseDkim, HeaderSets, AuthStatuses
  <1>4. ParseDmarc(h) \in AuthStatuses
    BY <1>1 DEF ParseDmarc, HeaderSets, AuthStatuses
  <1> QED
    BY <1>2, <1>3, <1>4 DEF AuthSignals, Auths, h

LEMMA ReputationSignalsType ==
    ASSUME NEW m, IsMail(m), NEW answered \in BOOLEAN
    PROVE  ReputationSignals(m, answered) \in Reputations /\ UnknownReputation \in Reputations
  <1>1. m.ip \in IpSets /\ UnknownIp \in IpSets /\ m.domain \in Int /\ m.whois \in Nat \cup {-1}
        /\ m.headers.received \in BOOLEAN
    BY MailFields DEF UnknownIp, IpSets, Unknown, HeaderSets
  <1>2. DomainAge(m, answered) \in Nat
    BY <1>1 DEF DomainAge, Unknown
  <1> DEFINE ip == IF m.headers.received THEN m.ip ELSE UnknownIp
             domain == IF m.sender # "none" THEN m.domain ELSE 0
             age == IF m.sender # "none" THEN DomainAge(m, answered) ELSE Unknown
             newly == m.sender # "none" /\ answered /\ m.whois \in 0..29
  <1>3. ip \in IpSets /\ domain \in Int /\ age \in Nat \cup {Unknown} /\ newly \in BOOLEAN
    BY <1>1, <1>2
  <1>4. ReputationSignals(m, answered) = [ip |-> ip, domain |-> domain, age |-> age, newly |-> newly]
    BY DEF ReputationSignals
  <1> HIDE DEF ip, domain, age, newly
  <1>5. ReputationSignals(m, answered) \in Reputations
    BY <1>3, <1>4 DEF Reputations
  <1>6. UnknownReputation \in Reputations
    BY <1>1 DEF UnknownReputation, Reputations
  <1> QED
    BY <1>5, <1>6

LEMMA SmallSets ==
    ASSUME NEW a, NEW b, NEW c, NEW d, NEW e, NEW f, NEW g
    PROVE  IsFiniteSet({a, b, c, d, e, f, g})
  <1> DEFINE three(x, y, z) == {x} \cup {y} \cup {z}
  <1>1. ASSUME NEW x, NEW y, NEW z PROVE IsFiniteSet(three(x, y, z))
    BY FS_Singleton, FS_Union
  <1>2. {a, b, c, d, e, f, g} = three(a, b, c) \cup three(d, e, f) \cup three(g, g, g)
    OBVIOUS
  <1>3. /\ IsFiniteSet(three(a, b, c)) /\ IsFiniteSet(three(d, e, f))
        /\ IsFiniteSet(three(g, g, g))
    BY <1>1
  <1> HIDE DEF three
  <1>4. IsFiniteSet(three(a, b, c) \cup three(d, e, f))
    BY <1>3, FS_Union
  <1> QED
    BY <1>2, <1>3, <1>4, FS_Union

\* What the history adds: the same whatever the flag, or more.
\* What a text contradicts of a topic.
Anomalies(m, topic) == {b \in AnomalyMatrix : b[1] = topic /\ b[2] \in m.cues}

LEMMA AnomalySum ==
    ASSUME NEW m, NEW topic
    PROVE  LET sum == SumFunction([a \in Anomalies(m, topic) |-> a[3]])
           IN  sum \in Nat /\ (Anomalies(m, topic) = {} => sum = 0)
  <1> DEFINE S == Anomalies(m, topic)
             w == [a \in S |-> a[3]]
  <1>1. IsFiniteSet(AnomalyMatrix)
    <2>1. AnomalyMatrix =
            {<<"newsletter", "bec", 45>>, <<"order", "phish", 35>>, <<"support", "phish", 30>>,
             <<"regular", "bec", 30>>, <<"hr_internal", "bec", 40>>, <<"invoice", "newWire", 35>>,
             <<"invoice", "newWire", 35>>}
      BY DEF AnomalyMatrix
    <2> QED
      BY <2>1, SmallSets
  <1>2. S \in SUBSET AnomalyMatrix /\ IsFiniteSet(S)
    BY <1>1, FS_Subset DEF Anomalies
  <1>3. \A a \in S : a[3] \in Nat
    BY <1>2 DEF AnomalyMatrix
  <1> HIDE DEF S
  <1>4. DOMAIN w = S /\ \A a \in DOMAIN w : w[a] \in Nat
    BY <1>3
  <1> HIDE DEF w
  <1>5. SumFunction(w) \in Nat /\ (S = {} => SumFunction(w) = 0)
    BY <1>2, <1>4, Sums
  <1> QED
    BY <1>5 DEF w, S

LEMMA AnomalyScoreType ==
    ASSUME NEW m, NEW topic, NEW count \in Nat, NEW flagged \in Nat, NEW more \in Nat,
           flagged <= more
    PROVE  /\ AnomalyScore(m, topic, count, flagged) \in 0..100
           /\ AnomalyScore(m, topic, count, flagged) <= AnomalyScore(m, topic, count, more)
           /\ AnomalyScore(m, topic, count, flagged) >= Lesser(20, 7 * flagged)
           /\ m.cues = {} /\ ~HasAttachment(m) => AnomalyScore(m, topic, count, flagged) <= 20
  <1> DEFINE S == Anomalies(m, topic)
             w == [a \in S |-> a[3]]
  <1>1. SumFunction(w) \in Nat /\ (S = {} => SumFunction(w) = 0)
    BY AnomalySum
  <1>2. m.cues = {} => S = {}
    BY DEF Anomalies
  <1> DEFINE sum == SumFunction(w)
             extra == Points(HasAttachment(m) /\ count >= 5, 15)
  <1>3. /\ AnomalyScore(m, topic, count, flagged) = Lesser(100, sum + Lesser(20, 7 * flagged) + extra)
        /\ AnomalyScore(m, topic, count, more) = Lesser(100, sum + Lesser(20, 7 * more) + extra)
    BY DEF AnomalyScore, Anomalies
  <1>4. sum \in Nat /\ extra \in {0, 15} /\ (~HasAttachment(m) => extra = 0)
        /\ (m.cues = {} => sum = 0)
    BY <1>1, <1>2 DEF Points
  <1> HIDE DEF sum, extra
  <1> QED
    BY <1>3, <1>4 DEF Lesser

LEMMA NewSenderType ==
    ASSUME NEW m
    PROVE  /\ NewSenderSignals(m) \in Behaviors
           /\ m.cues = {} /\ ~HasAttachment(m) => NewSenderSignals(m).score = 0
  BY DEF NewSenderSignals, NewSenderScore, Behaviors, Points

\* The mail's own flagged row only adds to what the behaviour stage finds.
LEMMA BehaviorSignalsType ==
    ASSUME NEW m, IsMail(m), NEW stored \in BOOLEAN, NEW flag \in BOOLEAN
    PROVE  /\ BehaviorSignals(m, stored, flag) \in Behaviors
           /\ BehaviorSignals(m, stored, TRUE).count = BehaviorSignals(m, stored, FALSE).count
           /\ BehaviorSignals(m, stored, TRUE).score >= BehaviorSignals(m, stored, FALSE).score
           /\ BehaviorSignals(m, stored, FALSE).anomaly => BehaviorSignals(m, stored, TRUE).anomaly
           /\ m.cues = {} /\ ~HasAttachment(m) => BehaviorSignals(m, stored, flag).score <= 20
  <1> DEFINE count == Lesser(30, m.past.count + Points(stored, 1))
             topic == InferTopic(m.past.cues \cup (IF stored THEN m.cues ELSE {}), count)
             low == AnomalyScore(m, topic, count, m.past.flagged)
             high == AnomalyScore(m, topic, count, m.past.flagged + 1)
             plain == [count |-> count, score |-> low, anomaly |-> low >= 20]
             own == [count |-> count, score |-> high, anomaly |-> high >= 20]
             new == ~m.bare \/ m.sender = "none" \/ count = 0
  <1>1. m.past.count \in Nat /\ m.past.flagged \in Nat
    BY MailFields
  <1>2. count \in Nat
    BY <1>1 DEF Lesser, Points
  <1>3. /\ BehaviorSignals(m, stored, FALSE) = IF new THEN NewSenderSignals(m) ELSE plain
        /\ BehaviorSignals(m, stored, TRUE) = IF new THEN NewSenderSignals(m) ELSE own
    BY <1>1 DEF BehaviorSignals, Points
  <1> HIDE DEF count, topic, new
  <1>4. /\ low \in 0..100 /\ high \in 0..100 /\ low <= high
        /\ m.cues = {} /\ ~HasAttachment(m) => low <= 20 /\ high <= 20
    <2>1. PICK f \in Nat : f = m.past.flagged
      BY <1>1
    <2>2. /\ AnomalyScore(m, topic, count, f) \in 0..100
          /\ AnomalyScore(m, topic, count, f) <= AnomalyScore(m, topic, count, f + 1)
          /\ m.cues = {} /\ ~HasAttachment(m) => AnomalyScore(m, topic, count, f) <= 20
      BY <1>2, AnomalyScoreType
    <2>3. /\ AnomalyScore(m, topic, count, f + 1) \in 0..100
          /\ m.cues = {} /\ ~HasAttachment(m) => AnomalyScore(m, topic, count, f + 1) <= 20
      BY <1>2, AnomalyScoreType
    <2> QED
      BY <2>1, <2>2, <2>3
  <1> HIDE DEF low, high
  <1>5. /\ plain \in Behaviors /\ own \in Behaviors /\ plain.count = own.count
        /\ own.score >= plain.score /\ (plain.anomaly => own.anomaly)
        /\ m.cues = {} /\ ~HasAttachment(m) => plain.score <= 20 /\ own.score <= 20
    <2>1. (low >= 20) \in BOOLEAN /\ (high >= 20) \in BOOLEAN /\ (low >= 20 => high >= 20)
      BY <1>4
    <2>2. plain \in Behaviors /\ own \in Behaviors
      BY <1>2, <1>4, <2>1 DEF Behaviors
    <2>3. plain.score = low /\ own.score = high /\ plain.anomaly = (low >= 20)
          /\ own.anomaly = (high >= 20) /\ plain.count = own.count
      OBVIOUS
    <2> HIDE DEF plain, own
    <2> QED
      BY <1>4, <2>1, <2>2, <2>3
  <1> HIDE DEF plain, own
  <1>6. /\ NewSenderSignals(m) \in Behaviors /\ NewSenderSignals(m).score \in Nat
        /\ m.cues = {} /\ ~HasAttachment(m) => NewSenderSignals(m).score = 0
    <2>1. NewSenderSignals(m) \in [count : Nat, score : 0..100, anomaly : BOOLEAN]
      BY NewSenderType DEF Behaviors
    <2> QED
      BY <2>1, NewSenderType
  <1>7. CASE new
    <2>1. /\ BehaviorSignals(m, stored, TRUE) = NewSenderSignals(m)
          /\ BehaviorSignals(m, stored, FALSE) = NewSenderSignals(m)
      BY <1>3, <1>7
    <2>2. BehaviorSignals(m, stored, flag) = NewSenderSignals(m)
      <3>1. CASE flag = TRUE
        BY <2>1, <3>1
      <3>2. CASE flag = FALSE
        BY <2>1, <3>2
      <3> QED
        BY <3>1, <3>2
    <2>3. NewSenderSignals(m).score >= NewSenderSignals(m).score
      BY <1>6
    <2>4. BehaviorSignals(m, stored, FALSE).anomaly => BehaviorSignals(m, stored, TRUE).anomaly
      BY <2>1
    <2>5. /\ BehaviorSignals(m, stored, flag) \in Behaviors
          /\ m.cues = {} /\ ~HasAttachment(m) => BehaviorSignals(m, stored, flag).score <= 20
      BY <1>6, <2>2
    <2>6. /\ BehaviorSignals(m, stored, TRUE).count = BehaviorSignals(m, stored, FALSE).count
          /\ BehaviorSignals(m, stored, TRUE).score >= BehaviorSignals(m, stored, FALSE).score
      BY <2>1, <2>3
    <2> QED
      BY <2>4, <2>5, <2>6
  <1>8. CASE ~new
    BY <1>3, <1>5, <1>8
  <1> QED
    BY <1>7, <1>8

-----------------------------------------------------------------------------
(* What is found in the links.                                             *)
LEMMA LargestOf ==
    ASSUME NEW S, IsFiniteSet(S), \A x \in S : x \in Int, S # {}
    PROVE  Max(S) \in S /\ \A y \in S : Max(S) >= y
  <1> DEFINE above(x) == {y \in S : y > x}
             T == {above(x) : x \in S}
  <1>1. PICK x \in S : \A y \in S : above(y) \subseteq above(x) => above(y) = above(x)
    <2>2. T \in SUBSET (SUBSET S) /\ T # {}
      OBVIOUS
    <2>3. PICK U \in T : \A V \in T : V \subseteq U => V = U
      <3> HIDE DEF T, above
      <3> QED
        BY <2>2, MinimalSubset
    <2>4. PICK x \in S : U = above(x)
      OBVIOUS
    <2>5. \A y \in S : above(y) \in T
      OBVIOUS
    <2> HIDE DEF above
    <2> QED
      BY <2>3, <2>4, <2>5
  <1>3. \A y \in S : x >= y
    <2> SUFFICES ASSUME NEW y \in S, ~(x >= y) PROVE FALSE
      OBVIOUS
    <2>1. y > x
      OBVIOUS
    <2>2. ASSUME NEW z \in above(y) PROVE z \in above(x)
      <3>1. z \in S /\ z > y /\ z \in Int /\ y \in Int /\ x \in Int
        BY <2>2
      <3> QED
        BY <2>1, <3>1
    <2>3. y \in above(x) /\ y \notin above(y)
      BY <2>1
    <2> QED
      BY <1>1, <2>2, <2>3
  <1> QED
    BY <1>3 DEF Max

Link == [cues : SUBSET LinkCues, feed : Feeds]

LEMMA UrlScoreType ==
    ASSUME NEW u \in Link
    PROVE  UrlScore(u) \in 0..100
  <1> DEFINE S == u.cues \cap DOMAIN UrlPoints
             w == [c \in S |-> UrlPoints[c]]
  <1>1. /\ DOMAIN UrlPoints = {"ip", "short", "homoglyph", "tld", "base64", "redirect", "brandSubdomain"}
        /\ \A c \in DOMAIN UrlPoints : UrlPoints[c] \in Nat
    BY DEF UrlPoints
  <1>2. IsFiniteSet(S)
    BY <1>1, SmallSets, FS_Subset
  <1>3. SumFunction(w) \in Nat
    <2>1. DOMAIN w = S /\ \A c \in DOMAIN w : w[c] \in Nat
      BY <1>1
    <2> HIDE DEF w, S
    <2> QED
      BY <1>2, <2>1, Sums
  <1>4. HeuristicScore(u) = Lesser(80, SumFunction(w))
    BY DEF HeuristicScore
  <1>5. u.feed.score \in 0..100
    BY DEF Link, Feeds
  <1> HIDE DEF w
  <1> QED
    BY <1>3, <1>4, <1>5 DEF UrlScore, Lesser, Greater

LEMMA ShortHalvesAreHigh ==
    ASSUME NEW h, NEW a, <<h, a>> \in ShortHalves
    PROVE  h \in 6..39
  BY DEF ShortHalves

LEMMA UrlSignalsType ==
    ASSUME NEW m, IsMail(m)
    PROVE  UrlSignals(m) \in UrlResults /\ (m.urls = <<>> => UrlSignals(m) = NoUrls)
  <1>1. m.urls \in Seq(Link)
    BY MailFields DEF Link
  <1>2. NoUrls \in UrlResults
    BY DEF NoUrls, UrlResults
  <1>3. Lesser(30, Len(m.urls)) \in 0..Len(m.urls)
    BY <1>1 DEF Lesser
  <1> DEFINE urls == SubSeq(m.urls, 1, Lesser(30, Len(m.urls)))
  <1>4. urls \in Seq(Link) /\ (m.urls = <<>> => urls = <<>>)
    BY <1>1, <1>3
  <1>5. UrlSignals(m) = IF urls = <<>> \/ \E i \in DOMAIN urls : "malformed" \in urls[i].cues
                        THEN NoUrls ELSE AggregateUrls(urls)
    BY DEF UrlSignals
  <1> HIDE DEF urls
  <1>6. ASSUME urls # <<>> PROVE AggregateUrls(urls) \in UrlResults
    <2> DEFINE n == Len(urls)
               score == [i \in 1..n |-> UrlScore(urls[i])]
               highest == Max({score[i] : i \in 1..n})
               average == (2 * SumFunction(score) + n) \div (2 * n)
               total == Lesser(100, (7 * highest + 3 * average + 5) \div 10
                                       - Points(<<highest, average>> \in ShortHalves, 1))
               malicious == \E i \in 1..n : UrlVerdict(urls[i]) = "malicious"
               ip == \E i \in 1..n : "ip" \in urls[i].cues
               short == \E i \in 1..n : "short" \in urls[i].cues
    <2>1. n \in Nat \ {0}
      BY <1>4, <1>6
    <2>2. \A i \in 1..n : score[i] \in 0..100
      <3> TAKE i \in 1..n
      <3>1. urls[i] \in Link
        BY <1>4
      <3>2. UrlScore(urls[i]) \in 0..100
        BY <3>1, UrlScoreType
      <3> QED
        BY <3>2
    <2>3. highest \in 0..100
      <3> DEFINE S == {score[i] : i \in 1..n}
      <3>1. S \in SUBSET (0..100) /\ score[1] \in S
        <4> HIDE DEF score, n
        <4> QED
          BY <2>1, <2>2
      <3>2. IsFiniteSet(0..100)
        <4>1. 0 \in Int /\ 100 \in Int
          OBVIOUS
        <4> QED
          BY <4>1, FS_Interval
      <3>3. IsFiniteSet(S)
        BY <3>1, <3>2, FS_Subset
      <3>4. Max(S) \in S
        <4> HIDE DEF S
        <4>1. S # {} /\ \A x \in S : x \in Int
          BY <3>1
        <4> QED
          BY <3>3, <4>1, LargestOf
      <3> QED
        BY <3>1, <3>4
    <2>4. SumFunction(score) \in Nat
      <3>1. DOMAIN score = 1..n
        OBVIOUS
      <3> HIDE DEF score, n
      <3>2. IsFiniteSet(1..n)
        BY <2>1, FS_Interval
      <3>3. \A i \in DOMAIN score : score[i] \in Nat
        <4> TAKE i \in DOMAIN score
        <4>1. score[i] \in 0..100
          BY <2>2, <3>1
        <4> QED
          BY <4>1
      <3> QED
        BY <3>1, <3>2, <3>3, Sums
    <2>5. average \in Nat
      <3>1. ASSUME NEW a \in Nat, NEW b \in Nat \ {0} PROVE (2 * a + b) \div (2 * b) \in Nat
        BY <3>1
      <3> HIDE DEF n, score
      <3> QED
        BY <2>1, <2>4, <3>1
    <2>6. AggregateUrls(urls) = [total |-> total, malicious |-> malicious, ip |-> ip, short |-> short]
      BY DEF AggregateUrls
    <2> HIDE DEF highest, average, n, score
    <2>7. total \in 0..100
      <3>1. CASE <<highest, average>> \in ShortHalves
        <4>1. highest \in 6..39
          BY <3>1, ShortHalvesAreHigh
        <4>2. (7 * highest + 3 * average + 5) \div 10 \in Nat \ {0}
          BY <2>5, <4>1
        <4> QED
          BY <3>1, <4>2 DEF Lesser, Points
      <3>2. CASE <<highest, average>> \notin ShortHalves
        <4>1. (7 * highest + 3 * average + 5) \div 10 \in Nat
          BY <2>3, <2>5
        <4> QED
          BY <3>2, <4>1 DEF Lesser, Points
      <3> QED
        BY <3>1, <3>2
    <2>8. malicious \in BOOLEAN /\ ip \in BOOLEAN /\ short \in BOOLEAN
      OBVIOUS
    <2> HIDE DEF total, malicious, ip, short
    <2> QED
      BY <2>6, <2>7, <2>8 DEF UrlResults
  <1>7. CASE urls = <<>> \/ \E i \in DOMAIN urls : "malformed" \in urls[i].cues
    BY <1>2, <1>5, <1>7
  <1>8. CASE ~(urls = <<>> \/ \E i \in DOMAIN urls : "malformed" \in urls[i].cues)
    BY <1>4, <1>5, <1>6, <1>8
  <1> QED
    BY <1>7, <1>8, <1>4

-----------------------------------------------------------------------------
(* What the rules score.                                                   *)

RuleNames ==
    {"sender_display_name_mismatch", "display_name_impersonation", "disposable_sender_domain",
     "reply_to_domain_mismatch", "first_contact_sender_risk", "suspicious_received_headers",
     "email_auth_failure"} \cup
    {"ip_based_url", "shortened_url", "malicious_url_reputation", "urgent_phishing_language",
     "bec_language_detected", "credential_harvesting_attempt", "excessive_capitalization"} \cup
    {"excessive_exclamation_marks", "risky_attachment_detected", "conversation_hijacking_attempt",
     "homoglyph_domain_spoofing", "lookalike_domain_attack", "brand_abuse_in_body",
     "html_obfuscation_phishing"} \cup
    {"base64_encoded_url", "newly_registered_domain", "newly_registered_domain",
     "newly_registered_domain", "newly_registered_domain", "newly_registered_domain",
     "newly_registered_domain"}

LEMMA Registry ==
    ASSUME NEW c
    PROVE  DOMAIN RuleScores(c) = RuleNames /\ IsFiniteSet(RuleNames)
  <1>1. DOMAIN RuleScores(c) = RuleNames
    BY DEF RuleScores, RuleNames
  <1>2. IsFiniteSet(RuleNames)
    BY SmallSets, FS_Union DEF RuleNames
  <1> QED
    BY <1>1, <1>2

LEMMA ContextFields ==
    ASSUME NEW c \in Contexts
    PROVE  /\ IsMail(c.m) /\ c.auth \in Auths
           /\ c.rep.ip \in IpSets /\ c.rep.domain \in Int /\ c.rep.age \in Nat \cup {Unknown}
           /\ c.rep.newly \in BOOLEAN
           /\ c.beh.count \in Nat /\ c.beh.score \in 0..100 /\ c.beh.anomaly \in BOOLEAN
           /\ c.url.total \in 0..100 /\ c.url.malicious \in BOOLEAN
           /\ c.url.ip \in BOOLEAN /\ c.url.short \in BOOLEAN
  <1>1. c.m \in Inputs /\ c.auth \in Auths /\ c.rep \in Reputations /\ c.beh \in Behaviors
        /\ c.url \in UrlResults
    BY DEF Contexts
  <1>2. IsMail(c.m)
    BY <1>1, InputType DEF Inputs
  <1> QED
    BY <1>1, <1>2 DEF Reputations, Behaviors, UrlResults

LEMMA RiskyAttachmentType ==
    ASSUME NEW c \in Contexts
    PROVE  RiskyAttachment(c) \in 0..50 /\ (c.m.files = <<>> => RiskyAttachment(c) = 0)
  <1> DEFINE D == DOMAIN c.m.files
             w == [i \in D |-> FilePoints(c.m, c.m.files[i].kind)]
  <1>1. c.m.files \in Seq([kind : FileKinds, report : Reports])
    BY ContextFields, MailFields
  <1>2. D = 1..Len(c.m.files) /\ Len(c.m.files) \in Nat
    BY <1>1
  <1>3. IsFiniteSet(D) /\ (c.m.files = <<>> => D = {})
    BY <1>1, <1>2, FS_Interval
  <1>4. \A i \in D : w[i] \in Nat
    BY DEF FilePoints, Points
  <1>5. SumFunction(w) \in Nat /\ (D = {} => SumFunction(w) = 0)
    <2>1. DOMAIN w = D
      OBVIOUS
    <2> HIDE DEF w, D
    <2> QED
      BY <1>3, <1>4, <2>1, Sums
  <1>6. RiskyAttachment(c) = Lesser(30, SumFunction(w))
    BY DEF RiskyAttachment
  <1>7. c.m.files = <<>> => D = {}
    BY <1>3
  <1> HIDE DEF w, D
  <1>8. PICK n \in Nat : n = SumFunction(w) /\ (D = {} => n = 0)
    BY <1>5
  <1>9. Lesser(30, n) \in 0..50 /\ (n = 0 => Lesser(30, n) = 0)
    BY DEF Lesser
  <1> QED
    BY <1>6, <1>7, <1>8, <1>9

LEMMA ScoresOfRules ==
    ASSUME NEW c \in Contexts
    PROVE  /\ SenderDisplayNameMismatch(c) \in 0..50 /\ DisplayNameImpersonation(c) \in 0..50
           /\ DisposableDomain(c) \in 0..50 /\ ReplyToDomainMismatch(c) \in 0..50
           /\ FirstContactRisk(c) \in 0..50 /\ SuspiciousIp(c) \in 0..50
           /\ AuthFailure(c) \in 0..50 /\ IpBasedUrl(c) \in 0..50 /\ ShortenedUrl(c) \in 0..50
           /\ MaliciousUrl(c) \in 0..50 /\ UrgentPhishingLanguage(c) \in 0..50
           /\ BECLanguage(c) \in 0..50 /\ CredentialHarvesting(c) \in 0..50
           /\ ExcessiveCapitalization(c) \in 0..50 /\ ExcessiveExclamation(c) \in 0..50
           /\ RiskyAttachment(c) \in 0..50 /\ ConversationHijacking(c) \in 0..50
           /\ HomoglyphDomainSpoofing(c) \in 0..50 /\ LookalikeDomain(c) \in 0..50
           /\ BrandAbuse(c) \in 0..50 /\ HTMLObfuscation(c) \in 0..50
           /\ Base64EncodedUrl(c) \in 0..50 /\ NewlyRegisteredDomain(c) \in 0..50
  <1>1. /\ SenderDisplayNameMismatch(c) \in 0..50 /\ DisplayNameImpersonation(c) \in 0..50
        /\ DisposableDomain(c) \in 0..50 /\ ReplyToDomainMismatch(c) \in 0..50
    BY DEF SenderDisplayNameMismatch, DisplayNameImpersonation, DisposableDomain,
           ReplyToDomainMismatch, Points
  <1>2. FirstContactRisk(c) \in 0..50 /\ SuspiciousIp(c) \in 0..50
    BY DEF FirstContactRisk, SuspiciousIp, Points, Lesser
  <1>3. AuthFailure(c) \in 0..50
    BY DEF AuthFailure, Points
  <1>4. IpBasedUrl(c) \in 0..50 /\ ShortenedUrl(c) \in 0..50 /\ MaliciousUrl(c) \in 0..50
        /\ UrgentPhishingLanguage(c) \in 0..50
    BY DEF IpBasedUrl, ShortenedUrl, MaliciousUrl, UrgentPhishingLanguage, Points
  <1>5. BECLanguage(c) \in 0..50
    <2>1. c.m.bec \in 0..10
      BY ContextFields, MailFields
    <2> QED
      BY <2>1 DEF BECLanguage, Lesser
  <1>6. CredentialHarvesting(c) \in 0..50
    BY DEF CredentialHarvesting, Points, Lesser
  <1>7. /\ ExcessiveCapitalization(c) \in 0..50 /\ ExcessiveExclamation(c) \in 0..50
        /\ ConversationHijacking(c) \in 0..50 /\ HomoglyphDomainSpoofing(c) \in 0..50
        /\ LookalikeDomain(c) \in 0..50 /\ BrandAbuse(c) \in 0..50 /\ HTMLObfuscation(c) \in 0..50
        /\ Base64EncodedUrl(c) \in 0..50
    BY DEF ExcessiveCapitalization, ExcessiveExclamation, ConversationHijacking,
           HomoglyphDomainSpoofing, LookalikeDomain, BrandAbuse, HTMLObfuscation,
           Base64EncodedUrl, Points
  <1>8. NewlyRegisteredDomain(c) \in 0..50
    BY DEF NewlyRegisteredDomain, Points
  <1> QED
    BY <1>1, <1>2, <1>3, <1>4, <1>5, <1>6, <1>7, <1>8, RiskyAttachmentType

LEMMA ScoresType ==
    ASSUME NEW c \in Contexts
    PROVE  \A r \in RuleNames : RuleScores(c)[r] \in 0..50
  BY ScoresOfRules DEF RuleScores, RuleNames

-----------------------------------------------------------------------------
(* The engine and the graph.                                               *)

ResultSets == UNION {[S -> [original : 1..100, amplified : 0..100]] : S \in SUBSET RuleNames}

LEMMA EngineType ==
    ASSUME NEW c \in Contexts
    PROVE  LET R == RunRuleEngine(c)
           IN  /\ R \in ResultSets /\ DOMAIN R = {r \in RuleNames : RuleScores(c)[r] > 0}
               /\ \A r \in DOMAIN R : R[r] = [original |-> RuleScores(c)[r],
                                              amplified |-> RuleScores(c)[r]]
  <1> DEFINE S == {r \in RuleNames : RuleScores(c)[r] > 0}
             f == [r \in S |-> [original |-> RuleScores(c)[r], amplified |-> RuleScores(c)[r]]]
  <1>1. RunRuleEngine(c) = f
    BY Registry DEF RunRuleEngine
  <1>2. \A r \in S : RuleScores(c)[r] \in 1..50
    BY ScoresType
  <1>3. f \in [S -> [original : 1..100, amplified : 0..100]]
    BY <1>2
  <1>4. S \in SUBSET RuleNames
    OBVIOUS
  <1> QED
    BY <1>1, <1>3, <1>4 DEF ResultSets

Amplifies(r, fired) ==
    {i \in DOMAIN Graph : Graph[i].node \in fired /\ r \in Graph[i].targets}

LEMMA GraphFields ==
    /\ DOMAIN Graph = 1..6
    /\ \A i \in 1..6 : Graph[i].tenths \in 2..5
    /\ \A i \in 1..6 : Graph[i].targets \cap {"sender_display_name_mismatch",
                                             "homoglyph_domain_spoofing"} # {} =>
                          Graph[i].node = "email_auth_failure"
  <1>1. DOMAIN Graph = 1..6
    BY DEF Graph
  <1>2. \A i \in 1..6 : i = 1 \/ i = 2 \/ i = 3 \/ i = 4 \/ i = 5 \/ i = 6
    OBVIOUS
  <1>3. /\ Graph[1].tenths = 3 /\ Graph[2].tenths = 4 /\ Graph[3].tenths = 2
        /\ Graph[4].tenths = 3 /\ Graph[5].tenths = 5 /\ Graph[6].tenths = 2
    BY DEF Graph
  <1>4. Graph[1].node = "email_auth_failure"
    BY DEF Graph
  <1>5. /\ Graph[2].targets = {"bec_language_detected", "first_contact_sender_risk", "reply_to_domain_mismatch"}
        /\ Graph[3].targets = {"first_contact_sender_risk", "reply_to_domain_mismatch"}
        /\ Graph[4].targets = {"credential_harvesting_attempt", "ip_based_url"}
        /\ Graph[5].targets = {"html_obfuscation_phishing", "base64_encoded_url"}
        /\ Graph[6].targets = {"email_auth_failure"}
    BY DEF Graph
  <1> QED
    BY <1>1, <1>2, <1>3, <1>4, <1>5

LEMMA GraphType ==
    ASSUME NEW R \in ResultSets
    PROVE  LET A == ApplyGraphAmplification(R)
           IN  /\ A \in ResultSets /\ DOMAIN A = DOMAIN R
               /\ \A r \in DOMAIN R :
                     /\ A[r].original = R[r].original
                     /\ Amplifies(r, DOMAIN R) = {} => A[r] = R[r]
  <1> DEFINE A == ApplyGraphAmplification(R)
             nodes(r) == Amplifies(r, DOMAIN R)
             more(r) == Lesser(100, (R[r].original * Graph[Max(nodes(r))].tenths + 5) \div 10)
  <1>1. PICK S \in SUBSET RuleNames : R \in [S -> [original : 1..100, amplified : 0..100]]
    BY DEF ResultSets
  <1>2. DOMAIN R = S
    BY <1>1
  <1>3. A = [r \in S |-> IF nodes(r) = {} THEN R[r] ELSE [R[r] EXCEPT !.amplified = more(r)]]
    BY <1>2 DEF ApplyGraphAmplification, Amplifies
  <1>4. ASSUME NEW r \in S, nodes(r) # {} PROVE more(r) \in 0..100
    <2>1. nodes(r) \in SUBSET (1..6)
      BY GraphFields DEF Amplifies
    <2>2. IsFiniteSet(nodes(r))
      <3>1. 1 \in Int /\ 6 \in Int
        OBVIOUS
      <3>2. IsFiniteSet(1..6)
        BY <3>1, FS_Interval
      <3> QED
        BY <2>1, <3>2, FS_Subset
    <2>3. \A i \in nodes(r) : i \in Int
      BY <2>1
    <2> HIDE DEF nodes
    <2>4. Max(nodes(r)) \in nodes(r)
      BY <1>4, <2>2, <2>3, LargestOf
    <2>5. Graph[Max(nodes(r))].tenths \in 2..5
      BY <2>1, <2>4, GraphFields
    <2>6. R[r].original \in 1..100
      BY <1>1
    <2>7. ASSUME NEW x \in 1..100, NEW t \in 2..5 PROVE Lesser(100, (x * t + 5) \div 10) \in 0..100
      <3>1. t = 2 \/ t = 3 \/ t = 4 \/ t = 5
        OBVIOUS
      <3> QED
        BY <3>1 DEF Lesser
    <2> QED
      BY <2>5, <2>6, <2>7
  <1> HIDE DEF A, nodes, more
  <1>5. ASSUME NEW r \in S
        PROVE  /\ A[r] \in [original : 1..100, amplified : 0..100]
               /\ A[r].original = R[r].original
               /\ nodes(r) = {} => A[r] = R[r]
    <2>1. R[r] \in [original : 1..100, amplified : 0..100]
      BY <1>1
    <2>2. CASE nodes(r) = {}
      BY <1>3, <2>1, <2>2
    <2>3. CASE nodes(r) # {}
      <3>1. A[r] = [R[r] EXCEPT !.amplified = more(r)] /\ more(r) \in 0..100
        BY <1>3, <1>4, <2>3
      <3> QED
        BY <2>1, <2>3, <3>1
    <2> QED
      BY <2>2, <2>3
  <1>6. A \in [S -> [original : 1..100, amplified : 0..100]]
    BY <1>3, <1>5
  <1> QED
    BY <1>2, <1>5, <1>6 DEF ResultSets, A, nodes

-----------------------------------------------------------------------------
(* The correlation, and what scoring is handed.                            *)
LEMMA EightAreFinite ==
    ASSUME NEW a, NEW b, NEW c, NEW d, NEW e, NEW f, NEW g, NEW h
    PROVE  IsFiniteSet({a, b, c, d, e, f, g, h})
  <1>1. \A x : IsFiniteSet({x})
    BY FS_Singleton
  <1>2. \A S, T : IsFiniteSet(S) /\ IsFiniteSet(T) => IsFiniteSet(S \cup T)
    BY FS_Union
  <1>3. IsFiniteSet({a} \cup {b}) /\ IsFiniteSet({c} \cup {d})
        /\ IsFiniteSet({e} \cup {f}) /\ IsFiniteSet({g} \cup {h})
    BY <1>1, <1>2
  <1>4. /\ IsFiniteSet(({a} \cup {b}) \cup ({c} \cup {d}))
        /\ IsFiniteSet(({e} \cup {f}) \cup ({g} \cup {h}))
    BY <1>2, <1>3
  <1>5. IsFiniteSet((({a} \cup {b}) \cup ({c} \cup {d})) \cup (({e} \cup {f}) \cup ({g} \cup {h})))
    BY <1>2, <1>4
  <1>6. (({a} \cup {b}) \cup ({c} \cup {d})) \cup (({e} \cup {f}) \cup ({g} \cup {h}))
           = {a, b, c, d, e, f, g, h}
    OBVIOUS
  <1> QED
    BY <1>5, <1>6

LEMMA PatternsMatched ==
    ASSUME NEW fired
    PROVE  LET matched == Correlate(fired)
               bonus == SumFunction([p \in matched |-> p.bonus])
           IN  /\ \A p \in matched : bonus >= p.bonus
               /\ bonus \in Nat /\ (bonus > 0 => {p.id : p \in matched} # {})
               /\ {p.id : p \in matched} \in SUBSET Patterns
  <1> DEFINE matched == Correlate(fired)
             w == [p \in matched |-> p.bonus]
  <1>1. IsFiniteSet(AttackPatterns)
    BY EightAreFinite, ZenonT(60) DEF AttackPatterns
  <1>2. \A p \in AttackPatterns : p.bonus \in Nat /\ p.id \in Patterns
    BY DEF AttackPatterns, Patterns, CriticalPatterns
  <1>3. matched \in SUBSET AttackPatterns
    BY DEF Correlate
  <1>4. IsFiniteSet(matched) /\ \A p \in matched : p.bonus \in Nat /\ p.id \in Patterns
    BY <1>1, <1>2, <1>3, FS_Subset
  <1> HIDE DEF matched
  <1>5. DOMAIN w = matched /\ \A p \in DOMAIN w : w[p] \in Nat /\ w[p] = p.bonus
    BY <1>4
  <1> HIDE DEF w
  <1>6. /\ SumFunction(w) \in Nat /\ (matched = {} => SumFunction(w) = 0)
        /\ \A p \in matched : SumFunction(w) >= w[p]
    BY <1>4, <1>5, Sums
  <1>7. SumFunction(w) > 0 => {p.id : p \in matched} # {}
    BY <1>6
  <1>8. {p.id : p \in matched} \in SUBSET Patterns
    BY <1>4
  <1>9. \A p \in matched : SumFunction(w) >= p.bonus
    BY <1>5, <1>6
  <1> QED
    BY <1>6, <1>7, <1>8, <1>9 DEF matched, w

LEMMA AmplifiedSum ==
    ASSUME NEW R \in ResultSets, NEW S \in SUBSET DOMAIN R
    PROVE  LET sum == SumFunction([r \in S |-> R[r].amplified])
           IN  /\ sum \in Nat /\ \A r \in S : sum >= R[r].amplified
               /\ S = {} => sum = 0
  <1> DEFINE w == [r \in S |-> R[r].amplified]
  <1>1. PICK T \in SUBSET RuleNames : R \in [T -> [original : 1..100, amplified : 0..100]]
    BY DEF ResultSets
  <1>2. S \in SUBSET RuleNames /\ IsFiniteSet(S)
    BY <1>1, Registry, FS_Subset
  <1>3. DOMAIN w = S /\ \A r \in DOMAIN w : w[r] \in Nat /\ w[r] = R[r].amplified
    BY <1>1
  <1> HIDE DEF w
  <1>4. /\ SumFunction(w) \in Nat /\ \A r \in DOMAIN w : SumFunction(w) >= w[r]
        /\ DOMAIN w = {} => SumFunction(w) = 0
    BY <1>2, <1>3, Sums
  <1>5. \A r \in S : SumFunction(w) >= R[r].amplified
    BY <1>3, <1>4
  <1> QED
    BY <1>3, <1>4, <1>5 DEF w

LEMMA HandedOverType ==
    ASSUME NEW c \in Contexts, NEW R \in ResultSets, NEW malware \in Reports
    PROVE  HandedOver(c, R, malware) \in SignalSets
  <1> DEFINE fired == DOMAIN R
             phishing == SumFunction([r \in fired \ SpamRules |-> R[r].amplified])
             spam == SumFunction([r \in fired \cap SpamRules |-> R[r].amplified])
             bonus == SumFunction([p \in Correlate(fired) |-> p.bonus])
             patterns == {p.id : p \in Correlate(fired)}
             spoofed == {"sender_display_name_mismatch", "homoglyph_domain_spoofing"}
                            \cap fired # {}
             replyTo == "reply_to_domain_mismatch" \in fired
             categories == Cardinality({Category(r) : r \in fired})
             strong == \E r \in fired : R[r].original + R[r].amplified >= 20
  <1>1. HandedOver(c, R, malware) =
           [auth |-> c.auth, ip |-> c.rep.ip.score, domain |-> c.rep.domain,
            phishing |-> phishing, spam |-> spam, behavior |-> c.beh.score,
            anomaly |-> c.beh.anomaly, url |-> c.url.total, bonus |-> bonus,
            patterns |-> patterns, spoofed |-> spoofed, replyTo |-> replyTo,
            categories |-> categories, strong |-> strong, maliciousUrl |-> c.url.malicious,
            maliciousFile |-> malware.malicious, malware |-> malware.score]
    BY DEF HandedOver
  <1>2. phishing \in Nat /\ spam \in Nat
    <2>1. fired \ SpamRules \in SUBSET fired /\ fired \cap SpamRules \in SUBSET fired
      OBVIOUS
    <2> QED
      BY <2>1, AmplifiedSum
  <1>3. bonus \in Nat /\ patterns \in SUBSET Patterns
    BY PatternsMatched
  <1>4. categories \in Nat
    <2> DEFINE S == {Category(r) : r \in fired}
               f == [r \in fired |-> Category(r)]
    <2>1. IsFiniteSet(fired)
      <3>1. fired \in SUBSET RuleNames
        BY DEF ResultSets
      <3> QED
        BY <3>1, Registry, FS_Subset
    <2>2. S = {f[r] : r \in fired}
      OBVIOUS
    <2>3. f \in Surjection(fired, S)
      BY DEF Surjection
    <2>4. IsFiniteSet(S)
      <3> HIDE DEF f, S, fired
      <3> QED
        BY <2>1, <2>3, FS_Surjection
    <2> QED
      BY <2>4, FS_CardinalityType
  <1>5. spoofed \in BOOLEAN /\ replyTo \in BOOLEAN /\ strong \in BOOLEAN
    OBVIOUS
  <1>6. /\ c.auth \in Auths /\ c.rep.ip.score \in 0..100 /\ c.rep.domain \in Int
        /\ c.beh.score \in 0..100 /\ c.beh.anomaly \in BOOLEAN /\ c.url.total \in 0..100
        /\ c.url.malicious \in BOOLEAN
    BY ContextFields DEF IpSets
  <1>7. malware.malicious \in BOOLEAN /\ malware.score \in 0..100
    BY DEF Reports
  <1> HIDE DEF phishing, spam, bonus, patterns, spoofed, replyTo, categories, strong
  <1> QED
    BY <1>1, <1>2, <1>3, <1>4, <1>5, <1>6, <1>7 DEF SignalSets

\* What a run makes of its context: the rules, the graph, the correlation.
Results(c) == ApplyGraphAmplification(RunRuleEngine(c))

LEMMA ResultsType ==
    ASSUME NEW c \in Contexts
    PROVE  /\ Results(c) \in ResultSets
           /\ DOMAIN Results(c) = {r \in RuleNames : RuleScores(c)[r] > 0}
           /\ \A r \in DOMAIN Results(c) :
                 Amplifies(r, DOMAIN Results(c)) = {} =>
                    Results(c)[r].amplified = RuleScores(c)[r]
  <1> DEFINE R == RunRuleEngine(c)
             A == ApplyGraphAmplification(R)
  <1>1. /\ R \in ResultSets /\ DOMAIN R = {r \in RuleNames : RuleScores(c)[r] > 0}
        /\ \A r \in DOMAIN R : R[r] = [original |-> RuleScores(c)[r],
                                       amplified |-> RuleScores(c)[r]]
    BY EngineType
  <1> HIDE DEF R
  <1>2. /\ A \in ResultSets /\ DOMAIN A = DOMAIN R
        /\ \A r \in DOMAIN R : Amplifies(r, DOMAIN R) = {} => A[r] = R[r]
    BY <1>1, GraphType
  <1> HIDE DEF A
  <1>3. ASSUME NEW r \in DOMAIN A, Amplifies(r, DOMAIN A) = {}
        PROVE  A[r].amplified = RuleScores(c)[r]
    <2>1. A[r] = R[r] /\ R[r] = [original |-> RuleScores(c)[r], amplified |-> RuleScores(c)[r]]
      BY <1>1, <1>2, <1>3
    <2> QED
      BY <2>1
  <1>4. Results(c) = A
    BY DEF Results, R, A
  <1> QED
    BY <1>1, <1>2, <1>3, <1>4

LEMMA AuthFailureIsPenalised ==
    ASSUME NEW c \in Contexts, AuthFailure(c) > 0
    PROVE  AuthPenalty(c.auth) >= 10
  <1>1. c.auth.spf \in {"fail", "softfail"} \/ c.auth.dkim = "fail" \/ c.auth.dmarc = "fail"
    BY DEF AuthFailure, Points
  <1>2. /\ SpfPoints(c.auth.spf) \in 0..20 /\ DkimPoints(c.auth.dkim) \in 0..20
        /\ DmarcPoints(c.auth.dmarc) \in 0..15
    BY PointsOfStatuses
  <1>3. \/ SpfPoints(c.auth.spf) >= 10 \/ DkimPoints(c.auth.dkim) >= 10
        \/ DmarcPoints(c.auth.dmarc) >= 10
    BY <1>1 DEF SpfPoints, DkimPoints, DmarcPoints
  <1> DEFINE extra == Points(c.auth.spf = "fail" /\ c.auth.dkim = "fail" /\ c.auth.dmarc = "fail", 15)
  <1>4. extra \in {0, 15}
    BY DEF Points
  <1>5. AuthPenalty(c.auth) = Lesser(50, SpfPoints(c.auth.spf) + DkimPoints(c.auth.dkim)
                                            + DmarcPoints(c.auth.dmarc) + extra)
    BY DEF AuthPenalty
  <1> HIDE DEF extra
  <1> QED
    BY <1>2, <1>3, <1>4, <1>5 DEF Lesser

\* The signals of every run are those that the theorems about the verdict speak of.
LEMMA SignalsCohere ==
    ASSUME NEW c \in Contexts, NEW malware \in Reports
    PROVE  /\ HandedOver(c, Results(c), malware) \in SignalSets
           /\ Coherent(HandedOver(c, Results(c), malware))
  <1> DEFINE R == Results(c)
             s == HandedOver(c, R, malware)
             fired == DOMAIN R
  <1>1. R \in ResultSets /\ fired = {r \in RuleNames : RuleScores(c)[r] > 0}
    BY ResultsType
  <1>2. s \in SignalSets
    BY <1>1, HandedOverType
  <1>fields. /\ s.auth = c.auth
             /\ s.phishing = SumFunction([r \in fired \ SpamRules |-> R[r].amplified])
             /\ s.bonus = SumFunction([p \in Correlate(fired) |-> p.bonus])
             /\ s.patterns = {p.id : p \in Correlate(fired)}
             /\ s.spoofed = ({"sender_display_name_mismatch", "homoglyph_domain_spoofing"}
                                \cap fired # {})
    BY DEF HandedOver
  <1> HIDE DEF s
  <1>3. s.bonus > 0 => s.patterns # {}
    BY <1>fields, PatternsMatched
  <1>4. ASSUME s.spoofed PROVE s.phishing >= 25 \/ AuthPenalty(s.auth) >= 10
    <2>1. PICK r \in {"sender_display_name_mismatch", "homoglyph_domain_spoofing"} : r \in fired
      <3>1. {"sender_display_name_mismatch", "homoglyph_domain_spoofing"} \cap fired # {}
        BY <1>4, <1>fields
      <3> QED
        BY <3>1
    <2>2. RuleScores(c)[r] >= 25
      <3>1. /\ RuleScores(c)["sender_display_name_mismatch"] = SenderDisplayNameMismatch(c)
            /\ RuleScores(c)["homoglyph_domain_spoofing"] = HomoglyphDomainSpoofing(c)
        BY DEF RuleScores
      <3>2. SenderDisplayNameMismatch(c) \in {0, 25} /\ HomoglyphDomainSpoofing(c) \in {0, 30}
        BY DEF SenderDisplayNameMismatch, HomoglyphDomainSpoofing, Points
      <3>3. RuleScores(c)[r] > 0
        BY <1>1, <2>1
      <3> QED
        BY <2>1, <3>1, <3>2, <3>3
    <2>3. CASE Amplifies(r, fired) = {}
      <3>1. R[r].amplified >= 25
        BY <2>1, <2>2, <2>3, ResultsType
      <3>2. r \in fired \ SpamRules
        BY <2>1 DEF SpamRules
      <3> DEFINE S == fired \ SpamRules
                 sum == SumFunction([q \in S |-> R[q].amplified])
      <3>3. S \in SUBSET DOMAIN R
        OBVIOUS
      <3>4. sum \in Nat /\ sum >= R[r].amplified
        BY <1>1, <3>2, <3>3, AmplifiedSum
      <3>5. s.phishing = sum
        BY <1>fields
      <3>6. R[r].amplified \in Nat
        BY <1>1, <2>1 DEF ResultSets
      <3> HIDE DEF s, R, sum
      <3> QED
        BY <3>1, <3>4, <3>5, <3>6
    <2>4. CASE Amplifies(r, fired) # {}
      <3>1. PICK i \in DOMAIN Graph : Graph[i].node \in fired /\ r \in Graph[i].targets
        BY <2>4 DEF Amplifies
      <3>2. "email_auth_failure" \in fired
        BY <2>1, <3>1, GraphFields
      <3>3. AuthFailure(c) > 0
        <4>1. RuleScores(c)["email_auth_failure"] = AuthFailure(c)
          BY DEF RuleScores
        <4> QED
          BY <1>1, <3>2, <4>1
      <3>4. s.auth = c.auth
        BY <1>fields
      <3> QED
        BY <3>3, <3>4, AuthFailureIsPenalised
    <2> QED
      BY <2>3, <2>4
  <1> QED
    BY <1>2, <1>3, <1>4 DEF Coherent, s

-----------------------------------------------------------------------------
(* The scan.  Of the files that answered, Best is the report with the      *)
(* highest score, of equal ones the first.                                 *)
Files == Seq([kind : FileKinds, report : Reports])

Best(files, S, report) ==
    IF S = {} THEN report = NoReport
    ELSE \E k \in S : /\ report = files[k].report
                      /\ \A i \in S : /\ files[i].report.score <= files[k].report.score
                                      /\ i < k => files[i].report.score < files[k].report.score

LEMMA ReportFields ==
    ASSUME NEW files \in Files, NEW i \in DOMAIN files
    PROVE  /\ files[i].report \in Reports /\ files[i].report.score \in 0..100
           /\ files[i].report.malicious \in BOOLEAN
  <1>1. files[i] \in [kind : FileKinds, report : Reports]
    <2> DEFINE File == [kind : FileKinds, report : Reports]
    <2>1. files \in Seq(File)
      BY DEF Files
    <2>2. i \in 1..Len(files)
      BY <2>1
    <2> HIDE DEF File
    <2>3. files[i] \in File
      BY <2>1, <2>2
    <2> QED
      BY <2>3 DEF File
  <1>2. files[i].report \in Reports
    BY <1>1
  <1> QED
    BY <1>2 DEF Reports

LEMMA BestIsUnique ==
    ASSUME NEW files \in Files, NEW S \in SUBSET DOMAIN files, NEW a, NEW b,
           Best(files, S, a), Best(files, S, b)
    PROVE  a = b
  <1>1. CASE S = {}
    BY <1>1 DEF Best
  <1>2. CASE S # {}
    <2>1. PICK k \in S : /\ a = files[k].report
                         /\ \A i \in S : /\ files[i].report.score <= files[k].report.score
                                         /\ i < k => files[i].report.score < files[k].report.score
      BY <1>2 DEF Best
    <2>2. PICK l \in S : /\ b = files[l].report
                         /\ \A i \in S : /\ files[i].report.score <= files[l].report.score
                                         /\ i < l => files[i].report.score < files[l].report.score
      BY <1>2 DEF Best
    <2>3. k \in Int /\ l \in Int /\ files[k].report.score \in Int /\ files[l].report.score \in Int
      <3>1. k \in 1..Len(files) /\ l \in 1..Len(files) /\ Len(files) \in Nat
        BY DEF Files
      <3>2. files[k].report.score \in 0..100 /\ files[l].report.score \in 0..100
        BY ReportFields
      <3>3. k \in Int /\ l \in Int
        BY <3>1
      <3>4. \A x \in 0..100 : x \in Int
        OBVIOUS
      <3> QED
        BY <3>2, <3>3, <3>4
    <2>4. k = l
      BY <2>1, <2>2, <2>3
    <2> QED
      BY <2>1, <2>2, <2>4
  <1> QED
    BY <1>1, <1>2

LEMMA BestIsMerged ==
    ASSUME NEW files \in Files, NEW at \in DOMAIN files, NEW S \in SUBSET (1..(at - 1)),
           NEW report, Best(files, S, report)
    PROVE  Best(files, S \cup {at}, IF S = {} THEN files[at].report
                                    ELSE MergeMalwareSignals(report, files[at].report))
  <1> DEFINE score(i) == files[i].report.score
  <1>1. at \in Nat /\ DOMAIN files = 1..Len(files) /\ Len(files) \in Nat /\ at \in 1..Len(files)
    BY DEF Files
  <1>2. \A i \in S \cup {at} : i \in DOMAIN files /\ i \in Int
    BY <1>1
  <1>3. \A i \in S \cup {at} : score(i) \in Int
    BY <1>2, ReportFields
  <1>4. CASE S = {}
    BY <1>1, <1>3, <1>4 DEF Best
  <1>5. CASE S # {}
    <2>1. PICK k \in S : /\ report = files[k].report
                         /\ \A i \in S : score(i) <= score(k) /\ (i < k => score(i) < score(k))
      BY <1>5 DEF Best
    <2>2. \A i \in S : i < at
      BY <1>1
    <2>3. CASE score(k) >= score(at)
      <3>1. MergeMalwareSignals(report, files[at].report) = files[k].report
        BY <2>1, <2>3 DEF MergeMalwareSignals
      <3>2. \A i \in S \cup {at} : score(i) <= score(k) /\ (i < k => score(i) < score(k))
        BY <1>2, <1>3, <2>1, <2>2, <2>3
      <3> QED
        BY <1>5, <3>1, <3>2 DEF Best
    <2>4. CASE ~(score(k) >= score(at))
      <3>1. MergeMalwareSignals(report, files[at].report) = files[at].report
        BY <2>1, <2>4 DEF MergeMalwareSignals
      <3>2. ASSUME NEW i \in S \cup {at}
            PROVE  score(i) <= score(at) /\ (i < at => score(i) < score(at))
        <4>1. score(i) \in Int /\ score(k) \in Int /\ score(at) \in Int
          BY <1>3
        <4>2. i = at \/ score(i) <= score(k)
          BY <2>1
        <4> HIDE DEF score
        <4> QED
          BY <1>1, <2>4, <4>1, <4>2
      <3> QED
        BY <1>5, <3>1, <3>2 DEF Best
    <2> QED
      BY <2>3, <2>4
  <1> QED
    BY <1>4, <1>5

LEMMA BestIsReport ==
    ASSUME NEW files \in Files, NEW S \in SUBSET DOMAIN files, NEW report,
           Best(files, S, report)
    PROVE  /\ report \in Reports
           /\ \A i \in S : files[i].report.score <= report.score
  <1>1. CASE S = {}
    <2>1. NoReport \in Reports
      BY DEF NoReport, Reports
    <2>2. report = NoReport
      BY <1>1 DEF Best
    <2> QED
      BY <1>1, <2>1, <2>2
  <1>2. CASE S # {}
    <2>1. PICK k \in S : /\ report = files[k].report
                         /\ \A i \in S : files[i].report.score <= files[k].report.score
      BY <1>2 DEF Best
    <2> QED
      BY <2>1, ReportFields
  <1> QED
    BY <1>1, <1>2

-----------------------------------------------------------------------------
(* The analysis of a mail of which everything answers.                     *)
Whole(m, flag) ==
    [m |-> Input(m), auth |-> AuthSignals(Input(m)), rep |-> ReputationSignals(Input(m), TRUE),
     beh |-> BehaviorSignals(Input(m), m.caller = "processor", flag), url |-> UrlSignals(Input(m))]

LEMMA WholeType ==
    ASSUME NEW n \in Mails, NEW flag \in BOOLEAN
    PROVE  Whole(n, flag) \in Contexts
  <1>1. IsMail(Input(n)) /\ Input(n) \in Inputs
    BY InputType
  <1>2. AuthSignals(Input(n)) \in Auths
    BY <1>1, MailFields, AuthType
  <1>3. ReputationSignals(Input(n), TRUE) \in Reputations
    BY <1>1, ReputationSignalsType
  <1>4. BehaviorSignals(Input(n), n.caller = "processor", flag) \in Behaviors
    <2>1. (n.caller = "processor") \in BOOLEAN
      OBVIOUS
    <2> QED
      BY <1>1, <2>1, BehaviorSignalsType
  <1>5. UrlSignals(Input(n)) \in UrlResults
    BY <1>1, UrlSignalsType
  <1> QED
    BY <1>1, <1>2, <1>3, <1>4, <1>5 DEF Whole, Contexts

\* The rules read of the history only how many mails it holds.
LEMMA RulesIgnoreTheScore ==
    ASSUME NEW c, NEW d, c.m = d.m, c.auth = d.auth, c.rep = d.rep, c.url = d.url,
           c.beh.count = d.beh.count
    PROVE  RuleScores(c) = RuleScores(d)
  <1>1. /\ SenderDisplayNameMismatch(c) = SenderDisplayNameMismatch(d)
        /\ DisplayNameImpersonation(c) = DisplayNameImpersonation(d)
        /\ DisposableDomain(c) = DisposableDomain(d)
        /\ ReplyToDomainMismatch(c) = ReplyToDomainMismatch(d)
    BY DEF SenderDisplayNameMismatch, DisplayNameImpersonation, DisposableDomain,
           ReplyToDomainMismatch
  <1>2. FirstContactRisk(c) = FirstContactRisk(d) /\ SuspiciousIp(c) = SuspiciousIp(d)
    BY DEF FirstContactRisk, SuspiciousIp
  <1>3. AuthFailure(c) = AuthFailure(d)
    BY DEF AuthFailure
  <1>4. /\ IpBasedUrl(c) = IpBasedUrl(d) /\ ShortenedUrl(c) = ShortenedUrl(d)
        /\ MaliciousUrl(c) = MaliciousUrl(d)
        /\ UrgentPhishingLanguage(c) = UrgentPhishingLanguage(d) /\ BECLanguage(c) = BECLanguage(d)
    BY DEF IpBasedUrl, ShortenedUrl, MaliciousUrl, UrgentPhishingLanguage, BECLanguage
  <1>5. /\ CredentialHarvesting(c) = CredentialHarvesting(d)
        /\ RiskyAttachment(c) = RiskyAttachment(d)
    BY DEF CredentialHarvesting, RiskyAttachment
  <1>6. /\ ExcessiveCapitalization(c) = ExcessiveCapitalization(d)
        /\ ExcessiveExclamation(c) = ExcessiveExclamation(d)
        /\ ConversationHijacking(c) = ConversationHijacking(d)
        /\ HomoglyphDomainSpoofing(c) = HomoglyphDomainSpoofing(d)
        /\ LookalikeDomain(c) = LookalikeDomain(d) /\ BrandAbuse(c) = BrandAbuse(d)
        /\ HTMLObfuscation(c) = HTMLObfuscation(d) /\ Base64EncodedUrl(c) = Base64EncodedUrl(d)
    BY DEF ExcessiveCapitalization, ExcessiveExclamation, ConversationHijacking,
           HomoglyphDomainSpoofing, LookalikeDomain, BrandAbuse, HTMLObfuscation, Base64EncodedUrl
  <1>7. NewlyRegisteredDomain(c) = NewlyRegisteredDomain(d)
    BY DEF NewlyRegisteredDomain
  <1> QED
    BY <1>1, <1>2, <1>3, <1>4, <1>5, <1>6, <1>7 DEF RuleScores

Scored(c, report) == HandedOver(c, Results(c), report)

\* The flag that an earlier analysis put on the mail only adds to its score.
LEMMA FlagOnlyAdds ==
    ASSUME NEW n \in Mails, NEW report \in Reports
    PROVE  TierRank(ComputeRisk(Scored(Whole(n, TRUE), report)).tier)
              >= TierRank(ComputeRisk(Scored(Whole(n, FALSE), report)).tier)
  <1> DEFINE c == Whole(n, TRUE)
             d == Whole(n, FALSE)
             s == Scored(c, report)
             t == Scored(d, report)
             stored == n.caller = "processor"
  <1>1. c \in Contexts /\ d \in Contexts
    BY WholeType
  <1>2. s \in SignalSets /\ t \in SignalSets
    BY <1>1, SignalsCohere DEF Scored
  <1>3. /\ c.m = d.m /\ c.auth = d.auth /\ c.rep = d.rep /\ c.url = d.url
        /\ c.beh = BehaviorSignals(Input(n), stored, TRUE)
        /\ d.beh = BehaviorSignals(Input(n), stored, FALSE)
    BY DEF Whole
  <1>4. /\ c.beh.count = d.beh.count /\ c.beh.score >= d.beh.score
        /\ d.beh.anomaly => c.beh.anomaly
    <2>1. stored \in BOOLEAN /\ IsMail(Input(n))
      BY InputType
    <2> HIDE DEF stored
    <2> QED
      BY <1>3, <2>1, BehaviorSignalsType
  <1> HIDE DEF c, d
  <1>5. Results(c) = Results(d)
    <2>1. RuleScores(c) = RuleScores(d)
      BY <1>3, <1>4, RulesIgnoreTheScore
    <2> QED
      BY <2>1 DEF Results, RunRuleEngine
  <1>6. /\ s.auth = t.auth /\ s.ip = t.ip /\ s.domain = t.domain /\ s.phishing = t.phishing
        /\ s.spam = t.spam /\ s.url = t.url /\ s.bonus = t.bonus /\ s.patterns = t.patterns
        /\ s.spoofed = t.spoofed /\ s.replyTo = t.replyTo /\ s.categories = t.categories
        /\ s.strong = t.strong /\ s.maliciousUrl = t.maliciousUrl
        /\ s.maliciousFile = t.maliciousFile /\ s.malware = t.malware
    BY <1>3, <1>5 DEF Scored, HandedOver
  <1>7. /\ s.behavior = c.beh.score /\ t.behavior = d.beh.score
        /\ s.anomaly = c.beh.anomaly /\ t.anomaly = d.beh.anomaly
    BY DEF Scored, HandedOver
  <1> HIDE DEF s, t
  <1>8. AtLeast(s, t)
    <2>1. /\ SpfPoints(t.auth.spf) \in 0..20 /\ DkimPoints(t.auth.dkim) \in 0..20
          /\ DmarcPoints(t.auth.dmarc) \in 0..15
      BY PointsOfStatuses
    <2>2. /\ t.ip \in Int /\ t.domain \in Int /\ t.phishing \in Int /\ t.spam \in Int
          /\ t.url \in Int /\ t.bonus \in Int /\ t.categories \in Int /\ t.malware \in Int
      BY <1>2, SignalFields
    <2> QED
      BY <1>4, <1>6, <1>7, <2>1, <2>2 DEF AtLeast, Grows
  <1>9. TierRank(ComputeRisk(s).tier) >= TierRank(ComputeRisk(t).tier)
    BY <1>2, <1>8, VerdictGrows
  <1> QED
    BY <1>9 DEF s, t, c, d

-----------------------------------------------------------------------------
(* A mail of which nothing is known.                                       *)
\* Nothing speaks against the mail, but for the lack of an authentication result.
Quiet(c) ==
    /\ c.m.cues = {} /\ c.m.bec = 0 /\ c.m.files = <<>>
    /\ c.m.headers.replyTo # "other"
    /\ ~HasAuthFailure(c.auth)
    /\ c.rep.ip = UnknownIp /\ c.rep.domain <= 0 /\ c.rep.newly = FALSE
    /\ c.rep.age = Unknown \/ c.rep.age > 90
    /\ c.beh.score <= 20 /\ c.url = NoUrls

LEMMA InnocuousContext ==
    ASSUME NEW n \in Mails, Innocuous(n), NEW flag \in BOOLEAN
    PROVE  Quiet(Whole(n, flag))
  <1> DEFINE m == Input(n)
             c == Whole(n, flag)
  <1>1. /\ n.cues = {} /\ n.bec = 0 /\ n.urls = <<>> /\ n.files = <<>>
        /\ n.whois > 90 /\ n.domain <= 0 /\ n.ip = UnknownIp
        /\ ~HasAuthFailure(AuthSignals(n)) /\ n.headers.replyTo # "other"
    BY DEF Innocuous
  <1>2. /\ IsMail(m) /\ m.cues = {} /\ m.bec = 0 /\ m.urls = <<>> /\ m.files = <<>>
        /\ m.whois = n.whois /\ m.domain = n.domain /\ m.ip = UnknownIp
        /\ m.headers \in {n.headers, NoHeaders}
    BY <1>1, InputType
  <1> HIDE DEF m
  <1>3. m.headers.replyTo # "other"
    BY <1>1, <1>2 DEF NoHeaders
  <1>4. ~HasAuthFailure(AuthSignals(m))
    <2>1. CASE m.headers = n.headers
      BY <1>1, <2>1 DEF AuthSignals
    <2>2. CASE m.headers = NoHeaders
      <3>1. AuthSignals(m) = [spf |-> "none", dkim |-> "none", dmarc |-> "none"]
        BY <2>2 DEF AuthSignals, ParseSpf, ParseDkim, ParseDmarc, NoHeaders, Absent
      <3> QED
        BY <3>1 DEF HasAuthFailure
    <2> QED
      BY <1>2, <2>1, <2>2
  <1>5. LET rep == ReputationSignals(m, TRUE)
        IN  /\ rep.ip = UnknownIp /\ rep.domain <= 0 /\ rep.newly = FALSE
            /\ rep.age = Unknown \/ rep.age > 90
    <2>1. m.whois \in Int /\ m.whois > 90 /\ m.domain \in Int /\ m.domain <= 0
      BY <1>1, <1>2, MailFields DEF Unknown
    <2>2. DomainAge(m, TRUE) > 90
      BY <2>1 DEF DomainAge, Unknown
    <2> DEFINE newly == m.sender # "none" /\ TRUE /\ m.whois \in 0..29
    <2>3. newly = FALSE
      BY <2>1
    <2>4. /\ ReputationSignals(m, TRUE).ip = UnknownIp
          /\ ReputationSignals(m, TRUE).domain \in {m.domain, 0}
          /\ ReputationSignals(m, TRUE).age \in {DomainAge(m, TRUE), Unknown}
          /\ ReputationSignals(m, TRUE).newly = newly
      BY <1>2 DEF ReputationSignals
    <2> HIDE DEF newly
    <2>5. ReputationSignals(m, TRUE).domain <= 0
      <3>1. ASSUME NEW d, d \in {m.domain, 0} PROVE d <= 0
        BY <2>1, <3>1
      <3> QED
        BY <2>4, <3>1
    <2>6. ReputationSignals(m, TRUE).age = Unknown \/ ReputationSignals(m, TRUE).age > 90
      BY <2>2, <2>4
    <2>7. ReputationSignals(m, TRUE).newly = FALSE
      BY <2>3, <2>4
    <2> QED
      BY <2>4, <2>5, <2>6, <2>7
  <1>6. BehaviorSignals(m, n.caller = "processor", flag).score <= 20
    <2>1. (n.caller = "processor") \in BOOLEAN /\ ~HasAttachment(m)
      BY <1>2 DEF HasAttachment
    <2> QED
      BY <1>2, <2>1, BehaviorSignalsType
  <1>7. UrlSignals(m) = NoUrls
    BY <1>2, UrlSignalsType
  <1>8. /\ c.m = m /\ c.auth = AuthSignals(m) /\ c.rep = ReputationSignals(m, TRUE)
        /\ c.beh = BehaviorSignals(m, n.caller = "processor", flag) /\ c.url = UrlSignals(m)
    BY DEF Whole, m
  <1> HIDE DEF c
  <1> QED
    BY <1>2, <1>3, <1>4, <1>5, <1>6, <1>7, <1>8 DEF c, Quiet

LEMMA QuietFiresNothing ==
    ASSUME NEW c \in Contexts, Quiet(c)
    PROVE  DOMAIN Results(c) = {}
  <1>2. /\ c.m.cues = {} /\ c.m.bec = 0 /\ c.m.files = <<>>
        /\ c.m.headers.replyTo # "other"
        /\ ~HasAuthFailure(c.auth)
        /\ c.rep.ip = UnknownIp /\ c.rep.domain <= 0 /\ c.rep.newly = FALSE
        /\ c.rep.age = Unknown \/ c.rep.age > 90
        /\ c.beh.score <= 20 /\ c.url = NoUrls
    BY DEF Quiet
  <1>3. ~Urgent(c.m) /\ ~HasAttachment(c.m)
    BY <1>2 DEF Urgent, HasAttachment
  <1>4. /\ SenderDisplayNameMismatch(c) = 0 /\ DisplayNameImpersonation(c) = 0
        /\ DisposableDomain(c) = 0 /\ ReplyToDomainMismatch(c) = 0
    BY <1>2 DEF SenderDisplayNameMismatch, DisplayNameImpersonation, DisposableDomain,
                ReplyToDomainMismatch, Points
  <1>5. FirstContactRisk(c) = 0
    BY <1>3 DEF FirstContactRisk, Points
  <1>6. SuspiciousIp(c) = 0
    BY <1>2 DEF SuspiciousIp, UnknownIp, Points, Lesser
  <1>7. AuthFailure(c) = 0
    BY <1>2 DEF AuthFailure
  <1>8. IpBasedUrl(c) = 0 /\ ShortenedUrl(c) = 0 /\ MaliciousUrl(c) = 0
    BY <1>2 DEF IpBasedUrl, ShortenedUrl, MaliciousUrl, NoUrls, Points
  <1>9. UrgentPhishingLanguage(c) = 0 /\ BECLanguage(c) = 0
    BY <1>2 DEF UrgentPhishingLanguage, BECLanguage, Points, Lesser
  <1>10. CredentialHarvesting(c) = 0
    BY <1>2 DEF CredentialHarvesting, Points
  <1>11. RiskyAttachment(c) = 0
    BY <1>2, RiskyAttachmentType
  <1>12. /\ ExcessiveCapitalization(c) = 0 /\ ExcessiveExclamation(c) = 0
         /\ ConversationHijacking(c) = 0 /\ HomoglyphDomainSpoofing(c) = 0
         /\ LookalikeDomain(c) = 0 /\ BrandAbuse(c) = 0 /\ HTMLObfuscation(c) = 0
         /\ Base64EncodedUrl(c) = 0
    BY <1>2 DEF ExcessiveCapitalization, ExcessiveExclamation, ConversationHijacking,
                HomoglyphDomainSpoofing, LookalikeDomain, BrandAbuse, HTMLObfuscation,
                Base64EncodedUrl, Points
  <1>13. NewlyRegisteredDomain(c) = 0
    <2>1. c.rep.age \in Nat \cup {Unknown}
      BY ContextFields
    <2> QED
      BY <1>2, <2>1 DEF NewlyRegisteredDomain, Points, Unknown
  <1>14. \A r \in RuleNames : RuleScores(c)[r] = 0
    BY <1>4, <1>5, <1>6, <1>7, <1>8, <1>9, <1>10, <1>11, <1>12, <1>13 DEF RuleScores, RuleNames
  <1>15. DOMAIN Results(c) = {r \in RuleNames : RuleScores(c)[r] > 0}
    BY ResultsType
  <1> QED
    BY <1>14, <1>15

LEMMA QuietPasses ==
    ASSUME NEW c \in Contexts, Quiet(c)
    PROVE  ComputeAction(ComputeRisk(Scored(c, NoReport))) = "allow"
  <1> DEFINE R == Results(c)
             s == Scored(c, NoReport)
  <1>1. NoReport \in Reports
    BY DEF NoReport, Reports
  <1>2. s \in SignalSets /\ Coherent(s)
    BY <1>1, SignalsCohere DEF Scored
  <1>3. /\ ~HasAuthFailure(c.auth)
        /\ c.rep.ip = UnknownIp /\ c.rep.domain <= 0
        /\ c.beh.score <= 20 /\ c.url = NoUrls
    BY DEF Quiet
  <1>4. DOMAIN R = {} /\ R \in ResultSets
    BY <1>1, QuietFiresNothing, ResultsType
  <1>5. /\ s.auth = c.auth /\ s.ip = c.rep.ip.score /\ s.domain = c.rep.domain
        /\ s.phishing = SumFunction([r \in DOMAIN R \ SpamRules |-> R[r].amplified])
        /\ s.spam = SumFunction([r \in DOMAIN R \cap SpamRules |-> R[r].amplified])
        /\ s.behavior = c.beh.score /\ s.url = c.url.total
        /\ s.bonus = SumFunction([p \in Correlate(DOMAIN R) |-> p.bonus])
        /\ s.patterns = {p.id : p \in Correlate(DOMAIN R)}
        /\ s.replyTo = ("reply_to_domain_mismatch" \in DOMAIN R)
        /\ s.spoofed = ({"sender_display_name_mismatch", "homoglyph_domain_spoofing"}
                           \cap DOMAIN R # {})
        /\ s.categories = Cardinality({Category(r) : r \in DOMAIN R})
        /\ s.strong = (\E r \in DOMAIN R : R[r].original + R[r].amplified >= 20)
        /\ s.maliciousUrl = c.url.malicious /\ s.maliciousFile = NoReport.malicious
        /\ s.malware = NoReport.score
    BY DEF Scored, HandedOver
  <1> HIDE DEF R, s
  <1>6. s.phishing = 0 /\ s.spam = 0
    <2>1. DOMAIN R \ SpamRules = {} /\ DOMAIN R \cap SpamRules = {}
      BY <1>4
    <2>2. {} \in SUBSET DOMAIN R
      OBVIOUS
    <2>3. SumFunction([r \in {} |-> R[r].amplified]) = 0
      BY <1>4, <2>2, AmplifiedSum
    <2> QED
      BY <1>5, <2>1, <2>3
  <1>7. Correlate(DOMAIN R) = {}
    <2>1. \A p \in AttackPatterns : p.required # {}
      BY DEF AttackPatterns
    <2> QED
      BY <1>4, <2>1 DEF Correlate
  <1>8. s.bonus = 0
    <2>1. s.patterns = {}
      BY <1>5, <1>7
    <2>2. s.bonus \in Nat
      BY <1>2, SignalFields
    <2> QED
      BY <1>2, <2>1, <2>2 DEF Coherent
  <1>9. ~s.replyTo /\ ~s.spoofed /\ ~s.strong
    <2>1. ~("reply_to_domain_mismatch" \in DOMAIN R)
      BY <1>4
    <2>2. ~({"sender_display_name_mismatch", "homoglyph_domain_spoofing"} \cap DOMAIN R # {})
      BY <1>4
    <2>3. ~(\E r \in DOMAIN R : R[r].original + R[r].amplified >= 20)
      BY <1>4
    <2> QED
      BY <1>5, <2>1, <2>2, <2>3
  <1>10. s.categories = 0
    <2>1. {Category(r) : r \in DOMAIN R} = {}
      BY <1>4
    <2> QED
      BY <1>5, <2>1, FS_EmptySet
  <1>11. s.url = 0 /\ s.maliciousUrl = FALSE /\ s.maliciousFile = FALSE /\ s.malware = 0
         /\ s.ip = 0
    BY <1>3, <1>5 DEF NoUrls, NoReport, UnknownIp
  <1>12. Tier1(s) \in 0..17
    <2>1. AuthPenalty(s.auth) \in 0..17
      <3>1. SpfPoints(s.auth.spf) \in {0, 4, 10} /\ DkimPoints(s.auth.dkim) \in {0, 4}
            /\ DmarcPoints(s.auth.dmarc) \in {0, 3} /\ s.auth.spf # "fail"
        BY <1>3, <1>5 DEF HasAuthFailure, SpfPoints, DkimPoints, DmarcPoints
      <3>2. AuthPenalty(s.auth) = Lesser(50, SpfPoints(s.auth.spf) + DkimPoints(s.auth.dkim)
                                               + DmarcPoints(s.auth.dmarc) + 0)
        BY <3>1 DEF AuthPenalty, Points
      <3> QED
        BY <3>1, <3>2 DEF Lesser
    <2>2. ReputationScore(s.ip, s.domain) = 0
      <3>1. s.domain \in Int /\ s.domain <= 0
        BY <1>2, <1>3, <1>5, SignalFields
      <3> QED
        BY <1>11, <3>1 DEF ReputationScore, Lesser, Greater, Points
    <2> QED
      BY <2>1, <2>2 DEF Tier1
  <1>13. Tier2(s) \in 0..20 /\ BehaviorScore(s) \in 0..20
    <2>1. s.behavior \in 0..20
      <3>1. s.behavior \in 0..100 /\ s.behavior <= 20
        BY <1>2, <1>3, <1>5, SignalFields
      <3> QED
        BY <3>1
    <2>2. BehaviorScore(s) \in 0..20
      BY <2>1 DEF BehaviorScore, Lesser
    <2>3. RuleScore(0, 0) = 0
      <3>1. Blend(0, 0) = 0
        <4> DEFINE short == (0 \in {45, 85} /\ 0 = 0) \/ (0 = 85 /\ 0 = 10)
        <4>1. Blend(0, 0) = (7 * 0 + 3 * 0 + 5) \div 10 - Points(short, 1)
          BY DEF Blend
        <4>2. ~short
          OBVIOUS
        <4>3. (7 * 0 + 3 * 0 + 5) \div 10 = 0
          OBVIOUS
        <4> HIDE DEF short
        <4>4. Points(short, 1) = 0
          BY <4>2 DEF Points
        <4> QED
          BY <4>1, <4>3, <4>4
      <3> QED
        BY <3>1 DEF RuleScore, Lesser
    <2> QED
      BY <1>6, <2>2, <2>3 DEF Tier2
  <1>14. Tier3(s) = 0
    <2>1. UrlThreat(s) = 0
      BY <1>11 DEF UrlThreat, Lesser
    <2>2. CorrelationBonus(s) = 0
      BY <1>8 DEF CorrelationBonus, Lesser
    <2>3. UrlDomainAmplifier(s) = 0 /\ BecReplyToBonus(s) = 0
      BY <1>9 DEF UrlDomainAmplifier, BecReplyToBonus, Points
    <2> QED
      BY <2>1, <2>2, <2>3 DEF Tier3
  <1>15. FinalScore(s) \in 0..37
    BY <1>12, <1>13, <1>14 DEF FinalScore, Lesser
  <1>16. ~Corroborated(s)
    BY <1>9, <1>10 DEF Corroborated
  <1>17. RiskTier(s) = "SAFE"
    <2>1. RiskTier(s) \in Tiers
      BY <1>2, TierIsOfScore
    <2> QED
      BY <1>2, <1>15, <1>16, <2>1, TierIsOfScore DEF Tiers
  <1>18. ComputeRisk(s).tier = "SAFE"
    BY <1>11, <1>17 DEF ComputeRisk, IsMalware
  <1> QED
    BY <1>2, <1>18, ActionOfTier DEF s

-----------------------------------------------------------------------------
(* The scenarios of the security test: what has fired bounds the score from *)
(* below, whatever else is found.                                          *)

LEMMA RuleScoreFloors ==
    ASSUME NEW p \in Nat, NEW s \in Nat
    PROVE  /\ p >= 10 => RuleScore(p, s) >= 5
           /\ p >= 20 => RuleScore(p, s) >= 10
           /\ p >= 35 => RuleScore(p, s) >= 18
  <1>1. Blend(p, s) \in Nat
    BY BlendType
  <1>2. /\ p >= 10 => Blend(p, s) >= 7
        /\ p >= 20 => Blend(p, s) >= 14
        /\ p >= 35 => Blend(p, s) >= 25
    BY DEF Blend, Points
  <1>3. ASSUME NEW b \in Nat
        PROVE  /\ Blend(b, 0) \in Nat
               /\ b >= 7 => Blend(b, 0) >= 5
               /\ b >= 14 => Blend(b, 0) >= 10
               /\ b >= 25 => Blend(b, 0) >= 18
    BY DEF Blend, Points
  <1> QED
    BY <1>1, <1>2, <1>3 DEF RuleScore, Lesser

LEMMA ScoreFloor ==
    ASSUME NEW s \in SignalSets, NEW a \in Nat, NEW r \in Nat, NEW b \in Nat, NEW e \in Nat,
           AuthPenalty(s.auth) >= a, RuleScore(s.phishing, s.spam) >= r,
           BehaviorScore(s) >= b, CorrelationBonus(s) >= e
    PROVE  /\ Tier1(s) >= a /\ Tier2(s) >= r + b
           /\ FinalScore(s) >= Lesser(100, a + r + b + e)
  <1>1. /\ s.auth \in Auths /\ s.ip \in 0..100 /\ s.domain \in Int /\ s.phishing \in Nat
        /\ s.spam \in Nat
    BY DEF SignalSets
  <1>2. /\ AuthPenalty(s.auth) \in 0..50 /\ ReputationScore(s.ip, s.domain) \in 0..40
        /\ RuleScore(s.phishing, s.spam) \in 0..60 /\ BehaviorScore(s) \in 0..25
        /\ CorrelationBonus(s) \in 0..35 /\ UrlThreat(s) \in 0..30
        /\ UrlDomainAmplifier(s) \in 0..20 /\ BecReplyToBonus(s) \in {0, 30}
    BY <1>1, AuthPenaltyType, ReputationType, RuleScoreType, TiersType
  <1>3. Tier1(s) >= a /\ Tier1(s) \in Nat
    BY <1>2 DEF Tier1
  <1>4. Tier2(s) >= r + b /\ Tier2(s) \in Nat
    BY <1>2 DEF Tier2
  <1>5. Tier3(s) >= e /\ Tier3(s) \in Nat
    BY <1>2 DEF Tier3
  <1>6. ASSUME NEW x \in Nat, NEW y \in Nat, NEW z \in Nat, x >= a, y >= r + b, z >= e
        PROVE  Lesser(100, x + y + z) >= Lesser(100, a + r + b + e)
    BY <1>6 DEF Lesser
  <1> QED
    BY <1>3, <1>4, <1>5, <1>6 DEF FinalScore

\* 25 points and corroboration are enough to be held.
LEMMA HeldFrom25 ==
    ASSUME NEW s \in SignalSets, Coherent(s), FinalScore(s) >= 25, Corroborated(s)
    PROVE  ComputeAction(ComputeRisk(s)) # "allow"
  <1>1. CASE IsMalware(s) \/ s.maliciousUrl
    <2>1. ComputeRisk(s).tier # "SAFE"
      BY <1>1 DEF ComputeRisk, MaliciousOverride
    <2> QED
      BY <2>1, ThreatsNeverAllowed
  <1>2. CASE ~(IsMalware(s) \/ s.maliciousUrl)
    <2>1. FinalScore(s) \in 25..100
      BY TiersType
    <2>2. RiskTier(s) # "SAFE"
      <3>1. \/ FinalScore(s) >= 90 \/ FinalScore(s) \in 75..89
            \/ FinalScore(s) \in 50..74 \/ FinalScore(s) \in 25..49
        BY <2>1
      <3> QED
        BY <3>1, TierIsOfScore
    <2>3. ComputeRisk(s).tier = RiskTier(s)
      BY <1>2 DEF ComputeRisk
    <2> QED
      BY <2>2, <2>3, ThreatsNeverAllowed
  <1> QED
    BY <1>1, <1>2

\* A rule that no other amplifies adds its whole score.
LEMMA ScoreOfFired ==
    ASSUME NEW c \in Contexts, NEW report \in Reports, NEW r \in RuleNames \ SpamRules,
           RuleScores(c)[r] > 0, Amplifies(r, DOMAIN Results(c)) = {}
    PROVE  /\ r \in DOMAIN Results(c)
           /\ Scored(c, report).phishing >= RuleScores(c)[r]
           /\ RuleScores(c)[r] >= 20 => Scored(c, report).strong
  <1> DEFINE R == Results(c)
             S == DOMAIN R \ SpamRules
             sum == SumFunction([q \in S |-> R[q].amplified])
  <1>1. R \in ResultSets /\ r \in DOMAIN R /\ r \in S /\ R[r].amplified = RuleScores(c)[r]
    BY ResultsType
  <1>2. S \in SUBSET DOMAIN R
    OBVIOUS
  <1>3. sum >= R[r].amplified
    BY <1>1, <1>2, AmplifiedSum
  <1>4. Scored(c, report).phishing = sum
    BY DEF Scored, HandedOver
  <1>5. Scored(c, report).strong = (\E q \in DOMAIN R : R[q].original + R[q].amplified >= 20)
    BY DEF Scored, HandedOver
  <1>6. R[r].original \in Nat /\ R[r].amplified \in Nat
    BY <1>1 DEF ResultSets
  <1> HIDE DEF R, sum, S
  <1>7. RuleScores(c)[r] >= 20 => R[r].original + R[r].amplified >= 20
    BY <1>1, <1>6
  <1> QED
    BY <1>1, <1>3, <1>4, <1>5, <1>7 DEF R

LEMMA BonusOfPattern ==
    ASSUME NEW c \in Contexts, NEW report \in Reports, NEW p \in Correlate(DOMAIN Results(c))
    PROVE  Scored(c, report).bonus >= p.bonus
  BY PatternsMatched DEF Scored, HandedOver

LEMMA PatternsOfScenarios ==
    /\ \E p \in AttackPatterns :
          /\ p.bonus = 25 /\ "email_auth_failure" \in p.optional
          /\ p.required = {"urgent_phishing_language", "credential_harvesting_attempt"}
    /\ \E p \in AttackPatterns :
          /\ p.bonus = 30 /\ "reply_to_domain_mismatch" \in p.optional
          /\ p.required = {"bec_language_detected"}
    /\ \E p \in AttackPatterns :
          /\ p.bonus = 25 /\ "first_contact_sender_risk" \in p.optional
          /\ p.required = {"risky_attachment_detected"}
  BY DEF AttackPatterns

LEMMA PhishingText ==
    ASSUME NEW m, SameText(m, Phishing)
    PROVE  /\ m.caller = "test" /\ ~m.headers.received
           /\ {"urgent", "password", "form", "externalForm"} \subseteq m.cues
           /\ AuthSignals(m) = [spf |-> "fail", dkim |-> "fail", dmarc |-> "fail"]
  <1>1. m.caller = Phishing.caller /\ m.cues = Phishing.cues /\ m.headers = Phishing.headers
    BY DEF SameText
  <1>2. /\ Phishing.caller = "test" /\ Phishing.headers = Headers("fail", "fail", "fail")
        /\ Phishing.cues = {"brandName", "urgent", "phish", "actionWord", "password", "form",
                            "externalForm"}
    BY DEF Phishing, Mail
  <1>3. /\ m.headers.spf = "fail" /\ m.headers.dkim = "fail" /\ m.headers.dmarc = "fail"
        /\ m.headers.received = FALSE
    BY <1>1, <1>2 DEF Headers, NoHeaders
  <1>4. AuthSignals(m) = [spf |-> "fail", dkim |-> "fail", dmarc |-> "fail"]
    BY <1>3 DEF AuthSignals, ParseSpf, ParseDkim, ParseDmarc, Absent
  <1> QED
    BY <1>1, <1>2, <1>3, <1>4

LEMMA BecText ==
    ASSUME NEW m, SameText(m, Bec)
    PROVE  /\ m.caller = "test" /\ m.bec = 1 /\ m.sender = "brand"
           /\ m.headers.replyTo = "other"
           /\ AuthSignals(m) = [spf |-> "none", dkim |-> "none", dmarc |-> "none"]
  <1>1. /\ m.caller = Bec.caller /\ m.bec = Bec.bec /\ m.sender = Bec.sender
        /\ m.headers = Bec.headers
    BY DEF SameText
  <1>2. /\ Bec.caller = "test" /\ Bec.bec = 1 /\ Bec.sender = "brand"
        /\ Bec.headers = [NoHeaders EXCEPT !.replyTo = "other"]
    BY DEF Bec, Mail
  <1>3. /\ m.headers.spf = Absent /\ m.headers.receivedSpf = Absent /\ m.headers.dkim = Absent
        /\ m.headers.dmarc = Absent /\ m.headers.signature = FALSE /\ m.headers.replyTo = "other"
    BY <1>1, <1>2 DEF NoHeaders
  <1>4. AuthSignals(m) = [spf |-> "none", dkim |-> "none", dmarc |-> "none"]
    BY <1>3 DEF AuthSignals, ParseSpf, ParseDkim, ParseDmarc
  <1> QED
    BY <1>1, <1>2, <1>3, <1>4

LEMMA InvoiceText ==
    ASSUME NEW m, SameText(m, Invoice)
    PROVE  /\ m.caller = "test" /\ m.sender = "ordinary" /\ m.bare = TRUE /\ ~Urgent(m)
           /\ AuthSignals(m) = [spf |-> "none", dkim |-> "none", dmarc |-> "none"]
           /\ Len(m.files) = 1 /\ m.files[1].kind = "executable"
  <1>1. /\ m.caller = Invoice.caller /\ m.cues = Invoice.cues /\ m.sender = Invoice.sender
        /\ m.bare = Invoice.bare /\ m.headers = Invoice.headers
        /\ Len(m.files) = Len(Invoice.files)
        /\ \A i \in DOMAIN m.files : m.files[i].kind = Invoice.files[i].kind
    BY DEF SameText
  <1>2. /\ Invoice.caller = "test" /\ Invoice.sender = "ordinary" /\ Invoice.bare = TRUE
        /\ Invoice.headers = NoHeaders
        /\ Invoice.cues = {"bec", "wire", "payment", "financial", "financialWords"}
        /\ Invoice.files = <<[kind |-> "executable", report |-> NoReport]>>
    BY DEF Invoice, Mail
  <1>3. /\ m.headers.spf = Absent /\ m.headers.receivedSpf = Absent /\ m.headers.dkim = Absent
        /\ m.headers.dmarc = Absent /\ m.headers.signature = FALSE
    BY <1>1, <1>2 DEF NoHeaders
  <1>4. AuthSignals(m) = [spf |-> "none", dkim |-> "none", dmarc |-> "none"]
    BY <1>3 DEF AuthSignals, ParseSpf, ParseDkim, ParseDmarc
  <1>5. ~Urgent(m)
    BY <1>1, <1>2 DEF Urgent
  <1> QED
    BY <1>1, <1>2, <1>4, <1>5

LEMMA CleanText ==
    ASSUME NEW m, SameText(m, Clean)
    PROVE  /\ m.caller = "test" /\ m.cues = {} /\ m.bec = 0 /\ m.sender = "ordinary"
           /\ ~m.headers.received /\ m.headers.replyTo # "other"
           /\ AuthSignals(m) = [spf |-> "pass", dkim |-> "pass", dmarc |-> "pass"]
           /\ Len(m.urls) = 0 /\ Len(m.files) = 0
  <1>1. /\ m.caller = Clean.caller /\ m.cues = Clean.cues /\ m.sender = Clean.sender
        /\ m.bec = Clean.bec /\ m.headers = Clean.headers
        /\ Len(m.files) = Len(Clean.files) /\ Len(m.urls) = Len(Clean.urls)
    BY DEF SameText
  <1>2. /\ Clean.caller = "test" /\ Clean.sender = "ordinary" /\ Clean.bec = 0
        /\ Clean.headers = Headers("pass", "pass", "pass") /\ Clean.cues = {}
        /\ Clean.files = <<>> /\ Clean.urls = <<>>
    BY DEF Clean, Mail
  <1>3. /\ m.headers.spf = "pass" /\ m.headers.dkim = "pass" /\ m.headers.dmarc = "pass"
        /\ m.headers.received = FALSE /\ m.headers.replyTo = "none"
    BY <1>1, <1>2 DEF Headers, NoHeaders
  <1>4. AuthSignals(m) = [spf |-> "pass", dkim |-> "pass", dmarc |-> "pass"]
    BY <1>3 DEF AuthSignals, ParseSpf, ParseDkim, ParseDmarc, Absent
  <1> QED
    BY <1>1, <1>2, <1>3, <1>4

LEMMA AmplifiersOfScenarios ==
    \A i \in DOMAIN Graph :
       /\ "email_auth_failure" \in Graph[i].targets =>
             Graph[i].node = "suspicious_received_headers"
       /\ "bec_language_detected" \in Graph[i].targets =>
             Graph[i].node = "display_name_impersonation"
       /\ "risky_attachment_detected" \notin Graph[i].targets
  <1>1. \A i \in 1..6 : i = 1 \/ i = 2 \/ i = 3 \/ i = 4 \/ i = 5 \/ i = 6
    OBVIOUS
  <1>2. /\ Graph[2].node = "display_name_impersonation"
        /\ Graph[6].node = "suspicious_received_headers"
    BY DEF Graph
  <1>3. /\ Graph[1].targets =
             {"homoglyph_domain_spoofing", "lookalike_domain_attack",
              "sender_display_name_mismatch", "display_name_impersonation",
              "reply_to_domain_mismatch"}
        /\ Graph[2].targets =
             {"bec_language_detected", "first_contact_sender_risk", "reply_to_domain_mismatch"}
        /\ Graph[3].targets = {"first_contact_sender_risk", "reply_to_domain_mismatch"}
        /\ Graph[4].targets = {"credential_harvesting_attempt", "ip_based_url"}
        /\ Graph[5].targets = {"html_obfuscation_phishing", "base64_encoded_url"}
        /\ Graph[6].targets = {"email_auth_failure"}
    BY DEF Graph
  <1> QED
    BY <1>1, <1>2, <1>3, GraphFields

\* Phishing with failed authentication and a password form is deleted.
LEMMA PhishingDeleted ==
    ASSUME NEW c \in Contexts, NEW report \in Reports, SameText(c.m, Phishing),
           c.auth = AuthSignals(c.m), c.rep.ip = UnknownIp
    PROVE  ComputeAction(ComputeRisk(Scored(c, report))) = "delete"
  <1> DEFINE s == Scored(c, report)
             fired == DOMAIN Results(c)
  <1>1. s \in SignalSets /\ Coherent(s) /\ s.auth = c.auth
    BY SignalsCohere DEF Scored, HandedOver
  <1>2. /\ c.auth = [spf |-> "fail", dkim |-> "fail", dmarc |-> "fail"]
        /\ {"urgent", "password", "form", "externalForm"} \subseteq c.m.cues
    BY PhishingText
  <1>3. /\ RuleScores(c)["email_auth_failure"] = 35
        /\ RuleScores(c)["urgent_phishing_language"] > 0
        /\ RuleScores(c)["credential_harvesting_attempt"] > 0
        /\ RuleScores(c)["suspicious_received_headers"] = 0
    <2>1. AuthFailure(c) = 35
      <3>1. c.auth.spf = "fail" /\ c.auth.dkim = "fail" /\ c.auth.dmarc = "fail"
        BY <1>2
      <3>2. HasAuthFailure(c.auth)
        BY <3>1 DEF HasAuthFailure
      <3> QED
        BY <3>1, <3>2 DEF AuthFailure
    <2>2. UrgentPhishingLanguage(c) > 0
      BY <1>2 DEF UrgentPhishingLanguage, Points
    <2>3. CredentialHarvesting(c) > 0
      <3> DEFINE external == "externalForm" \in c.m.cues /\ "trustedForm" \notin c.m.cues
                 score == Points("password" \in c.m.cues, 40)
                             + Points(external, IF "password" \in c.m.cues THEN 30 ELSE 10)
                             + Points(external /\ "ipForm" \in c.m.cues, 15)
      <3>1. score \in Nat /\ score >= 40
        BY <1>2 DEF Points
      <3>2. CredentialHarvesting(c) =
               IF score = 0
               THEN Points("form" \in c.m.cues /\ "trustedForm" \notin c.m.cues, 5)
               ELSE Lesser(50, score)
        BY DEF CredentialHarvesting
      <3> HIDE DEF score
      <3> QED
        BY <3>1, <3>2 DEF Lesser
    <2>4. SuspiciousIp(c) = 0
      BY DEF SuspiciousIp, UnknownIp, Points, Lesser
    <2> QED
      BY <2>1, <2>2, <2>3, <2>4 DEF RuleScores
  <1>4. /\ {"urgent_phishing_language", "credential_harvesting_attempt", "email_auth_failure"}
              \subseteq fired
        /\ "suspicious_received_headers" \notin fired
    <2>1. fired = {r \in RuleNames : RuleScores(c)[r] > 0}
      BY ResultsType
    <2>2. {"urgent_phishing_language", "credential_harvesting_attempt", "email_auth_failure"}
             \subseteq RuleNames
      BY DEF RuleNames
    <2> HIDE DEF fired
    <2> QED
      BY <1>3, <2>1, <2>2
  <1>5. Amplifies("email_auth_failure", fired) = {}
    <2>1. \A i \in DOMAIN Graph : "email_auth_failure" \in Graph[i].targets =>
                                       Graph[i].node = "suspicious_received_headers"
      BY AmplifiersOfScenarios
    <2> QED
      BY <1>4, <2>1 DEF Amplifies
  <1>6. s.phishing >= 35
    <2>1. "email_auth_failure" \in RuleNames \ SpamRules
      BY DEF RuleNames, SpamRules
    <2> QED
      BY <1>3, <1>5, <2>1, ScoreOfFired
  <1>7. s.bonus >= 25 /\ s.bonus \in Nat
    <2>1. PICK p \in AttackPatterns :
             /\ p.bonus = 25 /\ "email_auth_failure" \in p.optional
             /\ p.required = {"urgent_phishing_language", "credential_harvesting_attempt"}
      BY PatternsOfScenarios
    <2>2. p \in Correlate(fired)
      BY <1>4, <2>1 DEF Correlate
    <2> QED
      BY <1>1, <2>1, <2>2, BonusOfPattern, SignalFields
  <1> HIDE DEF s, fired
  <1>8. AuthPenalty(s.auth) = 50
    BY <1>1, <1>2 DEF AuthPenalty, SpfPoints, DkimPoints, DmarcPoints, Points, Lesser
  <1>9. RuleScore(s.phishing, s.spam) >= 18
    BY <1>1, <1>6, SignalFields, RuleScoreFloors
  <1>10. BehaviorScore(s) >= 0
    BY <1>1, TiersType
  <1>11. CorrelationBonus(s) >= 25
    <2>1. Tier1(s) >= 50 /\ Tier2(s) >= 18
      <3>1. CorrelationBonus(s) >= 0
        BY <1>1, TiersType
      <3> QED
        BY <1>1, <1>8, <1>9, <1>10, <3>1, ScoreFloor
    <2>2. Tier1(s) + Tier2(s) >= 20
      BY <1>1, <2>1, TiersType
    <2> QED
      BY <1>7, <2>2 DEF CorrelationBonus, Lesser
  <1>12. Tier1(s) >= 50 /\ Tier2(s) >= 18 /\ FinalScore(s) >= 90
    <2>1. Tier1(s) >= 50 /\ Tier2(s) >= 18 + 0 /\ FinalScore(s) >= Lesser(100, 50 + 18 + 0 + 25)
      BY <1>1, <1>8, <1>9, <1>10, <1>11, ScoreFloor
    <2> QED
      BY <2>1, <1>1, TiersType DEF Lesser
  <1>13. Confidence(s) >= 85
    <2> DEFINE uncertain == Points(FinalScore(s) >= 75 /\ Tier1(s) < 10, 20)
               both == Points(Tier1(s) >= 20 /\ Tier2(s) >= 15, 15)
               raw == 40 + Tier1Confidence(Tier1(s)) + Tier2Confidence(Tier2(s)) + both
                         + 5 * Cardinality(s.patterns)
                         + 5 * Cardinality(s.patterns \cap CriticalPatterns) - uncertain
    <2>2. uncertain = 0 /\ both = 15
      BY <1>1, <1>12, TiersType DEF Points
    <2>3. Tier1Confidence(Tier1(s)) = 35 /\ Tier2Confidence(Tier2(s)) \in {6, 12, 20}
      BY <1>1, <1>12, TiersType DEF Tier1Confidence, Tier2Confidence, Points
    <2>4. Confidence(s) = Lesser(95, Greater(10, raw))
      BY DEF Confidence
    <2>5. raw >= 85 /\ raw \in Int
      <3>1. s.patterns \in SUBSET Patterns
        BY <1>1 DEF SignalSets
      <3>2. /\ Cardinality(s.patterns) \in Nat
            /\ Cardinality(s.patterns \cap CriticalPatterns) \in Nat
        BY <3>1, PatternCounts
      <3> HIDE DEF uncertain, both
      <3> QED
        BY <2>2, <2>3, <3>2
    <2> HIDE DEF raw
    <2> QED
      BY <2>4, <2>5 DEF Lesser, Greater
  <1>14. CASE IsMalware(s) \/ s.maliciousUrl
    BY <1>14, <1>1 DEF ComputeRisk, MaliciousOverride, ComputeAction, s
  <1>15. CASE ~(IsMalware(s) \/ s.maliciousUrl)
    <2>1. RiskTier(s) = "MALICIOUS"
      BY <1>1, <1>12, TierIsOfScore
    <2>2. ComputeRisk(s).tier = "MALICIOUS" /\ ComputeRisk(s).confidence = Confidence(s)
      BY <1>15, <2>1 DEF ComputeRisk
    <2>3. Confidence(s) \in Int
      BY <1>1, ConfidenceType
    <2>4. ComputeAction(ComputeRisk(s)) = "delete"
      BY <1>1, <1>13, <2>2, <2>3, ActionOfTier
    <2> QED
      BY <2>4 DEF s
  <1> QED
    BY <1>14, <1>15

\* Nothing but the lack of an authentication result is certain of these: 11 points.
LEMMA UnauthenticatedPenalty ==
    ASSUME NEW a, a = [spf |-> "none", dkim |-> "none", dmarc |-> "none"]
    PROVE  AuthPenalty(a) = 11
  BY DEF AuthPenalty, SpfPoints, DkimPoints, DmarcPoints, Points, Lesser

\* A text that asks for a wire transfer and for replies elsewhere is held, whatever its
\* sender's history and domain: 26 points.
LEMMA BecHeld ==
    ASSUME NEW c \in Contexts, NEW report \in Reports, SameText(c.m, Bec),
           c.auth = AuthSignals(c.m)
    PROVE  ComputeAction(ComputeRisk(Scored(c, report))) # "allow"
  <1> DEFINE s == Scored(c, report)
             fired == DOMAIN Results(c)
  <1>1. s \in SignalSets /\ Coherent(s) /\ s.auth = c.auth
    BY SignalsCohere DEF Scored, HandedOver
  <1>2. /\ c.auth = [spf |-> "none", dkim |-> "none", dmarc |-> "none"]
        /\ c.m.bec = 1 /\ c.m.sender = "brand" /\ c.m.headers.replyTo = "other"
    BY BecText
  <1>3. /\ RuleScores(c)["bec_language_detected"] = 10
        /\ RuleScores(c)["reply_to_domain_mismatch"] = 35
        /\ RuleScores(c)["display_name_impersonation"] = 0
    <2>1. BECLanguage(c) = 10
      BY <1>2 DEF BECLanguage, Lesser
    <2>2. ReplyToDomainMismatch(c) = 35
      BY <1>2 DEF ReplyToDomainMismatch, Points
    <2>3. DisplayNameImpersonation(c) = 0
      BY <1>2 DEF DisplayNameImpersonation, Points
    <2> QED
      BY <2>1, <2>2, <2>3 DEF RuleScores
  <1>4. /\ {"bec_language_detected", "reply_to_domain_mismatch"} \subseteq fired
        /\ "display_name_impersonation" \notin fired
        /\ "bec_language_detected" \in RuleNames \ SpamRules
    <2>1. fired = {r \in RuleNames : RuleScores(c)[r] > 0}
      BY ResultsType
    <2>2. /\ {"bec_language_detected", "reply_to_domain_mismatch"} \subseteq RuleNames
          /\ "bec_language_detected" \notin SpamRules
      BY DEF RuleNames, SpamRules
    <2> HIDE DEF fired
    <2> QED
      BY <1>3, <2>1, <2>2
  <1>5. Amplifies("bec_language_detected", fired) = {}
    BY <1>4, AmplifiersOfScenarios DEF Amplifies
  <1>6. s.phishing >= 10
    BY <1>3, <1>4, <1>5, ScoreOfFired
  <1>7. s.bonus >= 30 /\ s.bonus \in Nat
    <2>1. PICK p \in AttackPatterns :
             /\ p.bonus = 30 /\ "reply_to_domain_mismatch" \in p.optional
             /\ p.required = {"bec_language_detected"}
      BY PatternsOfScenarios
    <2>2. p \in Correlate(fired)
      BY <1>4, <2>1 DEF Correlate
    <2> QED
      BY <1>1, <2>1, <2>2, BonusOfPattern, SignalFields
  <1>8. s.strong
    <2> DEFINE R == Results(c)
               r == "reply_to_domain_mismatch"
    <2>1. R \in ResultSets /\ r \in DOMAIN R
      BY <1>4, ResultsType
    <2>2. R[r].original = 35 /\ R[r].amplified \in 0..100
      <3>1. /\ RunRuleEngine(c) \in ResultSets /\ r \in DOMAIN RunRuleEngine(c)
            /\ RunRuleEngine(c)[r].original = RuleScores(c)[r]
        <4> DEFINE E == RunRuleEngine(c)
        <4>1. r \in RuleNames
          BY DEF RuleNames
        <4>2. /\ E \in ResultSets /\ DOMAIN E = {q \in RuleNames : RuleScores(c)[q] > 0}
              /\ \A q \in DOMAIN E : E[q] = [original |-> RuleScores(c)[q],
                                             amplified |-> RuleScores(c)[q]]
          BY EngineType
        <4> HIDE DEF E
        <4>3. r \in DOMAIN E
          BY <1>3, <4>1, <4>2
        <4>4. E[r] = [original |-> RuleScores(c)[r], amplified |-> RuleScores(c)[r]]
          BY <4>2, <4>3
        <4>5. E[r].original = RuleScores(c)[r]
          BY <4>4
        <4> QED
          BY <4>2, <4>3, <4>5 DEF E
      <3>2. R[r].original = RunRuleEngine(c)[r].original
        BY <3>1, GraphType DEF Results
      <3>3. R[r].amplified \in 0..100
        BY <2>1 DEF ResultSets
      <3> QED
        BY <1>3, <3>1, <3>2, <3>3
    <2>3. s.strong = (\E q \in DOMAIN R : R[q].original + R[q].amplified >= 20)
      BY DEF Scored, HandedOver
    <2> HIDE DEF R, r
    <2> QED
      BY <2>1, <2>2, <2>3
  <1> HIDE DEF s, fired
  <1>9. FinalScore(s) >= 25
    <2>1. AuthPenalty(s.auth) >= 11
      <3>1. AuthPenalty(s.auth) = 11
        BY <1>1, <1>2, UnauthenticatedPenalty
      <3> QED
        BY <3>1
    <2>2. RuleScore(s.phishing, s.spam) >= 5
      BY <1>1, <1>6, SignalFields, RuleScoreFloors
    <2>3. CorrelationBonus(s) >= 10
      BY <1>7 DEF CorrelationBonus, Lesser
    <2>4. BehaviorScore(s) >= 0
      BY <1>1, TiersType
    <2>5. FinalScore(s) >= Lesser(100, 11 + 5 + 0 + 10)
      BY <1>1, <2>1, <2>2, <2>3, <2>4, ScoreFloor
    <2> QED
      BY <2>5, <1>1, TiersType DEF Lesser
  <1>10. ComputeAction(ComputeRisk(s)) # "allow"
    BY <1>1, <1>8, <1>9, HeldFrom25 DEF Corroborated
  <1> QED
    BY <1>10 DEF s

LEMMA ProgramIsRisky ==
    ASSUME NEW c \in Contexts, Len(c.m.files) = 1, c.m.files[1].kind = "executable",
           ~Urgent(c.m)
    PROVE  RiskyAttachment(c) = 20 /\ HasAttachment(c.m)
  <1> DEFINE w == [i \in DOMAIN c.m.files |-> FilePoints(c.m, c.m.files[i].kind)]
  <1>1. c.m.files \in Seq([kind : FileKinds, report : Reports])
    BY ContextFields, MailFields
  <1>2. DOMAIN c.m.files = {1} /\ c.m.files # <<>>
    BY <1>1
  <1>3. FilePoints(c.m, "executable") = 20
    BY DEF FilePoints, Points
  <1>4. DOMAIN w = {1} /\ w[1] = 20
    BY <1>2, <1>3
  <1> HIDE DEF w
  <1>5. SumFunction(w) = 20
    <2>1. PICK f : Recursion(w, DOMAIN w, f) /\ SumFunction(w) = f[DOMAIN w]
      <3>1. IsFiniteSet(DOMAIN w)
        BY <1>4, FS_Singleton
      <3> QED
        BY <3>1, SumIsRecursive
    <2>2. Pick({1}) = 1 /\ {1} \ {1} = {}
      BY Picked
    <2>3. f[{1}] = w[1] + f[{}] /\ f[{}] = 0
      BY <1>4, <2>1, <2>2 DEF Recursion
    <2> QED
      BY <1>4, <2>1, <2>3
  <1>6. RiskyAttachment(c) = Lesser(30, SumFunction(w))
    BY DEF RiskyAttachment, w
  <1> QED
    BY <1>2, <1>5, <1>6 DEF Lesser, HasAttachment

\* A program in an invoice is held when the sender is new, or the behaviour stage has
\* anything against the earlier mails: 28 points.
LEMMA InvoiceHeld ==
    ASSUME NEW c \in Contexts, NEW report \in Reports, SameText(c.m, Invoice),
           c.auth = AuthSignals(c.m), c.beh.count = 0 \/ c.beh.score >= 7
    PROVE  ComputeAction(ComputeRisk(Scored(c, report))) # "allow"
  <1> DEFINE s == Scored(c, report)
             fired == DOMAIN Results(c)
  <1>1. s \in SignalSets /\ Coherent(s) /\ s.auth = c.auth /\ s.behavior = c.beh.score
    BY SignalsCohere DEF Scored, HandedOver
  <1>2. /\ c.auth = [spf |-> "none", dkim |-> "none", dmarc |-> "none"]
        /\ RiskyAttachment(c) = 20 /\ HasAttachment(c.m)
    BY InvoiceText, ProgramIsRisky
  <1>3. RuleScores(c)["risky_attachment_detected"] = 20
    BY <1>2 DEF RuleScores
  <1>4. /\ "risky_attachment_detected" \in fired
        /\ "risky_attachment_detected" \in RuleNames \ SpamRules
    <2>1. fired = {r \in RuleNames : RuleScores(c)[r] > 0}
      BY ResultsType
    <2>2. /\ "risky_attachment_detected" \in RuleNames
          /\ "risky_attachment_detected" \notin SpamRules
      BY DEF RuleNames, SpamRules
    <2> HIDE DEF fired
    <2> QED
      BY <1>3, <2>1, <2>2
  <1>5. Amplifies("risky_attachment_detected", fired) = {}
    BY AmplifiersOfScenarios DEF Amplifies
  <1>6. s.phishing >= 20 /\ s.strong
    BY <1>3, <1>4, <1>5, ScoreOfFired
  <1>7. AuthPenalty(s.auth) = 11
    BY <1>1, <1>2, UnauthenticatedPenalty
  <1>8. RuleScore(s.phishing, s.spam) >= 10
    BY <1>1, <1>6, SignalFields, RuleScoreFloors
  <1>9. CASE c.beh.count = 0
    <2>1. s.bonus >= 25 /\ s.bonus \in Nat
      <3>1. FirstContactRisk(c) > 0
        BY <1>2, <1>9 DEF FirstContactRisk, Points
      <3>2. "first_contact_sender_risk" \in fired
        <4>1. RuleScores(c)["first_contact_sender_risk"] = FirstContactRisk(c)
          BY DEF RuleScores
        <4>2. "first_contact_sender_risk" \in RuleNames
          BY DEF RuleNames
        <4> QED
          BY <3>1, <4>1, <4>2, ResultsType
      <3>3. PICK p \in AttackPatterns :
               /\ p.bonus = 25 /\ "first_contact_sender_risk" \in p.optional
               /\ p.required = {"risky_attachment_detected"}
        BY PatternsOfScenarios
      <3>4. p \in Correlate(fired)
        BY <1>4, <3>2, <3>3 DEF Correlate
      <3> QED
        BY <1>1, <3>3, <3>4, BonusOfPattern, SignalFields
    <2> HIDE DEF s, fired
    <2>2. CorrelationBonus(s) >= 10
      BY <2>1 DEF CorrelationBonus, Lesser
    <2>3. BehaviorScore(s) >= 0
      BY <1>1, TiersType
    <2>4. FinalScore(s) >= Lesser(100, 11 + 10 + 0 + 10)
      BY <1>1, <1>7, <1>8, <2>2, <2>3, ScoreFloor
    <2>5. FinalScore(s) >= 25
      BY <2>4, <1>1, TiersType DEF Lesser
    <2> QED
      BY <1>1, <1>6, <2>5, HeldFrom25 DEF Corroborated, s
  <1>10. CASE c.beh.score >= 7
    <2> HIDE DEF s, fired
    <2>1. BehaviorScore(s) >= 7
      BY <1>1, <1>10, SignalFields DEF BehaviorScore, Lesser
    <2>2. CorrelationBonus(s) >= 0
      BY <1>1, TiersType
    <2>3. FinalScore(s) >= Lesser(100, 11 + 10 + 7 + 0)
      BY <1>1, <1>7, <1>8, <2>1, <2>2, ScoreFloor
    <2>4. FinalScore(s) >= 25
      BY <2>3, <1>1, TiersType DEF Lesser
    <2> QED
      BY <1>1, <1>6, <2>4, HeldFrom25 DEF Corroborated, s
  <1> QED
    BY <1>9, <1>10

-----------------------------------------------------------------------------
(* The invariant of an analysis.                                           *)
Fixed ==
    /\ mail \in Mails /\ filed \in BOOLEAN /\ runs \in 1..MaxRuns
    /\ pc \in {"gather", "amplify", "judge", "done"}
    /\ waiting \in SUBSET Stages /\ failed \in SUBSET (Stages \cup {"malware"})
    /\ window \in BOOLEAN

\* A stage that has answered, and not failed, has left what it finds.
Gathered ==
    /\ context \in Contexts /\ context.m = Input(mail) /\ context.auth = AuthSignals(context.m)
    /\ "reputation" \notin waiting \cup failed =>
          context.rep = ReputationSignals(context.m, TRUE)
    /\ pc # "done" /\ "behavior" \notin waiting \cup failed =>
          context.beh = BehaviorSignals(context.m, Stored, filed)
    /\ "urls" \notin waiting \cup failed => context.url = UrlSignals(context.m)

Scanned ==
    /\ scan \in [at : 1..(Len(mail.files) + 1), attempt : 0..MaxRetries, merged : Reports,
                 answered : SUBSET DOMAIN mail.files]
    /\ scan.answered \in SUBSET (1..(scan.at - 1))
    /\ Best(mail.files, scan.answered, scan.merged)
    /\ "malware" \notin failed => window /\ scan.answered = 1..(scan.at - 1)

Phase ==
    /\ pc # "gather" => waiting = {} /\ ~(window /\ scan.at \in DOMAIN mail.files)
    /\ pc = "gather" => results = <<>>
    /\ pc = "amplify" => results = RunRuleEngine(context)
    /\ pc \in {"judge", "done"} => results = Results(context)

Decided ==
    pc = "done" =>
        /\ signals = Scored(context, Malware)
        /\ risk = ComputeRisk(signals) /\ action = ComputeAction(risk)
        /\ failed = {} => \E flag \in BOOLEAN : context = Whole(mail, flag)

Entries == [mail : Mails, filed : BOOLEAN, tier : Tiers]
Justified(e) ==
    \E report \in Reports :
        /\ Best(e.mail.files, DOMAIN e.mail.files, report)
        /\ e.tier = ComputeRisk(Scored(Whole(e.mail, e.filed), report)).tier
Recorded == history \in Seq(Entries) /\ \A k \in DOMAIN history : Justified(history[k])

DetectionInv == Fixed /\ Gathered /\ Scanned /\ Phase /\ Decided /\ Recorded

LEMMA FilesOfMail ==
    ASSUME NEW n \in Mails
    PROVE  /\ n.files \in Files /\ DOMAIN n.files = 1..Len(n.files) /\ Len(n.files) \in Nat
           /\ Input(n).files = n.files
  <1>1. n.files \in Seq([kind : FileKinds, report : Reports]) /\ Input(n).files = n.files
    BY InputType, MailFields
  <1> QED
    BY <1>1 DEF Files

LEMMA ParsedType ==
    ASSUME NEW n \in Mails
    PROVE  Parsed(Input(n)) \in Contexts
  <1>1. IsMail(Input(n)) /\ Input(n) \in Inputs
    BY InputType
  <1>2. AuthSignals(Input(n)) \in Auths
    BY <1>1, MailFields, AuthType
  <1>3. UnknownReputation \in Reputations
    BY <1>1, ReputationSignalsType
  <1>4. DefaultBehavior \in Behaviors /\ NoUrls \in UrlResults
    BY DEF DefaultBehavior, Behaviors, NoUrls, UrlResults
  <1> QED
    BY <1>1, <1>2, <1>3, <1>4 DEF Parsed, Contexts

LEMMA NoScanType ==
    ASSUME NEW n \in Mails
    PROVE  /\ NoScan \in [at : 1..(Len(n.files) + 1), attempt : 0..MaxRetries, merged : Reports,
                          answered : SUBSET DOMAIN n.files]
           /\ NoScan.answered = 1..(NoScan.at - 1)
           /\ Best(n.files, NoScan.answered, NoScan.merged)
  <1>1. Len(n.files) \in Nat /\ MaxRetries \in Nat /\ NoReport \in Reports
    BY FilesOfMail, DetectionAssumption DEF NoReport, Reports
  <1>2. NoScan = [at |-> 1, attempt |-> 0, merged |-> NoReport, answered |-> {}]
    BY DEF NoScan
  <1>3. 1 \in 1..(Len(n.files) + 1) /\ 0 \in 0..MaxRetries /\ 1..(1 - 1) = {}
    BY <1>1
  <1> QED
    BY <1>1, <1>2, <1>3 DEF Best

LEMMA InitInv == Init => DetectionInv
  <1> SUFFICES ASSUME Init PROVE DetectionInv
    OBVIOUS
  <1>1. Fixed
    <2>1. mail \in Mails /\ pc = "gather" /\ waiting = Stages /\ failed = {} /\ runs \in 1..MaxRuns
      BY DetectionAssumption DEF Init
    <2>2. filed \in BOOLEAN /\ window \in BOOLEAN
      BY DEF Init
    <2> QED
      BY <2>1, <2>2 DEF Fixed
  <1>2. Gathered
    <2>1. context = Parsed(Input(mail)) /\ mail \in Mails /\ waiting = Stages
      BY DEF Init
    <2> QED
      BY <2>1, ParsedType DEF Gathered, Parsed, Stages
  <1>3. Scanned
    BY NoScanType DEF Init, Scanned
  <1>4. Phase /\ Decided
    BY DEF Init, Phase, Decided
  <1>5. Recorded
    BY DEF Init, Recorded
  <1> QED
    BY <1>1, <1>2, <1>3, <1>4, <1>5 DEF DetectionInv

LEMMA FixedStep ==
    ASSUME DetectionInv, [Next]_vars
    PROVE  Fixed'
  <1> USE DEF DetectionInv, Fixed
  <1>1. CASE CheckReputation
    BY <1>1 DEF CheckReputation, Stages
  <1>2. CASE AnalyzeBehavior \/ AnalyzeUrls
    BY <1>2 DEF AnalyzeBehavior, AnalyzeUrls
  <1>3. CASE \E s \in Stages : FailStage(s)
    BY <1>3 DEF FailStage
  <1>4. CASE ScanAnswers \/ ScanUnavailable \/ RunRules \/ Amplify
    BY <1>4 DEF ScanAnswers, ScanUnavailable, RunRules, Amplify, gathering
  <1>5. CASE ScanFails \/ CloseWindow
    BY <1>5 DEF ScanFails, CloseWindow, gathering
  <1>6. CASE Judge
    <2>1. filed' \in BOOLEAN
      BY <1>6 DEF Judge
    <2> QED
      BY <1>6, <2>1 DEF Judge, gathering
  <1>7. CASE Rescan
    BY <1>7, DetectionAssumption DEF Rescan, Begin
  <1>8. CASE UNCHANGED vars
    BY <1>8 DEF vars, gathering
  <1> QED
    BY <1>1, <1>2, <1>3, <1>4, <1>5, <1>6, <1>7, <1>8 DEF Next, Step

LEMMA GatheredStep ==
    ASSUME DetectionInv, [Next]_vars
    PROVE  Gathered'
  <1>1. /\ context \in Contexts /\ context.m = Input(mail)
        /\ context.auth = AuthSignals(context.m) /\ mail \in Mails /\ filed \in BOOLEAN
    BY DEF DetectionInv, Gathered, Fixed
  <1>2. IsMail(context.m) /\ Stored \in BOOLEAN
    BY <1>1, InputType DEF Stored
  <1>3. pc = "gather" \/ waiting = {}
    BY DEF DetectionInv, Phase, Fixed
  <1>4. context \in [m : Inputs, auth : Auths, rep : Reputations, beh : Behaviors, url : UrlResults]
    BY <1>1 DEF Contexts
  <1>5. CASE CheckReputation
    <2>1. PICK answers \in BOOLEAN :
             /\ context' = [context EXCEPT !.rep = ReputationSignals(context.m, answers)]
             /\ failed' = IF answers THEN failed ELSE failed \cup {"reputation"}
      BY <1>5 DEF CheckReputation
    <2>2. ReputationSignals(context.m, answers) \in Reputations
      BY <1>2, ReputationSignalsType
    <2>3. context' \in Contexts /\ context'.m = context.m /\ context'.auth = context.auth
          /\ context'.rep = ReputationSignals(context.m, answers)
          /\ context'.beh = context.beh /\ context'.url = context.url
      BY <1>4, <2>1, <2>2 DEF Contexts
    <2>4. waiting' = waiting \ {"reputation"} /\ UNCHANGED <<mail, filed, pc>>
      BY <1>5 DEF CheckReputation
    <2>5. "reputation" \notin failed' => answers = TRUE
      BY <2>1
    <2>6. failed \subseteq failed'
      BY <2>1
    <2>7. "reputation" \notin waiting' \cup failed' =>
             context'.rep = ReputationSignals(context'.m, TRUE)
      BY <2>3, <2>5
    <2>8. "behavior" \notin waiting' \cup failed' => "behavior" \notin waiting \cup failed
      BY <2>4, <2>6
    <2>9. "urls" \notin waiting' \cup failed' => "urls" \notin waiting \cup failed
      BY <2>4, <2>6
    <2> QED
      BY <1>1, <2>3, <2>4, <2>7, <2>8, <2>9 DEF DetectionInv, Gathered, Stored
  <1>6. CASE AnalyzeBehavior
    <2>1. BehaviorSignals(context.m, Stored, filed) \in Behaviors
      BY <1>1, <1>2, BehaviorSignalsType
    <2>2. context' = [context EXCEPT !.beh = BehaviorSignals(context.m, Stored, filed)]
      BY <1>6 DEF AnalyzeBehavior
    <2>3. context' \in Contexts /\ context'.m = context.m /\ context'.auth = context.auth
          /\ context'.rep = context.rep /\ context'.url = context.url
          /\ context'.beh = BehaviorSignals(context.m, Stored, filed)
      BY <1>4, <2>1, <2>2 DEF Contexts
    <2>4. waiting' = waiting \ {"behavior"} /\ UNCHANGED <<mail, filed, pc, failed>>
      BY <1>6 DEF AnalyzeBehavior
    <2> QED
      BY <1>1, <2>3, <2>4 DEF DetectionInv, Gathered, Stored
  <1>7. CASE AnalyzeUrls
    <2>1. UrlSignals(context.m) \in UrlResults
      BY <1>2, UrlSignalsType
    <2>2. context' = [context EXCEPT !.url = UrlSignals(context.m)]
      BY <1>7 DEF AnalyzeUrls
    <2>3. context' \in Contexts /\ context'.m = context.m /\ context'.auth = context.auth
          /\ context'.rep = context.rep /\ context'.beh = context.beh
          /\ context'.url = UrlSignals(context.m)
      BY <1>4, <2>1, <2>2 DEF Contexts
    <2>4. waiting' = waiting \ {"urls"} /\ UNCHANGED <<mail, filed, pc, failed>>
      BY <1>7 DEF AnalyzeUrls
    <2> QED
      BY <1>1, <2>3, <2>4 DEF DetectionInv, Gathered, Stored
  <1>8. CASE \E s \in Stages : FailStage(s)
    <2>1. PICK s \in Stages : FailStage(s)
      BY <1>8
    <2>2. /\ waiting' = waiting \ {s} /\ failed' = failed \cup {s}
          /\ UNCHANGED <<mail, filed, pc, context>>
      BY <2>1 DEF FailStage
    <2>3. waiting \cup failed \subseteq waiting' \cup failed'
      BY <2>2
    <2> QED
      BY <2>2, <2>3 DEF DetectionInv, Gathered, Stored
  <1>9. CASE ScanFails \/ CloseWindow
    <2>1. failed \subseteq failed' /\ UNCHANGED <<mail, filed, pc, context, waiting>>
      BY <1>9 DEF ScanFails, CloseWindow, gathering
    <2> QED
      BY <2>1 DEF DetectionInv, Gathered, Stored
  <1>10. CASE ScanAnswers \/ ScanUnavailable
    BY <1>10 DEF ScanAnswers, ScanUnavailable, gathering, DetectionInv, Gathered, Stored
  <1>11. CASE RunRules
    BY <1>11 DEF RunRules, gathering, DetectionInv, Gathered, Stored
  <1>12. CASE Amplify
    BY <1>12 DEF Amplify, gathering, DetectionInv, Gathered, Stored
  <1>13. CASE Judge
    BY <1>13 DEF Judge, gathering, DetectionInv, Gathered
  <1>14. CASE Rescan
    <2>1. PICK n \in Mails : mail' = n /\ context' = Parsed(Input(n)) /\ waiting' = Stages
      BY <1>14 DEF Rescan, Begin
    <2> QED
      BY <2>1, ParsedType DEF Gathered, Parsed, Stages
  <1>15. CASE UNCHANGED vars
    BY <1>15 DEF vars, gathering, DetectionInv, Gathered, Stored
  <1> QED
    BY <1>5, <1>6, <1>7, <1>8, <1>9, <1>10, <1>11, <1>12, <1>13, <1>14, <1>15 DEF Next, Step

LEMMA ScannedStep ==
    ASSUME DetectionInv, [Next]_vars
    PROVE  Scanned'
  <1> DEFINE files == mail.files
             Scans(S) == [at : 1..(Len(S) + 1), attempt : 0..MaxRetries, merged : Reports,
                          answered : SUBSET DOMAIN S]
  <1>1. /\ scan \in Scans(files) /\ scan.answered \in SUBSET (1..(scan.at - 1))
        /\ Best(files, scan.answered, scan.merged) /\ mail \in Mails
        /\ "malware" \notin failed => window /\ scan.answered = 1..(scan.at - 1)
    BY DEF DetectionInv, Scanned, Fixed
  <1>2. files \in Files /\ DOMAIN files = 1..Len(files) /\ Len(files) \in Nat /\ MaxRetries \in Nat
    BY <1>1, FilesOfMail, DetectionAssumption
  <1>3. /\ scan.at \in 1..(Len(files) + 1) /\ scan.attempt \in 0..MaxRetries
        /\ scan.merged \in Reports /\ scan.answered \in SUBSET DOMAIN files
        /\ scan = [at |-> scan.at, attempt |-> scan.attempt, merged |-> scan.merged,
                   answered |-> scan.answered]
    BY <1>1
  <1>4. CASE ScanAnswers
    <2> DEFINE report == files[scan.at].report
               merged == IF scan.answered = {} THEN report ELSE MergeMalwareSignals(scan.merged, report)
               more == scan.answered \cup {scan.at}
    <2>1. /\ scan' = [at |-> scan.at + 1, attempt |-> 0, merged |-> merged, answered |-> more]
          /\ mail' = mail /\ failed' = failed /\ window' = window /\ scan.at \in DOMAIN files
      BY <1>4 DEF ScanAnswers, Scanning
    <2>2. Best(files, more, merged)
      BY <1>1, <1>2, <2>1, BestIsMerged
    <2>3. more \in SUBSET DOMAIN files
      BY <1>3, <2>1
    <2> HIDE DEF merged
    <2>4. merged \in Reports
      BY <1>2, <2>2, <2>3, BestIsReport
    <2>5. more \in SUBSET (1..((scan.at + 1) - 1)) /\ scan.at + 1 \in 1..(Len(files) + 1)
          /\ (scan.answered = 1..(scan.at - 1) => more = 1..((scan.at + 1) - 1))
      BY <1>1, <1>2, <1>3, <2>1
    <2>6. scan' \in Scans(files)
      BY <1>2, <2>1, <2>3, <2>4, <2>5
    <2>7. scan'.answered = more /\ scan'.at = scan.at + 1 /\ scan'.merged = merged
      BY <2>1
    <2> HIDE DEF more
    <2> QED
      BY <1>1, <2>1, <2>2, <2>5, <2>6, <2>7 DEF Scanned
  <1>5. CASE ScanUnavailable
    <2>1. /\ scan' = [scan EXCEPT !.attempt = scan.attempt + 1] /\ scan.attempt < MaxRetries
          /\ mail' = mail /\ failed' = failed /\ window' = window
      BY <1>5 DEF ScanUnavailable
    <2>2. scan' \in Scans(files) /\ scan'.at = scan.at /\ scan'.merged = scan.merged
          /\ scan'.answered = scan.answered
      BY <1>1, <1>2, <1>3, <2>1
    <2> QED
      BY <1>1, <2>1, <2>2 DEF Scanned
  <1>6. CASE ScanFails
    <2>1. /\ scan' = [scan EXCEPT !.at = scan.at + 1, !.attempt = 0]
          /\ mail' = mail /\ failed' = failed \cup {"malware"} /\ scan.at \in DOMAIN files
      BY <1>6 DEF ScanFails, Scanning
    <2>2. scan.at + 1 \in 1..(Len(files) + 1) /\ 0 \in 0..MaxRetries
      BY <1>2, <2>1
    <2>3. scan' \in Scans(files) /\ scan'.at = scan.at + 1 /\ scan'.merged = scan.merged
          /\ scan'.answered = scan.answered
      BY <1>1, <1>3, <2>1, <2>2
    <2>4. scan.answered \in SUBSET (1..((scan.at + 1) - 1))
      BY <1>1, <1>2, <1>3
    <2> QED
      BY <1>1, <2>1, <2>3, <2>4 DEF Scanned
  <1>7. CASE CloseWindow
    BY <1>1, <1>7 DEF CloseWindow, Scanned
  <1>8. CASE CheckReputation
    BY <1>1, <1>8 DEF CheckReputation, Scanned
  <1>9. CASE \E s \in Stages : FailStage(s)
    BY <1>1, <1>9 DEF FailStage, Scanned
  <1>10. CASE AnalyzeBehavior \/ AnalyzeUrls
    BY <1>1, <1>10 DEF AnalyzeBehavior, AnalyzeUrls, Scanned
  <1>11. CASE RunRules \/ Amplify \/ Judge
    BY <1>1, <1>11 DEF RunRules, Amplify, Judge, Scanned
  <1>12. CASE Rescan
    <2>1. PICK n \in Mails : mail' = n /\ scan' = NoScan /\ window' = TRUE
      BY <1>12 DEF Rescan, Begin
    <2> QED
      BY <2>1, NoScanType DEF Scanned
  <1>13. CASE UNCHANGED vars
    BY <1>1, <1>13 DEF vars, Scanned
  <1> QED
    BY <1>4, <1>5, <1>6, <1>7, <1>8, <1>9, <1>10, <1>11, <1>12, <1>13 DEF Next, Step

LEMMA PhaseStep ==
    ASSUME DetectionInv, [Next]_vars
    PROVE  Phase'
  <1>1. /\ pc # "gather" => waiting = {} /\ ~(window /\ scan.at \in DOMAIN mail.files)
        /\ pc = "gather" => results = <<>>
        /\ pc = "amplify" => results = RunRuleEngine(context)
        /\ pc \in {"judge", "done"} => results = Results(context)
        /\ pc \in {"gather", "amplify", "judge", "done"}
    BY DEF DetectionInv, Phase, Fixed
  <1>2. CASE CheckReputation \/ AnalyzeBehavior \/ AnalyzeUrls \/ \E s \in Stages : FailStage(s)
    <2>1. pc = "gather" /\ pc' = pc /\ results' = results
      BY <1>1, <1>2 DEF CheckReputation, AnalyzeBehavior, AnalyzeUrls, FailStage
    <2> QED
      BY <1>1, <2>1 DEF Phase
  <1>3. CASE ScanAnswers \/ ScanUnavailable \/ ScanFails \/ CloseWindow
    <2>1. pc = "gather" /\ pc' = pc /\ results' = results
      BY <1>3 DEF ScanAnswers, ScanUnavailable, ScanFails, CloseWindow, Scanning
    <2> QED
      BY <1>1, <2>1 DEF Phase
  <1>4. CASE RunRules
    BY <1>4 DEF RunRules, Phase, gathering, Scanning
  <1>5. CASE Amplify
    BY <1>1, <1>5 DEF Amplify, Phase, gathering, Results
  <1>6. CASE Judge
    BY <1>1, <1>6 DEF Judge, Phase, gathering
  <1>7. CASE Rescan
    BY <1>7 DEF Rescan, Begin, Phase
  <1>8. CASE UNCHANGED vars
    BY <1>1, <1>8 DEF vars, Phase, gathering
  <1> QED
    BY <1>2, <1>3, <1>4, <1>5, <1>6, <1>7, <1>8 DEF Next, Step

\* When nothing failed, the context is that of a mail of which everything answered,
\* and the report that of all its files.
LEMMA NothingMissing ==
    ASSUME DetectionInv, pc = "judge", failed = {}
    PROVE  /\ context = Whole(mail, filed) /\ window
           /\ scan.answered = DOMAIN mail.files
  <1>1. /\ context \in Contexts /\ context.m = Input(mail)
        /\ context.auth = AuthSignals(context.m) /\ waiting = {}
        /\ context.rep = ReputationSignals(context.m, TRUE)
        /\ context.beh = BehaviorSignals(context.m, mail.caller = "processor", filed)
        /\ context.url = UrlSignals(context.m)
    BY DEF DetectionInv, Gathered, Phase, Stored
  <1>2. context = [m |-> context.m, auth |-> context.auth, rep |-> context.rep,
                   beh |-> context.beh, url |-> context.url]
    BY <1>1 DEF Contexts
  <1>3. context = Whole(mail, filed)
    BY <1>1, <1>2 DEF Whole
  <1>4. /\ window /\ scan.answered = 1..(scan.at - 1) /\ scan.at \notin DOMAIN mail.files
        /\ scan.at \in 1..(Len(mail.files) + 1)
    BY DEF DetectionInv, Scanned, Phase
  <1>5. DOMAIN mail.files = 1..Len(mail.files) /\ Len(mail.files) \in Nat
    BY FilesOfMail DEF DetectionInv, Fixed
  <1>6. scan.at = Len(mail.files) + 1
    BY <1>4, <1>5
  <1> QED
    BY <1>3, <1>4, <1>5, <1>6

LEMMA DecidedStep ==
    ASSUME DetectionInv, [Next]_vars
    PROVE  Decided'
  <1>1. CASE CheckReputation \/ AnalyzeBehavior \/ AnalyzeUrls \/ \E s \in Stages : FailStage(s)
    <2>1. pc' # "done"
      BY <1>1 DEF CheckReputation, AnalyzeBehavior, AnalyzeUrls, FailStage, DetectionInv, Phase, Fixed
    <2> QED
      BY <2>1 DEF Decided
  <1>2. CASE ScanAnswers \/ ScanUnavailable \/ ScanFails \/ CloseWindow
    BY <1>2 DEF ScanAnswers, ScanUnavailable, ScanFails, CloseWindow, Scanning, Decided
  <1>3. CASE RunRules \/ Amplify \/ Rescan
    BY <1>3 DEF RunRules, Amplify, Rescan, Begin, Decided
  <1>4. CASE Judge
    <2>1. /\ signals' = HandedOver(context, results, Malware) /\ results = Results(context)
          /\ pc = "judge" /\ risk' = ComputeRisk(signals') /\ action' = ComputeAction(risk')
          /\ UNCHANGED <<mail, context, failed, window, scan>>
      BY <1>4 DEF Judge, DetectionInv, Phase, gathering
    <2>2. Malware' = Malware
      BY <2>1 DEF Malware
    <2>3. failed = {} => \E flag \in BOOLEAN : context = Whole(mail, flag)
      BY <2>1, NothingMissing DEF DetectionInv, Fixed
    <2> QED
      BY <2>1, <2>2, <2>3 DEF Decided, Scored
  <1>5. CASE UNCHANGED vars
    BY <1>5 DEF vars, verdict, gathering, DetectionInv, Decided, Malware
  <1> QED
    BY <1>1, <1>2, <1>3, <1>4, <1>5 DEF Next, Step

LEMMA RecordedStep ==
    ASSUME DetectionInv, [Next]_vars
    PROVE  Recorded'
  <1>1. history \in Seq(Entries) /\ \A k \in DOMAIN history : Justified(history[k])
    BY DEF DetectionInv, Recorded
  <1>2. CASE UNCHANGED verdict
    BY <1>1, <1>2 DEF verdict, Recorded
  <1>3. CASE Judge /\ failed # {}
    BY <1>1, <1>3 DEF Judge, Recorded
  <1>4. CASE Judge /\ failed = {}
    <2> DEFINE e == [mail |-> mail, filed |-> filed, tier |-> risk'.tier]
               report == scan.merged
    <2>1. /\ history' = Append(history, e) /\ pc = "judge" /\ results = Results(context)
          /\ risk' = ComputeRisk(HandedOver(context, results, Malware))
      BY <1>4 DEF Judge, DetectionInv, Phase
    <2>2. context = Whole(mail, filed) /\ window /\ scan.answered = DOMAIN mail.files
      BY <1>4, <2>1, NothingMissing
    <2>3. report \in Reports /\ Best(mail.files, DOMAIN mail.files, report)
          /\ mail \in Mails /\ filed \in BOOLEAN
      BY <2>2 DEF DetectionInv, Scanned, Fixed
    <2>4. risk'.tier = ComputeRisk(Scored(Whole(mail, filed), report)).tier
      BY <2>1, <2>2 DEF Malware, Scored
    <2>5. Justified(e)
      BY <2>3, <2>4 DEF Justified
    <2>6. e \in Entries
      <3>1. Scored(Whole(mail, filed), report) \in SignalSets
        BY <2>3, WholeType, SignalsCohere DEF Scored
      <3>2. risk'.tier \in Tiers
        BY <2>4, <3>1, RiskType DEF Risks
      <3> QED
        BY <2>3, <3>2 DEF Entries
    <2> HIDE DEF e
    <2>7. /\ history' \in Seq(Entries)
          /\ \A k \in DOMAIN history' :
               \/ k \in DOMAIN history /\ history'[k] = history[k]
               \/ history'[k] = e
      BY <1>1, <2>1, <2>6
    <2> QED
      BY <1>1, <2>5, <2>7 DEF Recorded
  <1> QED
    BY <1>2, <1>3, <1>4, OnlyJudging

LEMMA DetectionInvAlways == Spec => []DetectionInv
  <1>1. DetectionInv /\ [Next]_vars => DetectionInv'
    BY FixedStep, GatheredStep, ScannedStep, PhaseStep, DecidedStep, RecordedStep DEF DetectionInv
  <1> QED
    BY <1>1, InitInv, PTL DEF Spec

\* A finished analysis has scored the signals of its context and its report.
LEMMA FinishedRun ==
    ASSUME DetectionInv, pc = "done"
    PROVE  /\ signals \in SignalSets /\ Coherent(signals)
           /\ signals.malware = Malware.score
           /\ risk = ComputeRisk(signals) /\ action = ComputeAction(risk)
  <1>1. /\ signals = HandedOver(context, Results(context), Malware)
        /\ risk = ComputeRisk(signals) /\ action = ComputeAction(risk)
        /\ context \in Contexts
    BY DEF DetectionInv, Decided, Gathered, Scored
  <1>2. Malware \in Reports
    BY DEF DetectionInv, Scanned, Malware, NoReport, Reports
  <1>3. HandedOver(context, Results(context), Malware).malware = Malware.score
    BY DEF HandedOver
  <1> QED
    BY <1>1, <1>2, <1>3, SignalsCohere

-----------------------------------------------------------------------------
(* The run's invariants.                                                   *)

\* Every analysis stays within its types: a verdict is a tier, an action and scores in
\* their ranges, the triggered rules have scores in 1..100, the scanner is asked at
\* most MALWARE_GRPC_RETRIES times about a file.
THEOREM DetectionTyped == Spec => []TypeOK
  <1>1. DetectionInv => TypeOK
    <2> SUFFICES ASSUME DetectionInv PROVE TypeOK
      OBVIOUS
    <2>1. Fixed /\ scan.at \in 1..Len(mail.files) + 1 /\ scan.attempt \in 0..MaxRetries
      BY DEF DetectionInv, Scanned
    <2>2. results \in [Fired -> [original : 1..100, amplified : 0..100]]
      <3>1. context \in Contexts
        BY DEF DetectionInv, Gathered
      <3>2. CASE pc = "gather"
        BY <3>2 DEF DetectionInv, Phase, Fired
      <3>3. CASE pc # "gather"
        <4>1. results \in ResultSets
          BY <3>1, <3>3, EngineType, ResultsType DEF DetectionInv, Phase, Fixed
        <4> QED
          BY <4>1 DEF ResultSets, Fired
      <3> QED
        BY <3>2, <3>3
    <2>3. pc = "done" => signals \in SignalSets /\ risk \in Risks /\ action \in Actions
      BY FinishedRun, VerdictsAreTyped
    <2> QED
      BY <2>1, <2>2, <2>3 DEF TypeOK, Fixed, Finished
  <1> QED
    BY <1>1, DetectionInvAlways, PTL

\* Whatever fails on the way to scoring, the signals are those that the theorems about
\* the score speak of, and no mail judged a threat is let through.
THEOREM ThreatsAreAnswered == Spec => []ThreatsAnswered
  <1>1. DetectionInv => ThreatsAnswered
    BY FinishedRun, ThreatsNeverAllowed DEF ThreatsAnswered, Finished
  <1> QED
    BY <1>1, DetectionInvAlways, PTL

\* A file that the scanner scores as malware inside the window decides, whatever the
\* files beside it are reported as, in whichever order, and whichever scans fail.
THEOREM MaliciousFilesDecide == Spec => []MaliciousFileDecides
  <1>1. DetectionInv => MaliciousFileDecides
    <2> SUFFICES ASSUME DetectionInv, pc = "done", window,
                        NEW i \in scan.answered, mail.files[i].report.score >= 50
                 PROVE  risk.tier = "MALICIOUS" /\ action = "delete"
      BY DEF MaliciousFileDecides, Finished
    <2>1. /\ mail \in Mails /\ scan.answered \in SUBSET DOMAIN mail.files
          /\ Best(mail.files, scan.answered, scan.merged)
      BY DEF DetectionInv, Fixed, Scanned
    <2>2. mail.files[i].report.score <= scan.merged.score /\ scan.merged \in Reports
          /\ mail.files[i].report.score \in 0..100
      BY <2>1, FilesOfMail, BestIsReport, ReportFields
    <2>3. signals.malware = scan.merged.score /\ scan.merged.score \in 0..100
      BY <2>2, FinishedRun DEF Malware, Reports
    <2>4. signals.malware >= 50
      <3>1. ASSUME NEW x \in 0..100, NEW y \in 0..100, x >= 50, x <= y PROVE y >= 50
        BY <3>1
      <3> QED
        BY <2>2, <2>3, <3>1
    <2>5. risk = MaliciousOverride(signals) /\ IsMalware(signals)
      BY <2>4, FinishedRun DEF ComputeRisk, IsMalware
    <2>6. risk.tier = "MALICIOUS" /\ risk.isMalware = TRUE
      BY <2>5 DEF MaliciousOverride
    <2> QED
      BY <2>6, FinishedRun DEF ComputeAction
  <1> QED
    BY <1>1, DetectionInvAlways, PTL

\* A mail without cue, link, file or record of any kind passes when every lookup
\* answered, whatever authentication headers it has or lacks and however many of the
\* sender's mails the mailbox holds.
THEOREM InnocuousMailsPass == Spec => []InnocuousPasses
  <1>1. DetectionInv => InnocuousPasses
    <2> SUFFICES ASSUME DetectionInv, pc = "done", failed = {}, Innocuous(mail)
                 PROVE  action = "allow"
      BY DEF InnocuousPasses, Finished
    <2>1. PICK flag \in BOOLEAN : context = Whole(mail, flag)
      BY DEF DetectionInv, Decided
    <2>2. Malware = NoReport
      <3>1. DOMAIN mail.files = {}
        BY DEF Innocuous
      <3>2. scan.answered = {} /\ Best(mail.files, scan.answered, scan.merged)
        BY <3>1 DEF DetectionInv, Scanned
      <3> QED
        BY <3>2 DEF Best, Malware
    <2>3. signals = Scored(Whole(mail, flag), NoReport) /\ action = ComputeAction(ComputeRisk(signals))
      BY <2>1, <2>2 DEF DetectionInv, Decided
    <2> QED
      BY <2>3, InnocuousContext, WholeType, QuietPasses DEF DetectionInv, Fixed
  <1> QED
    BY <1>1, DetectionInvAlways, PTL

\* Of two analyses of a mail in which everything answered and of which nothing else was
\* known, the one that found the mail's own row flagged never yields less: a rescan
\* after a verdict does not soften it by itself, however often it is repeated.
THEOREM RescansKeepVerdicts == Spec => []RescanKeepsVerdict
  <1>1. DetectionInv => RescanKeepsVerdict
    <2> SUFFICES ASSUME DetectionInv, NEW i \in DOMAIN history, NEW j \in DOMAIN history,
                        history[i].mail = history[j].mail, history[j].filed => history[i].filed
                 PROVE  TierRank(history[i].tier) >= TierRank(history[j].tier)
      BY DEF RescanKeepsVerdict
    <2> DEFINE n == history[i].mail
               tier(flag, report) == ComputeRisk(Scored(Whole(n, flag), report)).tier
    <2>1. /\ n \in Mails /\ history[i].filed \in BOOLEAN /\ history[j].filed \in BOOLEAN
          /\ history[i].tier \in Tiers
          /\ Justified(history[i]) /\ Justified(history[j])
      <3>1. history[i] \in Entries /\ history[j] \in Entries
        BY DEF DetectionInv, Recorded
      <3> QED
        BY <3>1 DEF Entries, DetectionInv, Recorded
    <2>2. PICK a \in Reports : Best(n.files, DOMAIN n.files, a)
                               /\ history[i].tier = tier(history[i].filed, a)
      BY <2>1 DEF Justified
    <2>3. PICK b \in Reports : Best(n.files, DOMAIN n.files, b)
                               /\ history[j].tier = tier(history[j].filed, b)
      BY <2>1 DEF Justified
    <2>4. a = b
      BY <2>1, <2>2, <2>3, FilesOfMail, BestIsUnique
    <2>5. CASE history[i].filed = history[j].filed
      <3>1. history[i].tier = history[j].tier
        BY <2>2, <2>3, <2>4, <2>5
      <3>2. TierRank(history[i].tier) \in 0..4
        BY <2>1 DEF Tiers, TierRank
      <3> QED
        BY <3>1, <3>2
    <2>6. CASE history[i].filed # history[j].filed
      <3>1. history[i].filed = TRUE /\ history[j].filed = FALSE
        BY <2>1, <2>6
      <3>2. history[i].tier = tier(TRUE, a) /\ history[j].tier = tier(FALSE, a)
        BY <2>2, <2>3, <2>4, <3>1
      <3> QED
        BY <2>1, <3>2, FlagOnlyAdds
    <2> QED
      BY <2>5, <2>6
  <1> QED
    BY <1>1, DetectionInvAlways, PTL

-----------------------------------------------------------------------------
(* The scenarios, from their context to their verdict.                     *)

\* What the stages can have left in the context of a mail without a row, whichever failed.
Answered ==
    ~Stored =>
        /\ filed = FALSE
        /\ ~context.m.headers.received => context.rep.ip = UnknownIp
        /\ context.beh \in {DefaultBehavior, BehaviorSignals(context.m, FALSE, FALSE)}
        /\ context.url \in {NoUrls, UrlSignals(context.m)}

LEMMA AnsweredStep ==
    ASSUME DetectionInv, Answered, [Next]_vars
    PROVE  Answered'
  <1>1. context \in Contexts
    BY DEF DetectionInv, Gathered
  <1>2. context = [m |-> context.m, auth |-> context.auth, rep |-> context.rep,
                   beh |-> context.beh, url |-> context.url]
    BY <1>1 DEF Contexts
  <1>3. CASE CheckReputation
    <2>1. PICK whois \in BOOLEAN :
             context' = [context EXCEPT !.rep = ReputationSignals(context.m, whois)]
      BY <1>3 DEF CheckReputation
    <2>2. /\ context'.m = context.m /\ context'.beh = context.beh /\ context'.url = context.url
          /\ context'.rep = ReputationSignals(context.m, whois)
      BY <1>2, <2>1
    <2>3. ~context.m.headers.received => ReputationSignals(context.m, whois).ip = UnknownIp
      BY DEF ReputationSignals
    <2>4. filed' = filed /\ Stored' = Stored
      BY <1>3 DEF CheckReputation, Stored
    <2> QED
      BY <2>2, <2>3, <2>4 DEF Answered
  <1>4. CASE AnalyzeBehavior
    <2>1. /\ context'.m = context.m /\ context'.rep = context.rep /\ context'.url = context.url
          /\ context'.beh = BehaviorSignals(context.m, Stored, filed)
      BY <1>2, <1>4 DEF AnalyzeBehavior
    <2>2. filed' = filed /\ Stored' = Stored /\ Stored \in BOOLEAN
      BY <1>4 DEF AnalyzeBehavior, Stored
    <2> QED
      BY <2>1, <2>2 DEF Answered
  <1>5. CASE AnalyzeUrls
    <2>1. /\ context'.m = context.m /\ context'.rep = context.rep /\ context'.beh = context.beh
          /\ context'.url = UrlSignals(context.m)
      BY <1>2, <1>5 DEF AnalyzeUrls
    <2>2. filed' = filed /\ Stored' = Stored
      BY <1>5 DEF AnalyzeUrls, Stored
    <2> QED
      BY <2>1, <2>2 DEF Answered
  <1>6. CASE Judge
    <2>1. context' = context /\ Stored' = Stored /\ (~Stored => filed' = FALSE)
      BY <1>6 DEF Judge, Stored, gathering
    <2> QED
      BY <2>1 DEF Answered
  <1>7. CASE Rescan
    <2>1. Stored'
      BY <1>7 DEF Rescan, SameText, Stored
    <2> QED
      BY <2>1 DEF Answered
  <1>8. CASE UNCHANGED <<mail, filed, context>>
    <2>1. context' = context /\ Stored' = Stored /\ filed' = filed
      BY <1>8 DEF Stored
    <2> QED
      BY <2>1 DEF Answered
  <1>9. \/ CheckReputation \/ AnalyzeBehavior \/ AnalyzeUrls \/ Judge \/ Rescan
        \/ UNCHANGED <<mail, filed, context>>
    BY DEF Next, Step, FailStage, CloseWindow, RunRules, Amplify, ScanAnswers,
           ScanUnavailable, ScanFails, vars, gathering
  <1> QED
    BY <1>3, <1>4, <1>5, <1>6, <1>7, <1>8, <1>9

LEMMA AnsweredAlways == Spec => []Answered
  <1>1. Init => Answered
    BY DEF Init, Answered, Parsed, UnknownReputation
  <1> QED
    BY <1>1, AnsweredStep, DetectionInvAlways, PTL DEF Spec

\* A sender with flagged mails counts against an invoice once the history is read.
LEMMA FlaggedSender ==
    ASSUME NEW m, IsMail(m), m.past.flagged > 0, m.sender # "none"
    PROVE  LET beh == BehaviorSignals(m, FALSE, FALSE)
           IN  beh.count = 0 \/ beh.score >= 7
  <1> DEFINE count == Lesser(30, m.past.count + Points(FALSE, 1))
             topic == InferTopic(m.past.cues \cup {}, count)
             score == AnomalyScore(m, topic, count, m.past.flagged)
  <1>1. m.past.count \in Nat /\ m.past.flagged \in Nat
    BY MailFields
  <1>2. BehaviorSignals(m, FALSE, FALSE) =
           IF ~m.bare \/ m.sender = "none" \/ count = 0 THEN NewSenderSignals(m)
           ELSE [count |-> count, score |-> score, anomaly |-> score >= 20]
    BY <1>1 DEF BehaviorSignals, Points
  <1>3. count \in Nat
    BY <1>1 DEF Lesser, Points
  <1> HIDE DEF topic, count
  <1>4. score >= 7
    <2>1. PICK f \in Nat : f = m.past.flagged
      BY <1>1
    <2>2. /\ AnomalyScore(m, topic, count, f) \in 0..100
          /\ AnomalyScore(m, topic, count, f) >= Lesser(20, 7 * f)
      BY <1>3, AnomalyScoreType
    <2>3. Lesser(20, 7 * f) >= 7 /\ Lesser(20, 7 * f) \in Nat
      BY <2>1 DEF Lesser
    <2> QED
      BY <2>1, <2>2, <2>3
  <1> DEFINE known == [count |-> count, score |-> score, anomaly |-> score >= 20]
  <1>5. NewSenderSignals(m).count = 0 /\ known.score = score
    BY DEF NewSenderSignals
  <1> HIDE DEF score, known
  <1>6. BehaviorSignals(m, FALSE, FALSE) \in {NewSenderSignals(m), known}
    BY <1>2 DEF known
  <1> QED
    BY <1>4, <1>5, <1>6

\* One of whom the mailbox holds no mail is new.
LEMMA UnknownSender ==
    ASSUME NEW m, m.past.count = 0
    PROVE  BehaviorSignals(m, FALSE, FALSE).count = 0
  <1>1. Lesser(30, m.past.count + Points(FALSE, 1)) = 0
    BY DEF Lesser, Points
  <1>2. BehaviorSignals(m, FALSE, FALSE) = NewSenderSignals(m)
    BY <1>1 DEF BehaviorSignals
  <1>3. NewSenderSignals(m).count = 0
    BY DEF NewSenderSignals
  <1> QED
    BY <1>2, <1>3

\* What a finished analysis of a scenario has in its context.
LEMMA ScenarioContext ==
    ASSUME DetectionInv, Answered, pc = "done", mail.caller = "test"
    PROVE  /\ context \in Contexts /\ context.m = mail /\ IsMail(mail)
           /\ context.auth = AuthSignals(context.m)
           /\ ~mail.headers.received => context.rep.ip = UnknownIp
           /\ context.beh \in {DefaultBehavior, BehaviorSignals(mail, FALSE, FALSE)}
           /\ context.url \in {NoUrls, UrlSignals(mail)}
           /\ "reputation" \notin failed => context.rep = ReputationSignals(mail, TRUE)
           /\ Malware \in Reports /\ action = ComputeAction(ComputeRisk(Scored(context, Malware)))
  <1>1. ~Stored /\ Input(mail) = mail
    BY DEF Stored, Input
  <1>2. /\ context \in Contexts /\ context.m = mail /\ context.auth = AuthSignals(context.m)
        /\ waiting = {} /\ mail \in Mails
    BY <1>1 DEF DetectionInv, Gathered, Phase, Fixed
  <1>3. "reputation" \notin failed => context.rep = ReputationSignals(mail, TRUE)
    BY <1>2 DEF DetectionInv, Gathered
  <1>4. IsMail(mail)
    BY <1>2, InputType
  <1>5. Malware \in Reports
    BY DEF DetectionInv, Scanned, Malware, NoReport, Reports
  <1>6. action = ComputeAction(ComputeRisk(Scored(context, Malware)))
    BY DEF DetectionInv, Decided
  <1> QED
    BY <1>1, <1>2, <1>3, <1>4, <1>5, <1>6 DEF Answered

\* A colleague's reminder is quiet once whois and feeds speak for its domain.
LEMMA CleanIsQuiet ==
    ASSUME DetectionInv, Answered, pc = "done", SameText(mail, Clean),
           mail.whois > 90, mail.domain <= 0, "reputation" \notin failed
    PROVE  Quiet(context)
  <1>1. /\ mail.caller = "test" /\ mail.cues = {} /\ mail.bec = 0 /\ mail.sender = "ordinary"
        /\ ~mail.headers.received /\ mail.headers.replyTo # "other"
        /\ AuthSignals(mail) = [spf |-> "pass", dkim |-> "pass", dmarc |-> "pass"]
        /\ Len(mail.urls) = 0 /\ Len(mail.files) = 0
    BY CleanText
  <1>2. /\ context.m = mail /\ IsMail(mail) /\ context.auth = AuthSignals(mail)
        /\ context.rep.ip = UnknownIp
        /\ context.beh \in {DefaultBehavior, BehaviorSignals(mail, FALSE, FALSE)}
        /\ context.url \in {NoUrls, UrlSignals(mail)}
        /\ context.rep = ReputationSignals(mail, TRUE)
    BY <1>1, ScenarioContext
  <1>3. mail.urls = <<>> /\ mail.files = <<>>
    BY <1>1, <1>2, MailFields
  <1>4. ~HasAuthFailure(context.auth)
    BY <1>1, <1>2 DEF HasAuthFailure
  <1>5. context.url = NoUrls
    BY <1>2, <1>3, UrlSignalsType
  <1>6. context.beh.score <= 20
    <2>1. BehaviorSignals(mail, FALSE, FALSE).score <= 20
      BY <1>1, <1>2, <1>3, BehaviorSignalsType DEF HasAttachment
    <2>2. DefaultBehavior.score <= 20
      BY DEF DefaultBehavior
    <2>3. CASE context.beh = DefaultBehavior
      BY <2>2, <2>3
    <2>4. CASE context.beh = BehaviorSignals(mail, FALSE, FALSE)
      BY <2>1, <2>4
    <2> QED
      BY <1>2, <2>3, <2>4
  <1>7. mail.whois \in Int /\ mail.domain \in Int
    BY <1>2, MailFields DEF Unknown
  <1>8. /\ context.rep.domain = mail.domain /\ context.rep.age = mail.whois
        /\ context.rep.newly = FALSE
    <2> DEFINE newly == mail.sender # "none" /\ TRUE /\ mail.whois \in 0..29
    <2>1. newly = FALSE
      BY <1>7
    <2>2. DomainAge(mail, TRUE) = mail.whois
      BY <1>7 DEF DomainAge, Unknown
    <2>3. /\ context.rep.domain = mail.domain /\ context.rep.age = DomainAge(mail, TRUE)
          /\ context.rep.newly = newly
      BY <1>1, <1>2 DEF ReputationSignals
    <2> HIDE DEF newly
    <2> QED
      BY <2>1, <2>2, <2>3
  <1> QED
    BY <1>1, <1>2, <1>3, <1>4, <1>5, <1>6, <1>8 DEF Quiet

\* Each scenario of the security test is judged as its name says, whatever stage fails and
\* whatever whois, feeds, scanner and history add to its text: phishing is deleted, the
\* request for a transfer is never let through, nor is the program in an invoice unless
\* the mailbox holds mails of its sender and none is flagged, and the colleague's
\* reminder passes once whois and feeds speak for its domain.
THEOREM ScenariosAreJudged == Spec => []ScenariosJudged
  <1>1. DetectionInv /\ Answered => ScenariosJudged
    <2> SUFFICES ASSUME DetectionInv, Answered, pc = "done" PROVE ScenariosJudged
      BY DEF ScenariosJudged, Finished
    <2>1. ASSUME SameText(mail, Phishing) PROVE action = "delete"
      <3>1. mail.caller = "test" /\ ~mail.headers.received
        BY <2>1, PhishingText
      <3> QED
        BY <2>1, <3>1, ScenarioContext, PhishingDeleted
    <2>2. ASSUME SameText(mail, Bec) PROVE action # "allow"
      <3>1. mail.caller = "test"
        BY <2>2, BecText
      <3> QED
        BY <2>2, <3>1, ScenarioContext, BecHeld
    <2>3. ASSUME SameText(mail, Invoice), mail.past.count = 0 \/ mail.past.flagged > 0
          PROVE  action # "allow"
      <3>1. mail.caller = "test" /\ mail.sender = "ordinary"
        BY <2>3, InvoiceText
      <3>2. /\ IsMail(mail) /\ context.beh \in {DefaultBehavior, BehaviorSignals(mail, FALSE, FALSE)}
        BY <3>1, ScenarioContext
      <3>3. LET beh == BehaviorSignals(mail, FALSE, FALSE) IN beh.count = 0 \/ beh.score >= 7
        <4>1. CASE mail.past.flagged > 0
          BY <3>1, <3>2, <4>1, FlaggedSender
        <4>2. CASE mail.past.count = 0
          BY <4>2, UnknownSender
        <4> QED
          BY <2>3, <4>1, <4>2
      <3>4. DefaultBehavior.count = 0
        BY DEF DefaultBehavior
      <3>5. context.beh.count = 0 \/ context.beh.score >= 7
        BY <3>2, <3>3, <3>4
      <3> QED
        BY <2>3, <3>1, <3>5, ScenarioContext, InvoiceHeld
    <2>4. ASSUME SameText(mail, Clean), mail.whois > 90, mail.domain <= 0,
                 "reputation" \notin failed
          PROVE  action = "allow"
      <3>1. mail.caller = "test" /\ Len(mail.files) = 0
        BY <2>4, CleanText
      <3>2. Malware = NoReport
        <4>1. mail \in Mails
          BY DEF DetectionInv, Fixed
        <4>2. DOMAIN mail.files = {}
          BY <3>1, <4>1, FilesOfMail
        <4>3. scan.answered = {} /\ Best(mail.files, scan.answered, scan.merged)
          BY <4>2 DEF DetectionInv, Scanned
        <4> QED
          BY <4>3 DEF Best, Malware
      <3>3. Quiet(context)
        BY <2>4, CleanIsQuiet
      <3> QED
        BY <3>1, <3>2, <3>3, ScenarioContext, QuietPasses
    <2> QED
      BY <2>1, <2>2, <2>3, <2>4 DEF ScenariosJudged
  <1> QED
    BY <1>1, DetectionInvAlways, AnsweredAlways, PTL
=============================================================================
