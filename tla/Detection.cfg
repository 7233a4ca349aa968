SPECIFICATION FairSpec
CONSTANTS
    Mails <- MCMails
    MaxRuns = 2
    MaxRetries = 2
INVARIANTS ThreatsAnswered MaliciousFileDecides InnocuousPasses RescanKeepsVerdict ScenariosJudged
PROPERTIES EvidenceNeverSoftens AnalysisEnds
CHECK_DEADLOCK FALSE
