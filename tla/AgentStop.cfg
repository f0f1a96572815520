\* A user's stop at any point of a run.
CONSTANTS
    Answers <- MCAnswers
    Outcomes <- MCOutcomes
    MaxActions = 2
    MaxRecoveries = 1
    MaxReplans = 1
    MaxEvidence = 30
    MaxParallel = 2
    MaxErrors = 2
    MaxRepeats = 2
    LegacyRetries = 1
    MaxAttempts = 2
    StepLimits = {1}
    MaxWork = 2
SPECIFICATION AgentSpec
CHECK_DEADLOCK FALSE
PROPERTY StopHonoured
