\* Two messages of one step each, or one of two steps; calls alone and side by side.
CONSTANTS
    Answers <- MCAnswers
    Outcomes <- MCOutcomes
    MaxActions = 2
    MaxRecoveries = 1
    MaxReplans = 1
    MaxEvidence = 30
    MaxParallel = 2
    MaxErrors = 2
    MaxRepeats = 2
    LegacyRetries = 1
    MaxAttempts = 2
    StepLimits = {1, 2}
    MaxWork = 2
    b1 = b1  b2 = b2
    \* MissionJournal
    JActions = {b1}
    JMissions = {b2}
    MaxLines = 2
    MaxPlanned = 2
    MaxEvents = 5
    MaxEpochs = 2
    \* MemoryLayers
    MemNames = {b1}
    MemOutcomes <- RunEnds
    NoteKinds = {"preference", "fact"}
    MaxMemFails = 1
    MaxMemProcs = 1
    MaxMemEps = 1
    MaxMemNotes = 1
    MemSnap = 1
    MemBudget = 5
    MaxMemOps = 4
    MaxNoteOps = 2
    MaxMemLives = 2
    \* JarvisEngine
    MaxJvTasks = 2
    JvPhases = {"executing"}
    JvCommands <- SaidCommands
SPECIFICATION AgentStoresSpec
CHECK_DEADLOCK FALSE
INVARIANTS
    ShownIsReal
    ResultsAreHonest
    LoopIsBounded
    ReplayMostlyIntact
    JournalIsExact
PROPERTIES
    ApprovedOnly
    
    MemoryHolds
    
