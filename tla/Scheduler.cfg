\* Two missions and their tasks; the queue drops what has ended at once.
CONSTANTS
    None = None
    MaxTasks = 1
    MaxMissions = 2
    MaxSteps = 2
    Priorities = {3}
    MaxPending = 1
    MaxTaskIds = 2
    MaxMissionIds = 2
    MayRestart = TRUE
SPECIFICATION Spec
INVARIANTS
    AttributionExact
    QueueIsReal
PROPERTIES
    ProgressStays
    
