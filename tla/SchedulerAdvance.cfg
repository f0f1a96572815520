\* One process, fair: is the second step of a mission started after the first?
CONSTANTS
    None = None
    MaxTasks = 3
    MaxMissions = 1
    MaxSteps = 2
    Priorities = {3}
    MaxPending = 1
    MaxTaskIds = 3
    MaxMissionIds = 1
    MayRestart = FALSE
SPECIFICATION FairSpec
PROPERTY MissionsAdvance
