\* One task; the comment on a failed tool in LLMTaskDriver.run.
CONSTANTS
    t1 = t1  t2 = t2
    Tasks = {t1}
    NoTask = NoTask
    MaxTurns = 1
    MaxCalls = 2
    MaxConns = 2
SPECIFICATION Spec
CHECK_DEADLOCK FALSE
PROPERTY FailureIsAdapted
