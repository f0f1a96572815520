\* One task of two turns over three connections, or two calls of the Body over
\* two actions with a ledger that holds both.
CONSTANTS
    t1 = t1  a1 = a1  a2 = a2  c1 = c1  c2 = c2
    Tasks = {t1}
    NoTask = NoTask
    MaxTurns = 2
    MaxCalls = 1
    MaxConns = 3
    Calls = {c1, c2}
    None = None
SPECIFICATION LiveSpec
CHECK_DEADLOCK FALSE
PROPERTIES
    TasksEnd
    CallsEnd
