\* Two tasks of one turn with up to two tool calls, over two connections.
CONSTANTS
    t1 = t1  t2 = t2
    Tasks = {t1, t2}
    NoTask = NoTask
    MaxTurns = 1
    MaxCalls = 2
    MaxConns = 2
SPECIFICATION Spec
SYMMETRY TaskSymmetry
CHECK_DEADLOCK FALSE
INVARIANTS
    NeverFakeCompletion
    OneStepAtATime
    StaysReachable
PROPERTIES
    KeepsPromise
