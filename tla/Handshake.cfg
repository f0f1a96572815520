\* Safety.
CONSTANTS
    s1 = s1  s2 = s2  s3 = s3
    Sockets = {s1, s2}
    NoSocket = NoSocket
    AutoReconnect = TRUE
    UrlAllowed = TRUE
    MaxAttempt = 1
    MaxAuthRetries = 1
    MaxCuts = 1
    MaxSlow = 0
    MaxUser = 2
    MaxReconnects = 1
    MaxAdmin = 2
SPECIFICATION Spec
SYMMETRY SocketSymmetry
CHECK_DEADLOCK FALSE
INVARIANTS
    ReadyIsMutual
    SessionsAgree
PROPERTIES
    CodesPayForEntries
    ImplementsLink
