\* Liveness.
CONSTANTS
    s1 = s1  s2 = s2  s3 = s3
    Sockets = {s1, s2}
    NoSocket = NoSocket
    AutoReconnect = TRUE
    UrlAllowed = TRUE
    MaxAttempt = 1
    MaxAuthRetries = 2
    MaxCuts = 1
    MaxSlow = 1
    MaxUser = 1
    MaxReconnects = 0
    MaxAdmin = 1
SPECIFICATION FairSpec
CHECK_DEADLOCK FALSE
PROPERTY Settles
