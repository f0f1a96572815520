\* The documentation on reconnecting, when the user reconnects.
CONSTANTS
    s1 = s1  s2 = s2  s3 = s3
    Sockets = {s1, s2, s3}
    NoSocket = NoSocket
    AutoReconnect = TRUE
    UrlAllowed = TRUE
    MaxAttempt = 1
    MaxAuthRetries = 2
    MaxCuts = 0
    MaxSlow = 0
    MaxUser = 2
    MaxReconnects = 2
    MaxAdmin = 0
SPECIFICATION FairSpec
CHECK_DEADLOCK FALSE
PROPERTY NoStorm
