\* The comment on markOffline.
CONSTANTS
    s1 = s1  s2 = s2  s3 = s3
    Sockets = {s1, s2}
    NoSocket = NoSocket
    AutoReconnect = TRUE
    UrlAllowed = TRUE
    MaxAttempt = 1
    MaxAuthRetries = 2
    MaxCuts = 0
    MaxSlow = 0
    MaxUser = 1
    MaxReconnects = 0
    MaxAdmin = 2
SPECIFICATION Spec
SYMMETRY SocketSymmetry
CHECK_DEADLOCK FALSE
PROPERTY RevokedStaysRevoked
