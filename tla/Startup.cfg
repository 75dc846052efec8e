CONSTANTS
    UNIX_SOCKET_PATH_LEN = 108
    Fields <- MCFields
    MaxWritten = 3
    MaxFd = 9
    MaxClients = 2
SPECIFICATION STSpec
INVARIANTS
    ConfigAsWritten
    ServesAsConfigured
    OutputNotToClients
PROPERTY FailureReported
CHECK_DEADLOCK FALSE
