SPECIFICATION Spec
CONSTANTS
    MaxReconnectAttempts = 3
    MaxConnections = 8
    MaxFaults = 2
    None = None
PROPERTIES ReadyServiceConsumes
CHECK_DEADLOCK FALSE
