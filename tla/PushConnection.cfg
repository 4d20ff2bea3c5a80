SPECIFICATION Spec
CONSTANTS
    MaxReconnectAttempts = 3
    MaxConnections = 8
    MaxFaults = 2
    None = None
INVARIANTS TypeOK GivesUpAfterEveryAttempt
PROPERTIES ConnectionSettles
CHECK_DEADLOCK FALSE
