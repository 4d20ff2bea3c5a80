SPECIFICATION PushFlowSpec
CONSTANTS
    m1 = m1
    Messages <- MCMessages
    KeyOf <- MCKeyOf
    Rejectable <- MCMessages
    Consumer = consumer
    HttpCallers = {h1}
    NoMessage = NoMessage
    MAX_RETRIES = 1
    MaxLapses = 1
    MaxLost = 1
    FAILURE_THRESHOLD = 1
    TIMEOUT_DURATION = 0
    HALF_OPEN_MAX_CALLS = 1
    MaxFailures = 1
    AllowedEdits = {0}
    MaxEdits = 1
    Bare = Bare
    Absent = Absent
INVARIANTS TypeOK PushMatchesAnswer OptOutsNotPushed
PROPERTIES IsNotificationFlow
CHECK_DEADLOCK FALSE
