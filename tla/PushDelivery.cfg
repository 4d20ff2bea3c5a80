SPECIFICATION FairSpec
CONSTANTS
    Messages = {m1, m2}
    Rejectable = {m1}
    Consumer = consumer
    HttpCallers = {h1}
    NoMessage = NoMessage
    MAX_RETRIES = 1
    MaxLapses = 1
    MaxLost = 1
    FAILURE_THRESHOLD = 1
    TIMEOUT_DURATION = 0
    HALF_OPEN_MAX_CALLS = 1
    MaxFailures = 1
INVARIANTS TypeOK NeverLost DuplicatesAccounted PostedIsTrue
PROPERTIES EveryRequestSettles ImplementsChannel
CHECK_DEADLOCK FALSE
