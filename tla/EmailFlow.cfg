SPECIFICATION EmailFlowSpec
CONSTANTS
    m1 = m1
    Messages <- MCMessages
    KeyOf <- MCSame
    CorrelationOf <- MCSame
    TemplateOf <- MCSame
    BodyOf <- MCSame
    Broken = {}
    NoBody = NoBody
    MaxAttempts = 2
    MaxFaults = 2
    AllowedEdits = {0}
    MaxEdits = 1
    Bare = Bare
    Absent = Absent
INVARIANTS TypeOK EmailMatchesAnswer OptOutsNotMailed
PROPERTIES IsNotificationFlow
CHECK_DEADLOCK FALSE
