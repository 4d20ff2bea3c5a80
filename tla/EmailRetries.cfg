SPECIFICATION FairSpec
CONSTANTS
    m1 = m1
    m2 = m2
    Messages <- MCMessages
    CorrelationOf <- MCCorrelationOf
    TemplateOf <- MCTemplateOf
    BodyOf <- MCBodyOf
    Broken <- MCBroken
    NoBody = NoBody
    MaxAttempts = 2
    MaxFaults = 2
INVARIANTS GivesUpAfterRetries
CHECK_DEADLOCK FALSE
