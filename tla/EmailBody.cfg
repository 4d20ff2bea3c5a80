SPECIFICATION FairSpec
CONSTANTS
    m1 = m1
    m2 = m2
    Messages <- MCMessages
    CorrelationOf <- MCIds
    TemplateOf <- MCTemplateOf
    BodyOf <- MCGoodBodies
    Broken <- MCBroken
    NoBody = NoBody
    MaxAttempts = 2
    MaxFaults = 2
INVARIANTS RendersInlineBody
CHECK_DEADLOCK FALSE
