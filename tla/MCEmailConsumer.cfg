SPECIFICATION FairSpec
CONSTANTS
    m1 = m1
    m2 = m2
    Messages <- MCMessages
    CorrelationOf <- MCCorrelationOf
    TemplateOf <- MCTemplateOf
    BodyOf <- MCBodyOf
    Broken <- MCBroken
    NoBody = NoBody
    MaxAttempts = 2
    MaxFaults = 2
INVARIANTS TypeOK AckedWasSent OneEmailPerDelivery DuplicatesNeedFaults
PROPERTIES SuccessIsReported EveryMessageSettles ImplementsChannel
CHECK_DEADLOCK FALSE
