SPECIFICATION FlowSpec
CONSTANTS
    r1 = r1
    r2 = r2
    Requests <- MCRequests
    KeyOf <- MCKeyOf
    IdOf <- MCIdOf
    Followed <- MCFollowed
    AllowedEdits = {0}
    MaxEdits = 1
    Bare = Bare
    Absent = Absent
INVARIANTS FlowTypeOK LateDuplicatesRejected ResponsesAreHonest KeysTakenByPublished OptOutsHonoured OutcomeMatchesAnswer
PROPERTIES AcceptedSettles
CHECK_DEADLOCK FALSE
