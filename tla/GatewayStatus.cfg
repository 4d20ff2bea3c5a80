SPECIFICATION FlowSpec
CONSTANTS
    r1 = r1
    r2 = r2
    Requests <- MCRequests
    KeyOf <- MCKeyOf
    IdOf <- MCIdOf
    Followed <- MCFollowed
    AllowedEdits = {0}
    MaxEdits = 1
    Bare = Bare
    Absent = Absent
PROPERTIES PostedStatusIsRecorded
CHECK_DEADLOCK FALSE
