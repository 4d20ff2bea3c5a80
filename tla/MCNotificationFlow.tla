------------------------- MODULE MCNotificationFlow -------------------------
EXTENDS NotificationFlow
CONSTANTS r1, r2
MCRequests == {r1, r2}
MCKeyOf == [r \in MCRequests |-> "key"]
MCFollowed == {r1}
MCIdOf == [r \in MCRequests |-> "id"]
=============================================================================
