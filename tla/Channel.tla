------------------------------ MODULE Channel ------------------------------
(***************************************************************************)
(* What a channel service (email-service, push-service) promises about the *)
(* messages of its queue, whatever it does with copies, retries, crashes   *)
(* and duplicates: a message leaves the queue only after something was     *)
(* sent for it or after it was given up, it never comes back, and it is    *)
(* reported as delivered only when something was sent for it.              *)
(*                                                                         *)
(* PushDelivery and EmailConsumer implement this specification;            *)
(* NotificationFlow puts it behind the gateway.                            *)
(***************************************************************************)
CONSTANT Messages

VARIABLES
    accepted,       \* messages that the gateway has put into the queue
    outstanding,    \* messages that the service still owes an outcome
    sent,           \* messages something was sent for
    dead,           \* messages given up
    told            \* the last status post that reached the gateway

channelVars == <<accepted, outstanding, sent, dead, told>>

Statuses == {"none", "delivered", "failed"}

ChannelTypeOK ==
    /\ accepted \subseteq Messages
    /\ outstanding \subseteq Messages
    /\ sent \subseteq Messages
    /\ dead \subseteq Messages
    /\ told \in [Messages -> Statuses]

Init ==
    /\ accepted = {} /\ outstanding = {} /\ sent = {} /\ dead = {}
    /\ told = [m \in Messages |-> "none"]

\* The gateway publishes a message.
Enqueue(m) ==
    /\ m \notin accepted
    /\ accepted' = accepted \cup {m}
    /\ outstanding' = outstanding \cup {m}
    /\ UNCHANGED <<sent, dead, told>>

\* One send may serve several messages (with one correlation id), and may be
\* of a message that has left the queue (a timed-out send, an HTTP caller).
Send(ms) ==
    /\ sent' = sent \cup ms
    /\ UNCHANGED <<accepted, outstanding, dead, told>>

\* A copy is given up; the message leaves the queue unless copies are left.
GiveUp(m) ==
    /\ m \in outstanding
    /\ dead' = dead \cup {m}
    /\ outstanding' \in {outstanding, outstanding \ {m}}
    /\ UNCHANGED <<accepted, sent, told>>

\* The last copy is acknowledged.
Settle(m) ==
    /\ m \in outstanding
    /\ m \in sent \cup dead
    /\ outstanding' = outstanding \ {m}
    /\ UNCHANGED <<accepted, sent, dead, told>>

Tell(m, status) ==
    /\ status = "delivered" => m \in sent
    /\ told' = [told EXCEPT ![m] = status]
    /\ UNCHANGED <<accepted, outstanding, sent, dead>>

Step(m) ==
    \/ Enqueue(m) \/ GiveUp(m) \/ Settle(m)
    \/ Tell(m, "delivered") \/ Tell(m, "failed")

Next ==
    \/ \E ms \in SUBSET Messages : Send(ms)
    \/ \E m \in Messages : Step(m)

Spec == Init /\ [][Next]_channelVars

\* Every message leaves the queue.
Progress == \A m \in Messages : (m \in outstanding) ~> (m \notin outstanding)
=============================================================================
