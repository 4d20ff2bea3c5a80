----------------------------- MODULE EmailFlow -----------------------------
(***************************************************************************)
(* An e-mail from the client's request to the SMTP server: the executions  *)
(* of api-gateway (Gateway) in front of email-service as it is             *)
(* (EmailConsumer), as PushFlow has them in front of push-service.  A      *)
(* confirmed publish puts the message into email.queue, and its handler    *)
(* posts the outcome to the gateway's status endpoint.                     *)
(***************************************************************************)
EXTENDS EmailConsumer

CONSTANTS KeyOf, AllowedEdits, MaxEdits, Bare, Absent        \* of Gateway

VARIABLES
    idempotency, cache, status, source,                      \* of Gateway
    execution,                                               \* its pc
    looking, seen, response, keyed, late, optedOut

\* What Gateway assumes of its constants.
GatewayConstants ==
    /\ MaxEdits \in Nat
    /\ AllowedEdits \subseteq 0..MaxEdits
    /\ Absent \notin 0..MaxEdits /\ Bare \notin 0..MaxEdits
    /\ Absent # Bare

\* Clients let the gateway choose the correlation ids, or choose different ones.
OwnCorrelations ==
    \A m, k \in Messages : CorrelationOf[m] = CorrelationOf[k] => m = k

gatewayVars == <<idempotency, cache, status, source, execution, looking, seen,
                 response, keyed, late, optedOut>>
emailFlowVars == <<vars, gatewayVars>>

RequestIds == [m \in Messages |-> m]

\* The composition that this one details, with what is proved of it.
Flow == INSTANCE NotificationFlow_proofs WITH
    Requests <- Messages, Followed <- Messages, IdOf <- RequestIds,
    published <- Arrived, pc <- execution,
    outstanding <- Owed, sent <- Mailed, dead <- Dropped, told <- posted

EmailFlowInit == Init /\ Flow!Init

\* The message of a confirmed publish is in email.queue.
PublishStep(m) ==
    \/ Arrive(m) /\ Flow!Publish(m)
    \/ m \notin Arrived /\ UNCHANGED vars /\ Flow!Publish(m)

\* The handler posts the outcome to POST /api/v1/email/status, or in vain.
Heard(m, outcome) ==
    \/ PostArrives(m, outcome) /\ Flow!PostChannelStatus(m, outcome)
    \/ PostLost(m, outcome) /\ UNCHANGED gatewayVars

ReportStep(m) ==
    \/ ReportDelivered(m) /\ Heard(m, "delivered")
    \/ (ReportFailed(m) \/ ReportCaught(m)) /\ Heard(m, "failed")

\* Everything else happens in one of the two services.
GatewayStep == UNCHANGED vars /\ Flow!GatewayStep

EmailStep ==
    /\ \/ \E m \in Messages : HandlerWork(m) \/ SmtpStep(m) \/ SendTimesOut(m)
       \/ CircuitHalfOpens \/ LoseConnection \/ Restart
    /\ UNCHANGED gatewayVars

EmailFlowNext ==
    \/ \E m \in Messages : PublishStep(m) \/ ReportStep(m)
    \/ GatewayStep \/ EmailStep

EmailFlowSpec == EmailFlowInit /\ [][EmailFlowNext]_emailFlowVars

-----------------------------------------------------------------------------
\* What the client was told is what becomes of its notification, whatever its
\* correlation id: one answered with 400 or 404 never gets into the queue nor
\* into a mailbox, and one answered with 202 waits in the queue, was given up,
\* or was mailed under its correlation id (notification.service.ts:39-133,
\* email.consumer.ts:67-142).
EmailMatchesAnswer ==
    \A m \in Messages :
        /\ response[m] \in {"400", "404"} => broker[m] = "absent" /\ emails[m] = 0
        /\ response[m] = "202" => m \in Owed \cup Dropped \cup Mailed

\* Nobody is mailed a notification that an opt-out, known to everybody when it
\* was requested, forbids; unless its user record came by gRPC
\* (notification.service.ts:46-57, 213-218).
OptOutsNotMailed ==
    \A m \in Messages : m \in optedOut /\ emails[m] > 0 => seen[m]["user"] = Bare
=============================================================================
