------------------------------ MODULE PushFlow ------------------------------
(***************************************************************************)
(* A push notification from the client's request to the device: the        *)
(* executions of api-gateway (Gateway) in front of push-service as it is   *)
(* (PushDelivery), where NotificationFlow has only what any channel        *)
(* service promises.  The two meet in two calls: a confirmed publish puts  *)
(* a copy into push.queue, and the consumer posts the outcome to the       *)
(* gateway's status endpoint.  Each notification has a request_id of its   *)
(* own, and whoever calls push-service by HTTP calls it for one that the   *)
(* gateway published: other pushes are not notifications of this flow.     *)
(***************************************************************************)
EXTENDS PushDelivery

CONSTANTS KeyOf, AllowedEdits, MaxEdits, Bare, Absent        \* of Gateway

VARIABLES
    idempotency, cache, status, source,                      \* of Gateway
    execution,                                               \* its pc
    looking, seen, response, keyed, late, optedOut

\* What Gateway assumes of its constants.
GatewayConstants ==
    /\ MaxEdits \in Nat
    /\ AllowedEdits \subseteq 0..MaxEdits
    /\ Absent \notin 0..MaxEdits /\ Bare \notin 0..MaxEdits
    /\ Absent # Bare

gatewayVars == <<idempotency, cache, status, source, execution, looking, seen,
                 response, keyed, late, optedOut>>
pushFlowVars == <<vars, gatewayVars>>

RequestIds == [m \in Messages |-> m]

\* The composition that this one details, with what is proved of it.
Flow == INSTANCE NotificationFlow_proofs WITH
    Requests <- Messages, Followed <- Messages, IdOf <- RequestIds,
    published <- arrived, pc <- execution,
    outstanding <- Owed, sent <- Pushed, dead <- failedQueue, told <- posted

PushFlowInit == Init /\ Flow!Init

\* The message of a confirmed publish is in push.queue.
PublishStep(m) ==
    /\ Flow!Publish(m)
    /\ IF m \in arrived' THEN Arrive(m) ELSE UNCHANGED vars

\* The consumer posts the outcome to POST /api/v1/push/status, or in vain.
Heard(outcome) ==
    \/ PostArrives(outcome) /\ Flow!PostChannelStatus(req[Consumer], outcome)
    \/ PostLost /\ UNCHANGED gatewayVars

ReportStep ==
    \/ ReportDelivered /\ Heard("delivered")
    \/ ReportFailed /\ Heard("failed")

\* Everything else happens in one of the two services.
GatewayStep == UNCHANGED vars /\ Flow!GatewayStep

\* An HTTP caller is followed when it repeats the request id of a published
\* notification; under another id it has nothing to do with any of them.
PushStep ==
    /\ \/ ConsumerWork \/ CallStep \/ Elapse
       \/ \E c \in HttpCallers, m \in Messages : m \in arrived /\ HttpRequest(c, m)
    /\ UNCHANGED gatewayVars

PushFlowNext ==
    \/ \E m \in Messages : PublishStep(m)
    \/ ReportStep \/ GatewayStep \/ PushStep

PushFlowSpec == PushFlowInit /\ [][PushFlowNext]_pushFlowVars

-----------------------------------------------------------------------------
\* What the client was told is what becomes of its notification, down to the
\* pushes: one answered with 400 or 404 never reaches a device or a queue, and
\* one answered with 202 is on its way until it was pushed or dead-lettered
\* (notification.service.ts:39-133, rabbitmq.provider.ts:157-240).
PushMatchesAnswer ==
    \A m \in Messages :
        /\ response[m] \in {"400", "404"} =>
              sends[m] = 0 /\ ~Outstanding(m) /\ m \notin failedQueue
        /\ response[m] = "202" =>
              sends[m] > 0 \/ Outstanding(m) \/ m \in failedQueue

\* Nobody is pushed a notification that an opt-out, known to everybody when it
\* was requested, forbids; unless its user record came by gRPC
\* (notification.service.ts:46-57, 213-218, push.service.ts:24-67).
OptOutsNotPushed ==
    \A m \in Messages : m \in optedOut /\ sends[m] > 0 => seen[m]["user"] = Bare
=============================================================================
