-------------------------- MODULE NotificationFlow --------------------------
(***************************************************************************)
(* A notification from the request to its outcome: api-gateway (Gateway),  *)
(* the queue between them, and a channel service, of which only what both  *)
(* channel services are shown to promise is used (Channel, implemented by  *)
(* PushDelivery and EmailConsumer).  They meet in two calls: a confirmed   *)
(* publish puts the message into the channel's queue, and the channel      *)
(* posts statuses back to the gateway; a post that does not get there is a *)
(* step of nobody.  The broker is assumed not to restart: the gateway's    *)
(* messages are not persistent (rabbitmq.service.ts:28).                   *)
(***************************************************************************)
EXTENDS Gateway

CONSTANT Followed   \* the requests whose message is followed into the channel

ASSUME FlowAssumption == Followed \subseteq Requests

VARIABLES outstanding, sent, dead, told

Chan == INSTANCE Channel WITH Messages <- Followed, accepted <- published \cap Followed
channelVars == <<outstanding, sent, dead, told>>
flowVars == <<vars, channelVars>>

FlowTypeOK == TypeOK /\ Chan!ChannelTypeOK

FlowInit == Init /\ Chan!Init

\* The exchange routes the message to the queue of its channel.
PublishStep(r) ==
    /\ Publish(r)
    /\ IF r \in published' \cap Followed THEN Chan!Enqueue(r) ELSE UNCHANGED channelVars

\* The channel service posts a status, and the gateway's endpoint answers.
StatusStep(r, s) ==
    /\ PostChannelStatus(r, s)
    /\ IF r \in Followed THEN Chan!Tell(r, s) ELSE UNCHANGED channelVars

GatewayStep ==
    /\ \/ \E r \in Requests :
             \/ Arrive(r) \/ CheckIdempotency(r) \/ ReadCache(r) \/ Fetch(r)
             \/ FillCache(r) \/ CheckPreferences(r) \/ SetIdempotency(r)
             \/ SetPending(r) \/ RedisFails(r)
       \/ \E r \in Requests, s \in Terminal : PostStatus(r, s)
       \/ \E k \in Keys : KeyExpires(k)
       \/ \E k \in Records : CacheExpires(k)
       \/ Edit
    /\ UNCHANGED channelVars

\* The channel service sends only what reached its queue.
ChannelStep ==
    /\ UNCHANGED vars
    /\ \/ \E rs \in SUBSET (published \cap Followed) : Chan!Send(rs)
       \/ \E r \in published \cap Followed : Chan!GiveUp(r) \/ Chan!Settle(r)

FlowNext ==
    \/ \E r \in Requests : PublishStep(r)
    \/ \E r \in Requests, s \in Terminal : StatusStep(r, s)
    \/ GatewayStep
    \/ ChannelStep

\* A message leaves the queue in the end: Chan!Progress, which the runs of
\* PushDelivery and EmailConsumer show of the channel services.
Leave(r) == UNCHANGED vars /\ (Chan!Settle(r) \/ Chan!GiveUp(r)) /\ r \notin outstanding'

FlowSafety == FlowInit /\ [][FlowNext]_flowVars

FlowSpec ==
    /\ FlowSafety
    /\ \A r \in Followed : WF_flowVars(Leave(r))

-----------------------------------------------------------------------------
\* What the client was told is what becomes of its notification: nothing is
\* ever sent for a request answered with 400 or 404, and one answered with 202
\* waits in the queue, was sent, or was given up: a push dead-lettered to
\* failed.queue, an e-mail discarded, since email.queue has no dead-letter
\* exchange (notification.service.ts:39-133, the push and e-mail consumers,
\* rabbitmq.provider.ts:67 of email-service).  It holds while the broker keeps
\* its queues.
OutcomeMatchesAnswer ==
    \A r \in Followed :
        /\ response[r] \in {"400", "404"} => r \notin outstanding \cup sent \cup dead
        /\ response[r] = "202" => r \in outstanding \cup sent \cup dead

\* status.controller.ts:19 and :34, "Status recorded": what a channel service
\* posts is what the status of the notification then is.
PostedStatusIsRecorded ==
    [][\A r \in Followed, s \in Terminal :
          StatusStep(r, s) => status'[IdOf[r]] = s]_flowVars

\* Every notification answered with 202 is sent or given up in the end.
AcceptedSettles ==
    \A r \in Followed : response[r] = "202" ~> r \in sent \cup dead
=============================================================================
