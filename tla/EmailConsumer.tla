--------------------------- MODULE EmailConsumer ---------------------------
(***************************************************************************)
(* email-service from email.queue to the SMTP server: processMessage and   *)
(* processEmailWithRetry (consumer/email.consumer.ts), sendEmail and its   *)
(* opossum breaker (services/email.service.ts), the template cache         *)
(* (services/template.service.ts) and the broker connection                *)
(* (queues/rabbitmq.provider.ts).                                          *)
(*                                                                         *)
(* There is no prefetch: every ready message has a handler of its own, and *)
(* handlers interleave at their awaits.  The provider never reconnects, so *)
(* a handler whose connection was lost holds a dead channel for ever, and  *)
(* a message has at most one handler.  RabbitMQ, Redis, the SMTP server    *)
(* and opossum are external.                                               *)
(***************************************************************************)
EXTENDS Naturals

CONSTANTS
    Messages,
    CorrelationOf,      \* [Messages -> correlation_id]
    TemplateOf,         \* [Messages -> template_id]; the gateway sets none
    BodyOf,             \* [Messages -> template_data.body]
    Broken,             \* <<m, b>>: m's subject, or body b with m's data,
                        \* fails to render
    NoBody,
    MaxAttempts,        \* email.retry.maxAttempts
    MaxFaults           \* bound: connection losses and process restarts

ASSUME EmailAssumption ==
    /\ MaxAttempts \in Nat \ {0}
    /\ MaxFaults \in Nat
    /\ \A m \in Messages : BodyOf[m] # NoBody

VARIABLES
    broker,         \* where the broker has each message
    connected,
    pc,             \* where the handler of each message stands
    attempt,
    processed,      \* the keys processed:<correlation_id> in Redis
    templateCache,
    mailing,        \* messages with a sendMail in progress
    circuit, pendingClose,      \* the opossum breaker
    posted,         \* the last status post of each message that got through
    \* History variables
    emails,         \* [Messages -> e-mails the SMTP server took]
    rendered,       \* the body last rendered for each message's e-mail
    deliveries,     \* [Messages -> times the broker delivered it]
    faults,
    unheard         \* messages whose "delivered" this process posted in vain

brokerVars == <<broker, connected>>
circuitVars == <<circuit, pendingClose>>
historyVars == <<emails, rendered, deliveries, faults, unheard>>
vars == <<brokerVars, pc, attempt, processed, templateCache, mailing,
          circuitVars, posted, historyVars>>

Correlations == {CorrelationOf[m] : m \in Messages}
Templates == {TemplateOf[m] : m \in Messages}
Bodies == {BodyOf[m] : m \in Messages}
BrokerStates == {"absent", "ready", "unacked", "acked", "dropped"}
Phases == {"idle", "checking", "attempting", "sending", "accepted",
           "succeeded", "marking", "acked",     \* the way of a success
           "failed", "nacked",                  \* the way of a failure
           "caught", "rethrowing"}              \* processMessage's catch block

TypeOK ==
    /\ broker \in [Messages -> BrokerStates]
    /\ connected \in BOOLEAN
    /\ pc \in [Messages -> Phases]
    /\ attempt \in [Messages -> 1..MaxAttempts]
    /\ processed \subseteq Correlations
    /\ templateCache \in [Templates -> Bodies \cup {NoBody}]
    /\ mailing \subseteq Messages
    /\ circuit \in {"closed", "open", "halfOpen"}
    /\ pendingClose \in BOOLEAN
    /\ posted \in [Messages -> {"none", "delivered", "failed"}]
    /\ emails \in [Messages -> Nat]
    /\ rendered \in [Messages -> Bodies \cup {NoBody}]
    /\ deliveries \in [Messages -> Nat]
    /\ faults \in 0..MaxFaults
    /\ unheard \subseteq Messages

ProcessStarts ==
    [pc |-> [m \in Messages |-> "idle"], attempt |-> [m \in Messages |-> 1],
     cache |-> [t \in Templates |-> NoBody]]

Init ==
    /\ broker = [m \in Messages |-> "absent"]
    /\ connected = TRUE
    /\ pc = ProcessStarts.pc
    /\ attempt = ProcessStarts.attempt
    /\ processed = {}
    /\ templateCache = ProcessStarts.cache
    /\ mailing = {}
    /\ circuit = "closed" /\ pendingClose = FALSE
    /\ posted = [m \in Messages |-> "none"]
    /\ emails = [m \in Messages |-> 0]
    /\ rendered = [m \in Messages |-> NoBody]
    /\ deliveries = [m \in Messages |-> 0]
    /\ faults = 0
    /\ unheard = {}

-----------------------------------------------------------------------------
(* The opossum breaker with volumeThreshold 0: a failure may be enough to   *)
(* open it (how many, the rolling window decides), a half-open one lets a   *)
(* single trial through, and its next answer decides.                       *)

CircuitLets == circuit = "closed" \/ pendingClose
FireBegins == pendingClose' = FALSE /\ UNCHANGED circuit

FireSucceeded ==
    /\ circuit' = IF circuit = "halfOpen" THEN "closed" ELSE circuit
    /\ UNCHANGED pendingClose

FireFailed ==
    \/ circuit' = "open" /\ pendingClose' = FALSE
    \/ circuit # "halfOpen" /\ UNCHANGED circuitVars

\* resetTimeout after opening.
CircuitHalfOpens ==
    /\ circuit = "open"
    /\ circuit' = "halfOpen"
    /\ pendingClose' = TRUE
    /\ UNCHANGED <<brokerVars, pc, attempt, processed, templateCache, mailing,
                   posted, historyVars>>

-----------------------------------------------------------------------------
Phase(m, phase) == pc' = [pc EXCEPT ![m] = phase]
Settle(m, outcome) == broker' = [broker EXCEPT ![m] = outcome]

\* The broker puts back what is unacknowledged on a lost connection; nothing
\* in the process subscribes again.
Requeued == [m \in Messages |-> IF broker[m] = "unacked" THEN "ready" ELSE broker[m]]

ConnectionLost ==
    /\ faults < MaxFaults
    /\ faults' = faults + 1
    /\ connected' = FALSE
    /\ broker' = Requeued

\* ack and nack write to the socket and wait for nothing: what is written may
\* be lost with the connection, and the handler goes on as if it was not.  On
\* the dead channel that is left they throw, into processMessage's catch.
SettleThen(m, outcome, phase) ==
    \/ connected /\ Settle(m, outcome) /\ Phase(m, phase) /\ UNCHANGED <<connected, faults>>
    \/ connected /\ ConnectionLost /\ Phase(m, phase)
    \/ ~connected /\ Phase(m, "caught") /\ UNCHANGED <<brokerVars, faults>>

AckThen(m, phase) == SettleThen(m, "acked", phase)

\* nack without requeue: email.queue has no dead-letter exchange.
BugRequeues(m, phase) == SettleThen(m, "ready", phase)
NackThen(m, phase) == SettleThen(m, "dropped", phase)

\* The exchange routes a message of the gateway to email.queue.
Arrive(m) ==
    /\ broker[m] = "absent"
    /\ Settle(m, "ready")
    /\ UNCHANGED <<connected, pc, attempt, processed, templateCache, mailing,
                   circuitVars, posted, historyVars>>

Deliver(m) ==
    /\ connected
    /\ broker[m] = "ready"
    /\ Settle(m, "unacked")
    /\ Phase(m, "checking")
    /\ deliveries' = [deliveries EXCEPT ![m] = @ + 1]
    /\ UNCHANGED <<connected, attempt, processed, templateCache, mailing,
                   circuitVars, posted, emails, rendered, faults, unheard>>

\* checkDuplicate answers false when Redis fails.
BugErrorMeansDuplicate(m) == TRUE
FoundProcessed(m) == CorrelationOf[m] \in processed

CheckDuplicate(m) ==
    /\ pc[m] = "checking"
    /\ \/ FoundProcessed(m) /\ AckThen(m, "idle")
       \/ Phase(m, "attempting") /\ UNCHANGED <<brokerVars, faults>>
    /\ UNCHANGED <<attempt, processed, templateCache, mailing, circuitVars,
                   posted, emails, rendered, deliveries, unheard>>

\* processEmailWithRetry's catch: the next attempt after a pause, or failure.
BugAttemptsNotCounted(m) == Phase(m, "attempting") /\ UNCHANGED attempt
BugNoLimit(m) ==
    attempt' = [attempt EXCEPT ![m] = @ + 1] /\ Phase(m, "attempting")
RetryOrFail(m) ==
    \/ /\ attempt[m] < MaxAttempts
       /\ attempt' = [attempt EXCEPT ![m] = @ + 1]
       /\ Phase(m, "attempting")
    \/ /\ attempt[m] >= MaxAttempts
       /\ Phase(m, "failed")
       /\ UNCHANGED attempt

\* compileTemplate: the cached template of this id, or the message's own.
Compiled(m) ==
    IF templateCache[TemplateOf[m]] # NoBody
    THEN templateCache[TemplateOf[m]] ELSE BodyOf[m]

\* One attempt up to the await in sendEmail.  The body enters the cache
\* before it is rendered for the first time; what fails to render is found
\* then, since Handlebars parses a template when it is first rendered.
Attempt(m) ==
    /\ pc[m] = "attempting"
    /\ templateCache' = [templateCache EXCEPT ![TemplateOf[m]] = Compiled(m)]
    /\ \/ /\ <<m, Compiled(m)>> \in Broken
          /\ RetryOrFail(m)
          /\ UNCHANGED <<mailing, circuitVars, rendered>>
       \/ /\ <<m, Compiled(m)>> \notin Broken
          /\ CircuitLets
          /\ FireBegins
          /\ mailing' = mailing \cup {m}
          /\ rendered' = [rendered EXCEPT ![m] = Compiled(m)]
          /\ Phase(m, "sending")
          /\ UNCHANGED attempt
       \/ /\ <<m, Compiled(m)>> \notin Broken
          /\ ~CircuitLets
          /\ Phase(m, "failed")
          /\ UNCHANGED <<mailing, circuitVars, attempt, rendered>>
    /\ UNCHANGED <<brokerVars, processed, posted, emails, deliveries, faults, unheard>>

\* The SMTP server takes the e-mail, perhaps after the breaker's timeout.
SmtpAccepts(m) ==
    /\ m \in mailing
    /\ mailing' = mailing \ {m}
    /\ emails' = [emails EXCEPT ![m] = @ + 1]
    /\ IF pc[m] = "sending" THEN Phase(m, "accepted") ELSE UNCHANGED pc
    /\ UNCHANGED <<brokerVars, attempt, processed, templateCache, circuitVars,
                   posted, rendered, deliveries, faults, unheard>>

\* sendEmail turns the breaker's rejection into a result with success false,
\* so the retry of processEmailWithRetry never sees it.
BugRetryFailedSend(m) ==
    IF attempt[m] < MaxAttempts THEN RetryOrFail(m)
    ELSE Phase(m, "failed") /\ UNCHANGED attempt
SendFails(m) == Phase(m, "failed") /\ UNCHANGED attempt

SmtpRejects(m) ==
    /\ m \in mailing
    /\ mailing' = mailing \ {m}
    /\ \/ pc[m] = "sending" /\ SendFails(m) /\ FireFailed
       \/ pc[m] # "sending" /\ UNCHANGED <<pc, attempt, circuitVars>>
    /\ UNCHANGED <<brokerVars, processed, templateCache, posted, historyVars>>

\* The breaker's 10 s timeout: the send itself goes on.
SendTimesOut(m) ==
    /\ pc[m] \in {"sending", "accepted"}
    /\ SendFails(m)
    /\ FireFailed
    /\ UNCHANGED <<brokerVars, processed, templateCache, mailing, posted, historyVars>>

SendSucceeds(m) ==
    /\ pc[m] = "accepted"
    /\ Phase(m, "succeeded")
    /\ FireSucceeded
    /\ UNCHANGED <<brokerVars, attempt, processed, templateCache, mailing,
                   posted, historyVars>>

-----------------------------------------------------------------------------
(* What processMessage does with the result.                               *)

AckSuccess(m) ==
    /\ pc[m] = "succeeded"
    /\ AckThen(m, "marking")
    /\ UNCHANGED <<attempt, processed, templateCache, mailing, circuitVars,
                   posted, emails, rendered, deliveries, unheard>>

\* markAsProcessed swallows the error when Redis fails.
BugRedisErrorEscapes(m) == Phase(m, "caught") /\ UNCHANGED processed
MarkFails(m) == Phase(m, "acked") /\ UNCHANGED processed

MarkAsProcessed(m) ==
    /\ pc[m] = "marking"
    /\ \/ processed' = processed \cup {CorrelationOf[m]} /\ Phase(m, "acked")
       \/ MarkFails(m)
    /\ UNCHANGED <<brokerVars, attempt, templateCache, mailing, circuitVars,
                   posted, historyVars>>

NackFailure(m) ==
    /\ pc[m] = "failed"
    /\ NackThen(m, "nacked")
    /\ UNCHANGED <<attempt, processed, templateCache, mailing, circuitVars,
                   posted, emails, rendered, deliveries, unheard>>

\* reportStatus: a post that fails is logged and never repeated.  (What the
\* gateway makes of one that arrives, PostChannelStatus of Gateway says.)
PostArrives(m, status) ==
    /\ posted' = [posted EXCEPT ![m] = status]
    /\ unheard' = unheard \ {m}
PostLost(m, status) ==
    /\ unheard' = IF status = "delivered" THEN unheard \cup {m} ELSE unheard
    /\ UNCHANGED posted

Report(m, from, status, to) ==
    /\ pc[m] = from
    /\ PostArrives(m, status) \/ PostLost(m, status)
    /\ Phase(m, to)
    /\ UNCHANGED <<brokerVars, attempt, processed, templateCache, mailing,
                   circuitVars, emails, rendered, deliveries, faults>>

ReportDelivered(m) == Report(m, "acked", "delivered", "idle")
ReportFailed(m) == Report(m, "nacked", "failed", "idle")
ReportCaught(m) == Report(m, "caught", "failed", "rethrowing")

-----------------------------------------------------------------------------
(* Faults.                                                                 *)

LoseConnection ==
    /\ connected
    /\ ConnectionLost
    /\ UNCHANGED <<pc, attempt, processed, templateCache, mailing, circuitVars,
                   posted, emails, rendered, deliveries, unheard>>

\* A new process in place of the old one.
NewProcess ==
    /\ broker' = Requeued
    /\ connected' = TRUE
    /\ pc' = ProcessStarts.pc
    /\ attempt' = ProcessStarts.attempt
    /\ templateCache' = ProcessStarts.cache
    /\ mailing' = {}
    /\ circuit' = "closed" /\ pendingClose' = FALSE
    /\ unheard' = {}
    /\ UNCHANGED <<processed, posted, emails, rendered, deliveries>>

\* The process ends: somebody ends it, or Redis rejects a state that an event
\* of the breaker writes.  Nothing awaits that write, so that the handlers'
\* try/catch does not see the rejection.
Restart ==
    /\ faults < MaxFaults
    /\ faults' = faults + 1
    /\ NewProcess

\* The nack of the catch block throws again on a dead channel: nothing handles
\* the rejection, and it ends the process with all its handlers.
Rethrow(m) ==
    /\ pc[m] = "rethrowing"
    /\ ~connected
    /\ NewProcess
    /\ UNCHANGED faults

HandlerWork(m) ==
    \/ Deliver(m) \/ CheckDuplicate(m) \/ Attempt(m)
    \/ SendSucceeds(m) \/ AckSuccess(m) \/ MarkAsProcessed(m) \/ NackFailure(m)
    \/ Rethrow(m)

HandlerStep(m) ==
    HandlerWork(m) \/ ReportDelivered(m) \/ ReportFailed(m) \/ ReportCaught(m)

SmtpStep(m) == SmtpAccepts(m) \/ SmtpRejects(m)

Next ==
    \/ \E m \in Messages : Arrive(m) \/ HandlerStep(m) \/ SmtpStep(m) \/ SendTimesOut(m)
    \/ CircuitHalfOpens
    \/ LoseConnection
    \/ Restart

Spec == Init /\ [][Next]_vars

\* The broker delivers, awaits return and the breaker's timer fires.  That the
\* SMTP server answers is not assumed: the timeout is there for that.
Fairness ==
    /\ \A m \in Messages : WF_vars(HandlerStep(m)) /\ WF_vars(SendTimesOut(m))
    /\ WF_vars(CircuitHalfOpens)

FairSpec == Spec /\ Fairness

-----------------------------------------------------------------------------
\* A message is acknowledged only when an e-mail with its correlation id was
\* sent: a duplicate is never assumed on the strength of a Redis error, and no
\* key is written for what was not sent (email.consumer.ts:83-107, 198-221).
AckedWasSent ==
    \A m \in Messages : broker[m] = "acked" =>
        \E k \in Messages : CorrelationOf[k] = CorrelationOf[m] /\ emails[k] > 0

\* However a send ends (rejected, timed out and sent late, or answered while
\* the connection is gone), one delivery makes at most one e-mail
\* (email.consumer.ts:144-195).
OneEmailPerDelivery ==
    \A m \in Messages :
        emails[m] + (IF m \in mailing THEN 1 ELSE 0) <= deliveries[m]

\* Only a lost connection or the end of the process makes another e-mail of a
\* message, however many timeouts, attempts and rejections it met
\* (email.consumer.ts:83-142, email.service.ts:57-73).
DuplicatesNeedFaults == \A m \in Messages : emails[m] <= faults + 1

\* Once a sent message is acknowledged, and no connection or process breaks any
\* more, the gateway is told it was delivered and never told otherwise after-
\* wards, unless the very post that tells it so is lost: no Redis error on the
\* way keeps the handler from that post, or makes it post a failure instead
\* (email.consumer.ts:103-141, 198-256).
SuccessIsReported ==
    \A m \in Messages :
        (pc[m] = "marking" /\ connected /\ faults = MaxFaults)
            ~> [](posted[m] = "delivered" \/ m \in unheard)

\* While the connection lasts every message in the queue is acknowledged or
\* given up.
EveryMessageSettles ==
    <>[]connected => \A m \in Messages : <>[](broker[m] \notin {"ready", "unacked"})

\* The mapping to Channel: a message is outstanding until it is acknowledged
\* or dropped, and one e-mail serves every message with its correlation id.
Arrived == {m \in Messages : broker[m] # "absent"}
Owed == {m \in Messages : broker[m] \in {"ready", "unacked"}}
Dropped == {m \in Messages : broker[m] = "dropped"}
Mailed ==
    {m \in Messages :
        \E k \in Messages : CorrelationOf[k] = CorrelationOf[m] /\ emails[k] > 0}

Chan == INSTANCE Channel WITH
    accepted <- Arrived, outstanding <- Owed, sent <- Mailed, dead <- Dropped, told <- posted

\* Handlers that interleave, time out, lose their connection or end with the
\* process are a channel: what left the queue was sent or dropped, nothing
\* comes back, and "delivered" is never posted ahead of an e-mail
\* (email.consumer.ts:67-142).
ImplementsChannel == Chan!Spec

\* docs/ARCHITECTURE_DIAGRAM.md:196-202: a failed send is retried three times
\* before the message is given up.
GivesUpAfterRetries ==
    \A m \in Messages :
        broker[m] = "dropped" => attempt[m] = MaxAttempts \/ emails[m] > 0

\* email-service/README.md:147, "Inline: Provided in the message
\* template_data.body": an e-mail has the body of its own message.
RendersInlineBody ==
    \A m \in Messages : rendered[m] \in {NoBody, BodyOf[m]}
=============================================================================
