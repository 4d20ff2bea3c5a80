---------------------------- MODULE PushDelivery ----------------------------
(***************************************************************************)
(* push-service from push.queue to Firebase: the consumer callback         *)
(* (queues/rabbitmq.provider.ts, consumer/push.consumer.ts), the           *)
(* idempotency map and the circuit breaker of PushService, and the HTTP    *)
(* callers of the same sendPushNotification (push.controller.ts).          *)
(*                                                                         *)
(* prefetch(1) lets the broker hand out one delivery at a time; it stays   *)
(* unacknowledged until ack, nack, or the loss of the process, which puts  *)
(* it back in the queue.  A copy of a message is a pair <<m, n>>: request  *)
(* m with x-retry-count n.  Broker and Firebase are external; the broker   *)
(* does not restart, and the connection is PushConnection's concern.       *)
(***************************************************************************)
EXTENDS PushCircuit, FiniteSets

CONSTANTS
    Messages,       \* requests that the gateway may publish, each once
    Rejectable,     \* those Firebase may reject; a push_token that is missing
                    \* or invalid is found by Firebase only (FCMService's
                    \* validateToken has no caller), and its push is retried
    Consumer,       \* the queue consumer
    HttpCallers,    \* concurrent HTTP requests
    NoMessage,
    MAX_RETRIES,
    MaxLapses,      \* bound: times the idempotency map forgets something
    MaxLost         \* bound: pushes sent whose answer is lost

ASSUME DeliveryAssumption ==
    /\ Consumer \notin HttpCallers /\ IsFiniteSet(HttpCallers)
    /\ NoMessage \notin Messages
    /\ MAX_RETRIES \in Nat
    /\ MaxLapses \in Nat /\ MaxLost \in Nat

VARIABLES
    arrived,        \* requests that the gateway has published
    queue,          \* push.queue: [Copies -> number of copies ready]
    failedQueue,    \* requests dead-lettered to failed.queue
    pc,             \* where each caller of sendPushNotification stands
    req,            \* the request it works for
    retryCount,     \* x-retry-count of the delivery the consumer holds
    processedRequests,
    posted,         \* the last status post of each request that got through
    \* History variables
    sends,          \* [Messages -> pushes Firebase sent to the device]
    lapses,
    lost

brokerVars == <<arrived, queue, failedQueue>>
callerVars == <<pc, req, retryCount>>
serviceVars == <<breakerVars, processedRequests>>
historyVars == <<sends, lapses, lost>>
vars == <<brokerVars, callerVars, serviceVars, posted, historyVars>>

Callers == {Consumer} \cup HttpCallers
Copies == Messages \X (0..MAX_RETRIES)
Phases == {"idle", "calling", "accepted",                \* every caller
           "succeeded", "acking", "errored", "handling", "backoff"}

TypeOK ==
    /\ CircuitTypeOK
    /\ arrived \subseteq Messages
    /\ queue \in [Copies -> Nat]
    /\ failedQueue \subseteq Messages
    /\ pc \in [Callers -> Phases]
    /\ req \in [Callers -> Messages \cup {NoMessage}]
    /\ \A c \in Callers : pc[c] = "idle" <=> req[c] = NoMessage
    /\ retryCount \in 0..MAX_RETRIES
    /\ processedRequests \subseteq Messages
    /\ posted \in [Messages -> {"none", "delivered", "failed"}]
    /\ sends \in [Messages -> Nat]
    /\ lapses \in 0..MaxLapses
    /\ lost \in 0..MaxLost

Init ==
    /\ CircuitInit
    /\ arrived = {}
    /\ queue = [copy \in Copies |-> 0]
    /\ failedQueue = {}
    /\ pc = [c \in Callers |-> "idle"]
    /\ req = [c \in Callers |-> NoMessage]
    /\ retryCount = 0
    /\ processedRequests = {}
    /\ posted = [m \in Messages |-> "none"]
    /\ sends = [m \in Messages |-> 0]
    /\ lapses = 0
    /\ lost = 0

-----------------------------------------------------------------------------
Enqueue(copy) == queue' = [queue EXCEPT ![copy] = @ + 1]
Held == <<req[Consumer], retryCount>>

Phase(c, phase) == pc' = [pc EXCEPT ![c] = phase]
BugKeepsRequest(c) == Phase(c, "idle") /\ UNCHANGED <<req, retryCount>>
Release(c) ==
    /\ Phase(c, "idle")
    /\ req' = [req EXCEPT ![c] = NoMessage]
    /\ retryCount' = IF c = Consumer THEN 0 ELSE retryCount

\* sendPushNotification returned to its caller: an HTTP caller answers its
\* client and is done, the consumer goes on to report the outcome.
Return(c, outcome) ==
    IF c = Consumer
    THEN Phase(c, outcome) /\ UNCHANGED <<req, retryCount>>
    ELSE Release(c)

\* sendPushNotification up to its first await: the duplicate is answered with
\* success, an open circuit with an error, anything else goes to Firebase.
StartSend(c, m) ==
    \/ /\ m \in processedRequests
       /\ c = Consumer
       /\ Phase(c, "succeeded")
       /\ req' = [req EXCEPT ![c] = m]
       /\ UNCHANGED breakerVars
    \/ /\ m \notin processedRequests
       /\ CircuitState = "OPEN"
       /\ c = Consumer
       /\ Phase(c, "errored")
       /\ req' = [req EXCEPT ![c] = m]
       /\ UNCHANGED breakerVars
    \/ /\ m \notin processedRequests
       /\ CircuitState # "OPEN"
       /\ GetCircuitState
       /\ Phase(c, "calling")
       /\ req' = [req EXCEPT ![c] = m]

\* The exchange routes a message of the gateway to push.queue.
Arrive(m) ==
    /\ m \notin arrived
    /\ arrived' = arrived \cup {m}
    /\ Enqueue(<<m, 0>>)
    /\ UNCHANGED <<failedQueue, callerVars, serviceVars, posted, historyVars>>

\* The broker hands a copy to the consumer callback.
Deliver(m, n) ==
    /\ pc[Consumer] = "idle"
    /\ queue[<<m, n>>] > 0
    /\ queue' = [queue EXCEPT ![<<m, n>>] = @ - 1]
    /\ retryCount' = n
    /\ StartSend(Consumer, m)
    /\ UNCHANGED <<arrived, failedQueue, processedRequests, posted, sends, lapses, lost>>

\* An HTTP request for the same or another notification.  (One that is
\* refused, or a duplicate, returns at once and changes nothing.)
HttpRequest(c, m) ==
    /\ pc[c] = "idle"
    /\ StartSend(c, m)
    /\ UNCHANGED <<brokerVars, retryCount, processedRequests, posted, sends,
                   lapses, lost>>

-----------------------------------------------------------------------------
(* The call of Firebase, during which the caller awaits.                   *)

\* Firebase takes the message and pushes it to the device.
FirebaseAccepts(c) ==
    /\ pc[c] = "calling"
    /\ Phase(c, "accepted")
    /\ sends' = [sends EXCEPT ![req[c]] = @ + 1]
    /\ UNCHANGED <<brokerVars, req, retryCount, serviceVars, posted,
                   lapses, lost>>

\* The sender resumes with the message id.
BugMarkForgotten(m) == UNCHANGED processedRequests
MarkAsProcessed(m) == processedRequests' = processedRequests \cup {m}

Succeed(c) ==
    /\ pc[c] = "accepted"
    /\ MarkAsProcessed(req[c])
    /\ OnSuccess
    /\ Return(c, "succeeded")
    /\ UNCHANGED <<brokerVars, posted, historyVars>>

BugMarkedAnyway(m) == OnFailure /\ MarkAsProcessed(m)
Caught(m) == OnFailure /\ UNCHANGED processedRequests

\* The catch block: Firebase rejected the message, or sent it and the answer
\* got lost.
Fail(c) ==
    /\ \/ pc[c] = "calling" /\ req[c] \in Rejectable /\ UNCHANGED lost
       \/ pc[c] = "accepted" /\ lost < MaxLost /\ lost' = lost + 1
    /\ Caught(req[c])
    /\ Return(c, "errored")
    /\ UNCHANGED <<brokerVars, posted, sends, lapses>>

-----------------------------------------------------------------------------
(* The consumer callback after sendPushNotification.                       *)

\* reportStatus swallows a post that fails, and never repeats it.
PostArrives(status) == posted' = [posted EXCEPT ![req[Consumer]] = status]
PostLost == UNCHANGED posted

Report(from, status, to) ==
    /\ pc[Consumer] = from
    /\ PostArrives(status) \/ PostLost
    /\ Phase(Consumer, to)
    /\ UNCHANGED <<brokerVars, req, retryCount, serviceVars, historyVars>>

ReportDelivered == Report("succeeded", "delivered", "acking")
\* Posted by the else branch and once more by the catch block it throws into.
ReportFailed == Report("errored", "failed", "handling")

Ack ==
    /\ pc[Consumer] = "acking"
    /\ Release(Consumer)
    /\ UNCHANGED <<brokerVars, serviceVars, posted, historyVars>>

\* handleFailedMessage: wait and retry, or nack without requeue, which the
\* queue's dead-letter arguments turn into a move to failed.queue.
RetriesLeft == retryCount < MAX_RETRIES

BugNoDeadLetterArguments(m) == UNCHANGED failedQueue
DeadLetter(m) == failedQueue' = failedQueue \cup {m}

HandleFailed ==
    /\ pc[Consumer] = "handling"
    /\ \/ /\ RetriesLeft
          /\ Phase(Consumer, "backoff")
          /\ UNCHANGED <<brokerVars, req, retryCount>>
       \/ /\ ~RetriesLeft
          /\ DeadLetter(req[Consumer])
          /\ Release(Consumer)
          /\ UNCHANGED <<arrived, queue>>
    /\ UNCHANGED <<serviceVars, posted, historyVars>>

\* The timer of handleFailedMessage: publish the next copy, then ack.
BugCountNotRaised == Held
NextCopy == <<req[Consumer], retryCount + 1>>

RetryTimer ==
    /\ pc[Consumer] = "backoff"
    /\ Enqueue(NextCopy)
    /\ Release(Consumer)
    /\ UNCHANGED <<arrived, failedQueue, serviceVars, posted, historyVars>>

-----------------------------------------------------------------------------
(* Time, and what is lost.                                                 *)

Tick ==
    /\ quiet < LongAgo
    /\ quiet' = quiet + 1
    /\ UNCHANGED <<state, failures, halfOpenCalls, brokerVars, callerVars,
                   processedRequests, posted, historyVars>>

\* x-message-ttl: a copy that waited an hour is dead-lettered by the broker.
QueueTtl(m, n) ==
    /\ queue[<<m, n>>] > 0
    /\ queue' = [queue EXCEPT ![<<m, n>>] = @ - 1]
    /\ DeadLetter(m)
    /\ UNCHANGED <<arrived, callerVars, serviceVars, posted, historyVars>>

\* REQUEST_TTL: the timer set by markAsProcessed.
ForgetRequest(m) ==
    /\ m \in processedRequests
    /\ lapses < MaxLapses
    /\ lapses' = lapses + 1
    /\ processedRequests' = processedRequests \ {m}
    /\ UNCHANGED <<brokerVars, callerVars, breakerVars, posted, sends, lost>>

\* The process dies and is started again; everything it kept in memory is
\* gone and the broker requeues the delivery it held.  It may die between the
\* two sends of the retry timer: then the next copy is in the queue as well.
Requeue(queued) ==
    IF pc[Consumer] = "idle" THEN queued ELSE [queued EXCEPT ![Held] = @ + 1]

Restart ==
    /\ lapses < MaxLapses
    /\ lapses' = lapses + 1
    /\ \/ queue' = Requeue(queue)
       \/ /\ pc[Consumer] = "backoff"
          /\ queue' = Requeue([queue EXCEPT ![NextCopy] = @ + 1])
    /\ pc' = [c \in Callers |-> "idle"]
    /\ req' = [c \in Callers |-> NoMessage]
    /\ retryCount' = 0
    /\ processedRequests' = {}
    /\ Close                \* the same values as the initial ones
    /\ UNCHANGED <<arrived, failedQueue, posted, sends, lost>>

ConsumerWork ==
    \/ \E m \in Messages, n \in 0..MAX_RETRIES : Deliver(m, n)
    \/ Succeed(Consumer) \/ Fail(Consumer)
    \/ Ack \/ HandleFailed \/ RetryTimer

ConsumerStep == ConsumerWork \/ ReportDelivered \/ ReportFailed

CallStep ==
    \/ \E c \in HttpCallers : Succeed(c) \/ Fail(c)
    \/ \E c \in Callers : FirebaseAccepts(c)

Elapse ==
    \/ Tick
    \/ \E m \in Messages, n \in 0..MAX_RETRIES : QueueTtl(m, n)
    \/ \E m \in Messages : ForgetRequest(m)
    \/ Restart

Next ==
    \/ \E m \in Messages : Arrive(m)
    \/ ConsumerStep
    \/ \E c \in HttpCallers, m \in Messages : HttpRequest(c, m)
    \/ CallStep
    \/ Elapse

Spec == Init /\ [][Next]_vars

\* The consumer's own steps (awaits, timers and deliveries) are not postponed
\* for ever, and Firebase answers.  HTTP callers, expiries and restarts need
\* never happen.
Fairness ==
    /\ WF_vars(ConsumerStep \/ FirebaseAccepts(Consumer))
    /\ WF_vars(Tick)

FairSpec == Spec /\ Fairness

-----------------------------------------------------------------------------
Outstanding(m) ==
    \/ \E n \in 0..MAX_RETRIES : queue[<<m, n>>] > 0
    \/ req[Consumer] = m

\* A published request whose copies are all gone was pushed to the device or stands in
\* failed.queue: over retries, duplicate answers and restarts no copy is
\* acknowledged without one or the other (rabbitmq.provider.ts:157-240).  That
\* includes a push whose token Firebase rejects.  docs/ARCHITECTURE_DIAGRAM.md
\* :219-222 promises another end for it, "ACK message (don't retry)", which the
\* code has not: it validates no token (push.service.ts:54-77), and retries and
\* dead-letters such a push like any other.
NeverLost ==
    \A m \in arrived : Outstanding(m) \/ sends[m] > 0 \/ m \in failedQueue

\* However many callers race for a request, each may push it at most once
\* per lifetime of the idempotency entry, and beyond that only a lost answer
\* makes one more (push.service.ts:24-57).
DuplicatesAccounted ==
    \A m \in Messages : sends[m] <= Cardinality(Callers) * (lapses + 1) + lost

\* The status the consumer posted agrees with what happened to the request
\* (push.consumer.ts:66-80).
PostedIsTrue ==
    \A m \in Messages : posted[m] = "delivered" => sends[m] > 0

\* Every request leaves the queue for good: the retries end
\* (rabbitmq.provider.ts:197-240).
EveryRequestSettles == \A m \in Messages : <>[](~Outstanding(m))

\* The mapping to Channel: a request is outstanding while a copy is queued or
\* held, sent once Firebase pushed it, dead once it stands in failed.queue.
Owed == {m \in Messages : Outstanding(m)}
Pushed == {m \in Messages : sends[m] > 0}

Chan == INSTANCE Channel WITH
    accepted <- arrived, outstanding <- Owed, sent <- Pushed, dead <- failedQueue, told <- posted

\* What the consumer does with copies, retries, restarts and racing senders is
\* a channel: no request leaves unsent and not given up, none comes back once
\* its copies are gone, and "delivered" is never posted ahead of the push
\* (rabbitmq.provider.ts:157-240, push.consumer.ts:48-92).
ImplementsChannel == Chan!Spec
=============================================================================
