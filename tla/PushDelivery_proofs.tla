------------------------ MODULE PushDelivery_proofs ------------------------
(***************************************************************************)
(* No request is lost between push.queue and the device or failed.queue,   *)
(* and what the consumer reports as delivered was sent, for any number of  *)
(* messages, callers, retries, restarts and lost answers.                  *)
(*                                                                         *)
(* NeverLost is not inductive: that an acknowledgement is safe depends on  *)
(* why the consumer reached it (its own call was accepted, or the          *)
(* idempotency map vouches for an earlier one), and that the retry copy    *)
(* fits the queue on the consumer having had a retry left.                 *)
(***************************************************************************)
EXTENDS PushFlow, TLAPS, FiniteSetTheorems

\* Whatever treats a request as done has a push of it to show.
SentBeforeSettled ==
    /\ \A m \in processedRequests : sends[m] > 0
    /\ \A c \in Callers : pc[c] = "accepted" => sends[req[c]] > 0
    /\ pc[Consumer] \in {"succeeded", "acking"} => sends[req[Consumer]] > 0

\* The consumer waits for a retry only while it has one left.
BackoffHasRetry == pc[Consumer] = "backoff" => retryCount < MAX_RETRIES

DeliveryInv ==
    /\ TypeOK
    /\ SentBeforeSettled
    /\ BackoffHasRetry
    /\ NeverLost
    /\ PostedIsTrue

-----------------------------------------------------------------------------
\* The methods of the breaker keep its fields in their types.
LEMMA CircuitTyped ==
    ASSUME CircuitTypeOK
    PROVE  /\ GetCircuitState => CircuitTypeOK'
           /\ OnSuccess => CircuitTypeOK'
           /\ OnFailure => CircuitTypeOK'
           /\ Close => CircuitTypeOK'
           /\ UNCHANGED breakerVars => CircuitTypeOK'
<1> USE CircuitAssumption DEF CircuitTypeOK, States, LongAgo
<1>1. GetCircuitState => CircuitTypeOK'
  BY DEF GetCircuitState, CircuitState
<1>2. OnSuccess => CircuitTypeOK'
  BY DEF OnSuccess, LastTestCall, Close, ForgetFailures, breakerVars
<1>3. OnFailure => CircuitTypeOK'
  BY DEF OnFailure, StampFailure, Reopen, AtMost
<1>4. Close => CircuitTypeOK'
  BY DEF Close
<1>5. UNCHANGED breakerVars => CircuitTypeOK'
  BY DEF breakerVars
<1>6. QED
  BY <1>1, <1>2, <1>3, <1>4, <1>5

\* A copy of a message is a pair of the set the queue is indexed with.
LEMMA CopyOf ==
    \A m \in Messages, n \in 0..MAX_RETRIES : <<m, n>> \in Copies
BY DEF Copies

\* Taking a copy from the queue leaves it a queue.
LEMMA QueueTyped ==
    ASSUME queue \in [Copies -> Nat], NEW copy \in Copies, queue[copy] > 0
    PROVE  [queue EXCEPT ![copy] = @ - 1] \in [Copies -> Nat]
OBVIOUS

\* A queue that gets one more copy holds it, and holds what it held before.
LEMMA QueueGrows ==
    ASSUME NEW q \in [Copies -> Nat], NEW copy \in Copies
    PROVE  /\ [q EXCEPT ![copy] = @ + 1] \in [Copies -> Nat]
           /\ [q EXCEPT ![copy] = @ + 1][copy] > 0
           /\ \A other \in Copies :
                 q[other] > 0 => [q EXCEPT ![copy] = @ + 1][other] > 0
OBVIOUS

\* Nothing has arrived yet.
LEMMA InitEstablishes == Init => DeliveryInv
<1> SUFFICES ASSUME Init PROVE DeliveryInv
  OBVIOUS
<1> USE DeliveryAssumption DEF Init
<1>1. TypeOK
  BY CircuitAssumption DEF TypeOK, CircuitTypeOK, CircuitInit, States, LongAgo,
     Copies, Callers, Phases
<1>2. SentBeforeSettled /\ BackoffHasRetry /\ NeverLost /\ PostedIsTrue
  BY DEF SentBeforeSettled, BackoffHasRetry, NeverLost, PostedIsTrue, Callers
<1>3. QED
  BY <1>1, <1>2 DEF DeliveryInv

-----------------------------------------------------------------------------
(* One lemma per action; each takes the conjuncts of DeliveryInv in turn.  *)

\* sendPushNotification up to its await, for any caller.
LEMMA StartSendTyped ==
    ASSUME TypeOK, NEW c \in Callers, NEW m \in Messages, StartSend(c, m)
    PROVE  /\ CircuitTypeOK'
           /\ pc' \in [Callers -> Phases]
           /\ req' \in [Callers -> Messages \cup {NoMessage}]
           /\ \A d \in Callers : pc'[d] = "idle" <=> req'[d] = NoMessage
<1> USE DeliveryAssumption DEF TypeOK, StartSend, Phase, Phases
<1>1. CircuitTypeOK'
  BY CircuitTyped
<1>2. /\ pc' \in [Callers -> Phases]
      /\ req' \in [Callers -> Messages \cup {NoMessage}]
  OBVIOUS
<1>3. \A d \in Callers : pc'[d] = "idle" <=> req'[d] = NoMessage
  OBVIOUS
<1>4. QED
  BY <1>1, <1>2, <1>3

\* A request of the gateway comes into the queue.
LEMMA ArrivePreserves ==
    ASSUME DeliveryInv, NEW m \in Messages, Arrive(m)
    PROVE  DeliveryInv'
<1>1. /\ <<m, 0>> \in Copies
      /\ queue' = [queue EXCEPT ![<<m, 0>>] = @ + 1]
      /\ queue \in [Copies -> Nat]
  BY CopyOf, DeliveryAssumption DEF Arrive, Enqueue, DeliveryInv, TypeOK
<1>2. /\ queue' \in [Copies -> Nat]
      /\ queue'[<<m, 0>>] > 0
      /\ \A copy \in Copies : queue[copy] > 0 => queue'[copy] > 0
  BY <1>1, QueueGrows
<1>3. TypeOK'
  BY <1>2, CircuitTyped
  DEF Arrive, DeliveryInv, TypeOK, callerVars, serviceVars, historyVars
<1>4. NeverLost'
  <2>1. Outstanding(m)'
    BY <1>2, DeliveryAssumption DEF Outstanding
  <2>2. \A k \in Messages : Outstanding(k) => Outstanding(k)'
    BY <1>2, CopyOf DEF Outstanding, Arrive, callerVars
  <2>3. QED
    BY <2>1, <2>2 DEF NeverLost, Arrive, DeliveryInv, TypeOK, historyVars
<1>5. SentBeforeSettled' /\ BackoffHasRetry' /\ PostedIsTrue'
  BY DEF Arrive, DeliveryInv, SentBeforeSettled, BackoffHasRetry, PostedIsTrue,
     callerVars, serviceVars, historyVars
<1>6. QED
  BY <1>3, <1>4, <1>5 DEF DeliveryInv

\* A delivery (rabbitmq.provider.ts:157-169).
LEMMA DeliverPreserves ==
    ASSUME DeliveryInv, NEW m \in Messages, NEW n \in 0..MAX_RETRIES, Deliver(m, n)
    PROVE  DeliveryInv'
<1> USE DEF DeliveryInv
<1>1. <<m, n>> \in Copies /\ Consumer \in Callers
  BY CopyOf DEF Callers
<1>2. TypeOK'
  <2>1. queue' \in [Copies -> Nat] /\ retryCount' \in 0..MAX_RETRIES
    BY <1>1, QueueTyped DEF Deliver, TypeOK
  <2>2. QED
    BY <1>1, <2>1, StartSendTyped DEF Deliver, TypeOK
<1>3. SentBeforeSettled'
  BY <1>1 DEF Deliver, StartSend, Phase, SentBeforeSettled, TypeOK
<1>4. BackoffHasRetry'
  BY <1>1 DEF Deliver, StartSend, Phase, TypeOK, BackoffHasRetry
<1>5. req'[Consumer] = m
  BY <1>1 DEF Deliver, StartSend, TypeOK
<1>6. \A k \in Messages : Outstanding(k) => Outstanding(k)'
  <2> SUFFICES ASSUME NEW k \in Messages, Outstanding(k), k # m
               PROVE  Outstanding(k)'
    BY <1>5 DEF Outstanding
  <2>1. req[Consumer] # k
    BY <1>1, DeliveryAssumption DEF Deliver, TypeOK
  <2>2. PICK i \in 0..MAX_RETRIES : queue[<<k, i>>] > 0
    BY <2>1 DEF Outstanding
  <2>3. queue'[<<k, i>>] = queue[<<k, i>>]
    BY <1>1, CopyOf DEF Deliver, TypeOK
  <2>4. QED
    BY <2>2, <2>3 DEF Outstanding
<1>7. NeverLost' /\ PostedIsTrue'
  BY <1>6 DEF NeverLost, PostedIsTrue, Deliver, TypeOK
<1>8. QED
  BY <1>2, <1>3, <1>4, <1>7

\* An HTTP request (push.controller.ts:37-39).
LEMMA HttpRequestPreserves ==
    ASSUME DeliveryInv, NEW c \in HttpCallers, NEW m \in Messages, HttpRequest(c, m)
    PROVE  DeliveryInv'
<1> USE DEF DeliveryInv
<1>1. c \in Callers /\ Consumer \in Callers /\ c # Consumer
  BY DeliveryAssumption DEF Callers
<1>2. TypeOK'
  BY <1>1, StartSendTyped DEF HttpRequest, TypeOK, brokerVars
<1>3. pc'[Consumer] = pc[Consumer] /\ req'[Consumer] = req[Consumer]
  BY <1>1 DEF HttpRequest, StartSend, Phase, TypeOK
<1>4. SentBeforeSettled'
  BY <1>1, <1>3 DEF HttpRequest, StartSend, Phase, SentBeforeSettled, TypeOK
<1>5. BackoffHasRetry' /\ NeverLost' /\ PostedIsTrue'
  BY <1>3 DEF HttpRequest, BackoffHasRetry, NeverLost, PostedIsTrue,
     Outstanding, brokerVars
<1>6. QED
  BY <1>2, <1>4, <1>5

\* Firebase sends the push.
LEMMA FirebaseAcceptsPreserves ==
    ASSUME DeliveryInv, NEW c \in Callers, FirebaseAccepts(c)
    PROVE  DeliveryInv'
<1> USE DEF DeliveryInv, FirebaseAccepts, Phase
<1>1. req[c] \in Messages /\ Consumer \in Callers
  BY DEF TypeOK, Callers
<1>2. /\ sends' \in [Messages -> Nat]
      /\ sends'[req[c]] > 0
      /\ \A m \in Messages : sends[m] > 0 => sends'[m] > 0
  BY <1>1 DEF TypeOK
<1>3. TypeOK'
  BY <1>1, <1>2 DEF TypeOK, CircuitTypeOK, Phases, serviceVars, breakerVars,
     brokerVars, LongAgo
<1>4. SentBeforeSettled'
  <2>1. \A m \in processedRequests' : sends'[m] > 0
    BY <1>2 DEF SentBeforeSettled, TypeOK, serviceVars
  <2>2. \A d \in Callers : pc'[d] = "accepted" => sends'[req'[d]] > 0
    <3> SUFFICES ASSUME NEW d \in Callers, pc'[d] = "accepted", d # c
                 PROVE  sends'[req[d]] > 0
      BY <1>2
    <3>1. pc[d] = "accepted" /\ req[d] \in Messages
      BY DEF TypeOK
    <3>2. QED
      BY <1>2, <3>1 DEF SentBeforeSettled
  <2>3. pc'[Consumer] \in {"succeeded", "acking"} => sends'[req'[Consumer]] > 0
    <3> SUFFICES ASSUME pc'[Consumer] \in {"succeeded", "acking"}
                 PROVE  sends'[req[Consumer]] > 0
      OBVIOUS
    <3>1. pc[Consumer] \in {"succeeded", "acking"} /\ req[Consumer] \in Messages
      BY <1>1 DEF TypeOK
    <3>2. QED
      BY <1>2, <3>1 DEF SentBeforeSettled
  <2>4. QED
    BY <2>1, <2>2, <2>3 DEF SentBeforeSettled
<1>5. BackoffHasRetry'
  BY <1>1 DEF TypeOK, BackoffHasRetry
<1>6. NeverLost' /\ PostedIsTrue'
  BY <1>2 DEF NeverLost, PostedIsTrue, Outstanding, brokerVars
<1>7. QED
  BY <1>3, <1>4, <1>5, <1>6

\* Giving a caller back its answer keeps the callers typed, and whoever else
\* is at work stays where it was.
LEMMA ReturnTyped ==
    ASSUME TypeOK, NEW c \in Callers, NEW outcome \in Phases \ {"idle"},
           pc[c] # "idle", Return(c, outcome)
    PROVE  /\ pc' \in [Callers -> Phases]
           /\ req' \in [Callers -> Messages \cup {NoMessage}]
           /\ \A d \in Callers : pc'[d] = "idle" <=> req'[d] = NoMessage
           /\ retryCount' = retryCount
           /\ req'[Consumer] = req[Consumer]
           /\ pc'[c] \in {"idle", outcome}
           /\ \A d \in Callers \ {c} : pc'[d] = pc[d] /\ req'[d] = req[d]
           /\ c = Consumer => pc'[c] = outcome
BY DEF TypeOK, Return, Release, Phase, Phases, Callers

\* The sender resumes after Firebase resolved (push.service.ts:54-67).
LEMMA SucceedPreserves ==
    ASSUME DeliveryInv, NEW c \in Callers, Succeed(c)
    PROVE  DeliveryInv'
<1> USE DEF DeliveryInv
<1>1. /\ req[c] \in Messages
      /\ sends[req[c]] > 0
      /\ Consumer \in Callers
      /\ pc[c] # "idle" /\ "succeeded" \in Phases \ {"idle"}
  BY DEF TypeOK, Succeed, SentBeforeSettled, Callers, Phases
<1>2. Return(c, "succeeded") /\ OnSuccess /\ sends' = sends
  BY DEF Succeed, historyVars
<1> HIDE DEF DeliveryInv
<1>3. TypeOK'
  BY <1>1, <1>2, ReturnTyped, CircuitTyped
  DEF DeliveryInv, Succeed, TypeOK, MarkAsProcessed, brokerVars, historyVars
<1>4. SentBeforeSettled'
  <2>1. \A m \in processedRequests' : sends'[m] > 0
    BY <1>1 DEF DeliveryInv, Succeed, SentBeforeSettled, MarkAsProcessed, historyVars
  <2>2. \A d \in Callers : pc'[d] = "accepted" => sends'[req'[d]] > 0
    BY <1>1, <1>2, ReturnTyped DEF DeliveryInv, SentBeforeSettled
  <2>3. pc'[Consumer] \in {"succeeded", "acking"} => sends'[req'[Consumer]] > 0
    <3>1. CASE c = Consumer
      BY <1>1, <1>2, <3>1, ReturnTyped DEF DeliveryInv
    <3>2. CASE c # Consumer
      BY <1>1, <1>2, <3>2, ReturnTyped DEF DeliveryInv, SentBeforeSettled
    <3>3. QED
      BY <3>1, <3>2
  <2>4. QED
    BY <2>1, <2>2, <2>3 DEF SentBeforeSettled
<1>5. BackoffHasRetry'
  BY <1>1, <1>2, ReturnTyped DEF DeliveryInv, BackoffHasRetry
<1>6. NeverLost' /\ PostedIsTrue'
  BY <1>1, <1>2, ReturnTyped
  DEF DeliveryInv, Succeed, NeverLost, PostedIsTrue, Outstanding, brokerVars
<1>7. QED
  BY <1>3, <1>4, <1>5, <1>6 DEF DeliveryInv

\* The catch block (push.service.ts:68-77).
LEMMA FailPreserves ==
    ASSUME DeliveryInv, NEW c \in Callers, Fail(c)
    PROVE  DeliveryInv'
<1>1. /\ Consumer \in Callers
      /\ pc[c] # "idle" /\ "errored" \in Phases \ {"idle"}
  BY DEF Fail, Callers, Phases
<1>2. Return(c, "errored") /\ OnFailure /\ UNCHANGED <<sends, processedRequests>>
  BY DEF Fail, Caught
<1>3. TypeOK'
  BY <1>1, <1>2, ReturnTyped, CircuitTyped, DeliveryAssumption
  DEF DeliveryInv, Fail, TypeOK, brokerVars
<1>4. SentBeforeSettled'
  <2>1. \A d \in Callers : pc'[d] = "accepted" => sends'[req'[d]] > 0
    BY <1>1, <1>2, ReturnTyped DEF DeliveryInv, SentBeforeSettled
  <2>2. pc'[Consumer] \in {"succeeded", "acking"} => sends'[req'[Consumer]] > 0
    BY <1>1, <1>2, ReturnTyped DEF DeliveryInv, SentBeforeSettled
  <2>3. QED
    BY <1>2, <2>1, <2>2 DEF DeliveryInv, SentBeforeSettled
<1>5. BackoffHasRetry'
  BY <1>1, <1>2, ReturnTyped DEF DeliveryInv, BackoffHasRetry
<1>6. NeverLost' /\ PostedIsTrue'
  BY <1>1, <1>2, ReturnTyped
  DEF DeliveryInv, Fail, NeverLost, PostedIsTrue, Outstanding, brokerVars
<1>7. QED
  BY <1>3, <1>4, <1>5, <1>6 DEF DeliveryInv

\* The status posts (push.consumer.ts:66-80).
LEMMA ReportPreserves ==
    ASSUME DeliveryInv, ReportDelivered \/ ReportFailed
    PROVE  DeliveryInv'
<1> USE DEF DeliveryInv, ReportDelivered, ReportFailed, Report, PostArrives, PostLost, Phase
<1>1. Consumer \in Callers /\ req[Consumer] \in Messages
  BY DEF Callers, TypeOK
<1>2. TypeOK'
  BY <1>1 DEF TypeOK, CircuitTypeOK, Phases, serviceVars, breakerVars,
     brokerVars, historyVars, LongAgo
<1>3. SentBeforeSettled' /\ BackoffHasRetry'
  BY <1>1 DEF SentBeforeSettled, BackoffHasRetry, TypeOK, serviceVars, historyVars
<1>4. NeverLost'
  BY DEF NeverLost, Outstanding, brokerVars, historyVars
<1>5. PostedIsTrue'
  BY <1>1 DEF PostedIsTrue, SentBeforeSettled, TypeOK, historyVars
<1>6. QED
  BY <1>2, <1>3, <1>4, <1>5

\* What an idle consumer looks like after ack, nack or the retry timer.
LEMMA ReleaseTyped ==
    ASSUME TypeOK, Release(Consumer)
    PROVE  /\ pc' \in [Callers -> Phases]
           /\ req' \in [Callers -> Messages \cup {NoMessage}]
           /\ \A d \in Callers : pc'[d] = "idle" <=> req'[d] = NoMessage
           /\ retryCount' \in 0..MAX_RETRIES
           /\ pc'[Consumer] = "idle"
           /\ \A d \in Callers \ {Consumer} : pc'[d] = pc[d] /\ req'[d] = req[d]
BY DeliveryAssumption DEF TypeOK, Release, Phase, Phases, Callers

\* The invariant of a consumer that lets go of its delivery needs only that
\* the delivery's request is sent, dead-lettered or queued again.
LEMMA ReleasePreserves ==
    ASSUME DeliveryInv, Release(Consumer),
           UNCHANGED <<arrived, serviceVars, posted, historyVars>>,
           queue' \in [Copies -> Nat], failedQueue' \subseteq Messages,
           failedQueue \subseteq failedQueue',
           \A copy \in Copies : queue[copy] > 0 => queue'[copy] > 0,
           req[Consumer] \in Messages
               => \/ sends[req[Consumer]] > 0
                  \/ req[Consumer] \in failedQueue'
                  \/ \E n \in 0..MAX_RETRIES : queue'[<<req[Consumer], n>>] > 0
    PROVE  DeliveryInv'
<1>1. TypeOK'
  BY ReleaseTyped, CircuitTyped DEF DeliveryInv, TypeOK, serviceVars, historyVars
<1>2. SentBeforeSettled' /\ BackoffHasRetry'
  BY ReleaseTyped
  DEF DeliveryInv, SentBeforeSettled, BackoffHasRetry, serviceVars, historyVars
<1>3. NeverLost'
  <2>1. arrived' = arrived /\ arrived \subseteq Messages /\ sends' = sends
    BY DEF DeliveryInv, TypeOK, historyVars
  <2>2. QED
    BY <2>1, CopyOf DEF DeliveryInv, NeverLost, Outstanding
<1>4. PostedIsTrue'
  BY DEF DeliveryInv, PostedIsTrue, historyVars
<1>5. QED
  BY <1>1, <1>2, <1>3, <1>4 DEF DeliveryInv

\* ack (rabbitmq.provider.ts:163).
LEMMA AckPreserves ==
    ASSUME DeliveryInv, Ack
    PROVE  DeliveryInv'
<1>1. Consumer \in Callers /\ sends[req[Consumer]] > 0
  BY DEF Ack, Callers, DeliveryInv, SentBeforeSettled
<1>2. QED
  BY <1>1, ReleasePreserves DEF Ack, brokerVars, DeliveryInv, TypeOK

\* handleFailedMessage (rabbitmq.provider.ts:197-240).
LEMMA HandleFailedPreserves ==
    ASSUME DeliveryInv, HandleFailed
    PROVE  DeliveryInv'
<1>1. CASE RetriesLeft /\ Phase(Consumer, "backoff") /\ UNCHANGED <<brokerVars, req, retryCount>>
  <2> USE <1>1 DEF HandleFailed, DeliveryInv, Phase
  <2>1. Consumer \in Callers
    BY DEF Callers
  <2>2. TypeOK'
    BY <2>1, CircuitTyped
    DEF TypeOK, Phases, brokerVars, serviceVars, historyVars
  <2>3. SentBeforeSettled' /\ BackoffHasRetry'
    BY <2>1 DEF SentBeforeSettled, BackoffHasRetry, RetriesLeft, TypeOK,
       serviceVars, historyVars
  <2>4. NeverLost' /\ PostedIsTrue'
    BY DEF NeverLost, PostedIsTrue, Outstanding, brokerVars, historyVars
  <2>5. QED
    BY <2>2, <2>3, <2>4
<1>2. CASE DeadLetter(req[Consumer]) /\ Release(Consumer) /\ UNCHANGED <<arrived, queue>>
  <2>1. Consumer \in Callers /\ req[Consumer] \in Messages
    BY DEF HandleFailed, Callers, DeliveryInv, TypeOK
  <2>2. QED
    BY <1>2, <2>1, ReleasePreserves DEF HandleFailed, DeadLetter, DeliveryInv, TypeOK
<1>3. QED
  BY <1>1, <1>2 DEF HandleFailed

\* The retry timer (rabbitmq.provider.ts:211-227).
LEMMA RetryTimerPreserves ==
    ASSUME DeliveryInv, RetryTimer
    PROVE  DeliveryInv'
<1>1. /\ req[Consumer] \in Messages
      /\ retryCount + 1 \in 0..MAX_RETRIES
      /\ queue \in [Copies -> Nat]
  BY DeliveryAssumption DEF RetryTimer, Callers, DeliveryInv, TypeOK, BackoffHasRetry
<1>2. NextCopy \in Copies
  BY <1>1, CopyOf DEF NextCopy
<1>3. queue' = [queue EXCEPT ![NextCopy] = @ + 1]
  BY DEF RetryTimer, Enqueue
<1>4. /\ queue' \in [Copies -> Nat]
      /\ \A copy \in Copies : queue[copy] > 0 => queue'[copy] > 0
      /\ queue'[NextCopy] > 0
  BY <1>1, <1>2, <1>3, QueueGrows
<1>5. \E n \in 0..MAX_RETRIES : queue'[<<req[Consumer], n>>] > 0
  BY <1>1, <1>4 DEF NextCopy
<1>6. QED
  BY <1>4, <1>5, ReleasePreserves DEF RetryTimer, DeliveryInv, TypeOK

\* Time passes, and the idempotency entry's timer fires (push.service.ts:196-201).
LEMMA TimePreserves ==
    ASSUME DeliveryInv, Tick \/ \E m \in Messages : ForgetRequest(m)
    PROVE  DeliveryInv'
<1>1. CASE Tick
  BY <1>1, CircuitAssumption
  DEF Tick, DeliveryInv, TypeOK, CircuitTypeOK, LongAgo, brokerVars, callerVars,
      historyVars, SentBeforeSettled, BackoffHasRetry, NeverLost, PostedIsTrue,
      Outstanding
<1>2. ASSUME NEW m \in Messages, ForgetRequest(m) PROVE DeliveryInv'
  <2>1. TypeOK'
    BY <1>2, CircuitTyped, DeliveryAssumption
    DEF ForgetRequest, DeliveryInv, TypeOK, brokerVars, callerVars
  <2>2. QED
    BY <1>2, <2>1
    DEF ForgetRequest, DeliveryInv, brokerVars, callerVars, SentBeforeSettled,
        BackoffHasRetry, NeverLost, PostedIsTrue, Outstanding
<1>3. QED
  BY <1>1, <1>2

\* x-message-ttl (rabbitmq.provider.ts:52-56).
LEMMA QueueTtlPreserves ==
    ASSUME DeliveryInv, NEW m \in Messages, NEW n \in 0..MAX_RETRIES, QueueTtl(m, n)
    PROVE  DeliveryInv'
<1>1. <<m, n>> \in Copies /\ failedQueue' = failedQueue \cup {m}
  BY CopyOf DEF QueueTtl, DeadLetter
<1>2. TypeOK'
  <2>1. queue' \in [Copies -> Nat]
    BY <1>1, QueueTyped DEF QueueTtl, DeliveryInv, TypeOK
  <2>2. QED
    BY <1>1, <2>1, CircuitTyped
    DEF QueueTtl, DeliveryInv, TypeOK, callerVars, serviceVars, historyVars
<1>3. NeverLost'
  <2> SUFFICES ASSUME NEW k \in Messages, k # m
               PROVE  Outstanding(k) => Outstanding(k)'
    BY <1>1 DEF NeverLost, DeliveryInv, TypeOK, QueueTtl, historyVars
  <2>1. \A i \in 0..MAX_RETRIES : queue'[<<k, i>>] = queue[<<k, i>>]
    BY <1>1, CopyOf DEF QueueTtl, DeliveryInv, TypeOK
  <2>2. QED
    BY <2>1 DEF Outstanding, QueueTtl, callerVars
<1>4. SentBeforeSettled' /\ BackoffHasRetry' /\ PostedIsTrue'
  BY DEF QueueTtl, DeliveryInv, SentBeforeSettled, BackoffHasRetry, PostedIsTrue,
     callerVars, serviceVars, historyVars
<1>5. QED
  BY <1>2, <1>3, <1>4 DEF DeliveryInv

\* The loss of the process: the broker requeues what the consumer held.
LEMMA RestartPreserves ==
    ASSUME DeliveryInv, Restart
    PROVE  DeliveryInv'
<1> DEFINE Kept == \A copy \in Copies : queue[copy] > 0 => queue'[copy] > 0
<1>1. /\ Consumer \in Callers
      /\ pc[Consumer] # "idle" => req[Consumer] \in Messages /\ Held \in Copies
      /\ pc[Consumer] = "backoff" => NextCopy \in Copies
      /\ queue \in [Copies -> Nat]
  <2>1. pc[Consumer] # "idle" => req[Consumer] \in Messages /\ retryCount \in 0..MAX_RETRIES
    BY DEF DeliveryInv, TypeOK, Callers
  <2>2. pc[Consumer] = "backoff" => retryCount + 1 \in 0..MAX_RETRIES
    BY DeliveryAssumption DEF DeliveryInv, TypeOK, BackoffHasRetry
  <2>3. QED
    BY <2>1, <2>2, CopyOf DEF Held, NextCopy, Callers, DeliveryInv, TypeOK
<1>2. /\ queue' \in [Copies -> Nat] /\ Kept
      /\ pc[Consumer] # "idle" => queue'[Held] > 0
  <2>1. CASE queue' = Requeue(queue)
    BY <1>1, <2>1, QueueGrows DEF Requeue
  <2>2. CASE /\ pc[Consumer] = "backoff"
             /\ queue' = Requeue([queue EXCEPT ![NextCopy] = @ + 1])
    <3> DEFINE q == [queue EXCEPT ![NextCopy] = @ + 1]
    <3>1. NextCopy \in Copies /\ Held \in Copies
      BY <1>1, <2>2
    <3>2. q \in [Copies -> Nat] /\ \A copy \in Copies : queue[copy] > 0 => q[copy] > 0
      BY <1>1, <3>1, QueueGrows
    <3>3. queue' = [q EXCEPT ![Held] = @ + 1]
      BY <2>2 DEF Requeue
    <3> HIDE DEF q
    <3>4. /\ queue' \in [Copies -> Nat]
          /\ queue'[Held] > 0
          /\ \A copy \in Copies : q[copy] > 0 => queue'[copy] > 0
      BY <3>1, <3>2, <3>3, QueueGrows
    <3>5. QED
      BY <3>2, <3>4
  <2>3. QED
    BY <2>1, <2>2 DEF Restart
<1>3. TypeOK'
  BY <1>2, CircuitTyped, DeliveryAssumption
  DEF Restart, DeliveryInv, TypeOK, Phases
<1>4. SentBeforeSettled' /\ BackoffHasRetry' /\ PostedIsTrue'
  BY <1>1 DEF Restart, DeliveryInv, SentBeforeSettled, BackoffHasRetry, PostedIsTrue
<1>5. NeverLost'
  <2> SUFFICES ASSUME NEW m \in Messages
               PROVE  Outstanding(m) => Outstanding(m)'
    BY DEF NeverLost, DeliveryInv, TypeOK, Restart
  <2>1. ASSUME NEW n \in 0..MAX_RETRIES, queue[<<m, n>>] > 0 PROVE Outstanding(m)'
    BY <1>2, <2>1, CopyOf DEF Outstanding
  <2>2. ASSUME req[Consumer] = m PROVE Outstanding(m)'
    <3>1. pc[Consumer] # "idle" /\ retryCount \in 0..MAX_RETRIES
      BY <1>1, <2>2, DeliveryAssumption DEF DeliveryInv, TypeOK
    <3>2. QED
      BY <1>2, <2>2, <3>1 DEF Held, Outstanding
  <2>3. QED
    BY <2>1, <2>2 DEF Outstanding
<1>6. QED
  BY <1>3, <1>4, <1>5 DEF DeliveryInv

-----------------------------------------------------------------------------
\* Every step of push-service keeps the invariant.
LEMMA StepPreserves == DeliveryInv /\ [Next]_vars => DeliveryInv'
<1> SUFFICES ASSUME DeliveryInv, [Next]_vars PROVE DeliveryInv'
  OBVIOUS
<1>1. ASSUME ConsumerStep PROVE DeliveryInv'
  <2>1. Consumer \in Callers
    BY DEF Callers
  <2>2. QED
    BY <1>1, <2>1, DeliverPreserves, SucceedPreserves, FailPreserves,
       ReportPreserves, AckPreserves, HandleFailedPreserves, RetryTimerPreserves
    DEF ConsumerStep, ConsumerWork
<1>2. ASSUME NEW c \in HttpCallers, Succeed(c) \/ Fail(c) PROVE DeliveryInv'
  BY <1>2, SucceedPreserves, FailPreserves DEF Callers
<1>3. CASE UNCHANGED vars
  <2>1. TypeOK'
    BY <1>3, CircuitTyped DEF DeliveryInv, TypeOK, vars, brokerVars, callerVars,
       serviceVars, historyVars
  <2>2. QED
    BY <1>3, <2>1
    DEF DeliveryInv, vars, brokerVars, callerVars, serviceVars, historyVars,
        SentBeforeSettled, BackoffHasRetry, NeverLost, PostedIsTrue, Outstanding
<1>4. QED
  BY <1>1, <1>2, <1>3, ArrivePreserves, HttpRequestPreserves,
     FirebaseAcceptsPreserves, TimePreserves, QueueTtlPreserves, RestartPreserves
  DEF Next, CallStep, Elapse

\* DeliveryInv holds in every reachable state of push-service.
THEOREM DeliveryInvariant == Spec => []DeliveryInv
BY InitEstablishes, StepPreserves, PTL DEF Spec

\* Every variable of the delivery model keeps its type.
THEOREM TypeCorrect == Spec => []TypeOK
<1>1. DeliveryInv => TypeOK
  BY DEF DeliveryInv
<1>2. QED
  BY <1>1, DeliveryInvariant, PTL

\* No request disappears: it is queued or held, or was sent, or stands in
\* failed.queue.
THEOREM NothingLost == Spec => []NeverLost
<1>1. DeliveryInv => NeverLost
  BY DEF DeliveryInv
<1>2. QED
  BY <1>1, DeliveryInvariant, PTL

\* A request reported as delivered was sent to the device.
THEOREM ReportsAreTrue == Spec => []PostedIsTrue
<1>1. DeliveryInv => PostedIsTrue
  BY DEF DeliveryInv
<1>2. QED
  BY <1>1, DeliveryInvariant, PTL

-----------------------------------------------------------------------------
(* push-service implements Channel.  A step of the consumer that lets go of *)
(* its delivery, and the queue's TTL, may take a request out of Owed; a     *)
(* push of Firebase is a Send, a status post a Tell, all else stutters.     *)

\* Every copy in the queue, and the one the consumer holds, is of a request
\* that arrived.
OwedArrived == Owed \subseteq arrived

\* The arrival of a request is an Enqueue.
LEMMA ArriveRefines ==
    ASSUME DeliveryInv, NEW m \in Messages, Arrive(m)
    PROVE  Chan!Enqueue(m)
<1>1. /\ <<m, 0>> \in Copies
      /\ queue' = [queue EXCEPT ![<<m, 0>>] = @ + 1]
      /\ queue \in [Copies -> Nat]
  BY CopyOf, DeliveryAssumption DEF Arrive, Enqueue, DeliveryInv, TypeOK
<1>2. queue'[<<m, 0>>] > 0
  BY <1>1, QueueGrows
<1>3. \A k \in Messages, i \in 0..MAX_RETRIES :
         k # m => queue'[<<k, i>>] = queue[<<k, i>>]
  BY <1>1, CopyOf
<1>4. Outstanding(m)'
  BY <1>2, DeliveryAssumption DEF Outstanding
<1>5. \A k \in Messages : k # m => (Outstanding(k) <=> Outstanding(k)')
  BY <1>3 DEF Outstanding, Arrive, callerVars
<1>6. Owed' = Owed \cup {m}
  BY <1>4, <1>5 DEF Owed
<1>7. QED
  BY <1>6 DEF Arrive, Chan!Enqueue, historyVars, Pushed

\* Letting go of a request is a Settle, a GiveUp or a stutter of Channel,
\* whichever the invariant of the next state justifies.
LEMMA LeavingRefines ==
    ASSUME NEW m \in Messages, m \in Owed, OwedArrived, Owed' \in {Owed, Owed \ {m}},
           failedQueue' \in {failedQueue, failedQueue \cup {m}},
           UNCHANGED <<arrived, sends, posted>>, NeverLost'
    PROVE  [Chan!Next]_(Chan!channelVars)
<1>1. Pushed' = Pushed
  BY DEF Pushed
<1>2. m \notin Owed' => m \in Pushed \cup failedQueue'
  BY <1>1 DEF OwedArrived, NeverLost, Owed, Pushed
<1>3. CASE failedQueue' = failedQueue
  BY <1>1, <1>2, <1>3 DEF Chan!Next, Chan!Step, Chan!Settle, Chan!channelVars
<1>4. CASE failedQueue' = failedQueue \cup {m}
  BY <1>1, <1>4 DEF Chan!Next, Chan!Step, Chan!GiveUp
<1>5. QED
  BY <1>3, <1>4

\* A step that leaves alone who is owed, what was sent, what is dead and what
\* was posted is a stutter of Channel.
LEMMA QuietRefines ==
    ASSUME Owed' = Owed, UNCHANGED <<arrived, sends, failedQueue, posted>>
    PROVE  [Chan!Next]_(Chan!channelVars)
BY DEF Chan!channelVars, Pushed

\* Nothing changes for the consumer and the queue: nothing changes for Owed.
LEMMA SameOwed ==
    ASSUME UNCHANGED queue, req'[Consumer] = req[Consumer]
    PROVE  Owed' = Owed
BY DEF Owed, Outstanding

\* The delivered copy's request is owed before and after, and so is any other.
LEMMA DeliverRefines ==
    ASSUME DeliveryInv, NEW m \in Messages, NEW n \in 0..MAX_RETRIES, Deliver(m, n)
    PROVE  [Chan!Next]_(Chan!channelVars)
<1>1. <<m, n>> \in Copies /\ Consumer \in Callers
  BY CopyOf DEF Callers
<1>2. Outstanding(m) /\ Outstanding(m)'
  <2>1. req'[Consumer] = m
    BY <1>1 DEF Deliver, StartSend, DeliveryInv, TypeOK
  <2>2. QED
    BY <2>1 DEF Deliver, Outstanding
<1>3. ASSUME NEW k \in Messages, k # m PROVE Outstanding(k) <=> Outstanding(k)'
  <2>1. \A i \in 0..MAX_RETRIES : queue'[<<k, i>>] = queue[<<k, i>>]
    BY <1>1, <1>3, CopyOf DEF Deliver, DeliveryInv, TypeOK
  <2>2. req[Consumer] # k /\ req'[Consumer] # k
    BY <1>1, <1>3, DeliveryAssumption DEF Deliver, StartSend, DeliveryInv, TypeOK
  <2>3. QED
    BY <2>1, <2>2 DEF Outstanding
<1>4. Owed' = Owed
  BY <1>2, <1>3 DEF Owed
<1>5. QED
  BY <1>4, QuietRefines DEF Deliver

\* HTTP requests and the returns of sendPushNotification: the consumer keeps
\* its delivery.
LEMMA CallersRefine ==
    ASSUME DeliveryInv, NEW c \in Callers,
           \/ c \in HttpCallers /\ \E m \in Messages : HttpRequest(c, m)
           \/ Succeed(c) \/ Fail(c)
    PROVE  [Chan!Next]_(Chan!channelVars)
<1>1. req'[Consumer] = req[Consumer]
  <2>1. ASSUME c \in HttpCallers, NEW m \in Messages, HttpRequest(c, m)
        PROVE  req'[Consumer] = req[Consumer]
    BY <2>1, DeliveryAssumption DEF HttpRequest, StartSend, DeliveryInv, TypeOK, Callers
  <2>2. CASE Succeed(c) \/ Fail(c)
    <3>1. PICK outcome \in Phases \ {"idle"} : Return(c, outcome)
      BY <2>2 DEF Succeed, Fail, Phases
    <3>2. pc[c] # "idle"
      BY <2>2 DEF Succeed, Fail
    <3>3. QED
      BY <3>1, <3>2, ReturnTyped DEF DeliveryInv
  <2>3. QED
    BY <2>1, <2>2
<1>2. UNCHANGED <<arrived, queue, failedQueue, sends, posted>>
  BY DEF HttpRequest, Succeed, Fail, brokerVars, historyVars
<1>3. QED
  BY <1>1, <1>2, SameOwed, QuietRefines

\* Firebase's acceptance is a Send.
LEMMA FirebaseAcceptsRefines ==
    ASSUME DeliveryInv, NEW c \in Callers, FirebaseAccepts(c)
    PROVE  [Chan!Next]_(Chan!channelVars)
<1>1. req[c] \in Messages
  BY DEF FirebaseAccepts, DeliveryInv, TypeOK
<1>2. Owed' = Owed /\ UNCHANGED <<arrived, failedQueue, posted>>
  BY SameOwed DEF FirebaseAccepts, brokerVars
<1>3. Pushed' = Pushed \cup {req[c]}
  BY <1>1 DEF FirebaseAccepts, Pushed, DeliveryInv, TypeOK
<1>4. Chan!Send({req[c]})
  BY <1>2, <1>3 DEF Chan!Send
<1>5. QED
  BY <1>1, <1>4 DEF Chan!Next

\* A status post that arrives is a Tell, with "delivered" of what was pushed;
\* the channel does not notice a lost one.
LEMMA ReportTells ==
    ASSUME DeliveryInv, ReportDelivered \/ ReportFailed
    PROVE  /\ req[Consumer] \in Messages
           /\ ReportDelivered /\ PostArrives("delivered") => Chan!Tell(req[Consumer], "delivered")
           /\ ReportFailed /\ PostArrives("failed") => Chan!Tell(req[Consumer], "failed")
           /\ PostLost => UNCHANGED Chan!channelVars
<1>1. Consumer \in Callers /\ req[Consumer] \in Messages
  BY DEF ReportDelivered, ReportFailed, Report, Callers, DeliveryInv, TypeOK
<1>2. Owed' = Owed /\ Pushed' = Pushed /\ UNCHANGED <<arrived, failedQueue>>
  BY SameOwed DEF ReportDelivered, ReportFailed, Report, brokerVars, historyVars, Pushed
<1>3. ReportDelivered => req[Consumer] \in Pushed
  BY <1>1 DEF ReportDelivered, Report, DeliveryInv, SentBeforeSettled, Pushed
<1>4. QED
  BY <1>1, <1>2, <1>3 DEF PostArrives, PostLost, Chan!Tell, Chan!channelVars

LEMMA ReportRefines ==
    ASSUME DeliveryInv, ReportDelivered \/ ReportFailed
    PROVE  [Chan!Next]_(Chan!channelVars)
<1>1. \/ ReportDelivered /\ PostArrives("delivered")
      \/ ReportFailed /\ PostArrives("failed")
      \/ PostLost
  BY DEF ReportDelivered, ReportFailed, Report
<1>2. QED
  BY <1>1, ReportTells DEF Chan!Next, Chan!Step

\* A consumer that lets go of its delivery changes what is owed by at most
\* that delivery's request, if the queue keeps the other requests' copies.
LEMMA ReleaseRefines ==
    ASSUME DeliveryInv, DeliveryInv', OwedArrived, Release(Consumer), pc[Consumer] # "idle",
           \A k \in Messages, i \in 0..MAX_RETRIES :
               k # req[Consumer] => queue'[<<k, i>>] = queue[<<k, i>>],
           failedQueue' \in {failedQueue, failedQueue \cup {req[Consumer]}},
           UNCHANGED <<arrived, sends, posted>>
    PROVE  [Chan!Next]_(Chan!channelVars)
<1>1. Consumer \in Callers /\ req[Consumer] \in Messages
  BY DEF Callers, DeliveryInv, TypeOK
<1>2. req'[Consumer] \notin Messages
  BY <1>1, DeliveryAssumption DEF Release, DeliveryInv, TypeOK
<1>3. \A k \in Messages : k # req[Consumer] => (Outstanding(k) <=> Outstanding(k)')
  BY <1>2 DEF Outstanding
<1>4. req[Consumer] \in Owed
  BY <1>1 DEF Owed, Outstanding
<1>5. Owed' \in {Owed, Owed \ {req[Consumer]}}
  BY <1>3, <1>4 DEF Owed
<1>6. QED
  BY <1>1, <1>4, <1>5, LeavingRefines DEF DeliveryInv

\* ack, the two ends of handleFailedMessage, and the retry timer.
LEMMA OutcomeRefines ==
    ASSUME DeliveryInv, DeliveryInv', OwedArrived, Ack \/ HandleFailed \/ RetryTimer
    PROVE  [Chan!Next]_(Chan!channelVars)
<1>1. CASE Ack
  BY <1>1, ReleaseRefines DEF Ack, brokerVars, historyVars
<1>2. CASE HandleFailed
  <2>1. CASE RetriesLeft /\ UNCHANGED <<brokerVars, req, retryCount>>
    BY <1>2, <2>1, SameOwed, QuietRefines DEF HandleFailed, brokerVars, historyVars
  <2>2. CASE DeadLetter(req[Consumer]) /\ Release(Consumer) /\ UNCHANGED <<arrived, queue>>
    BY <1>2, <2>2, ReleaseRefines DEF HandleFailed, DeadLetter, historyVars
  <2>3. QED
    BY <1>2, <2>1, <2>2 DEF HandleFailed
<1>3. CASE RetryTimer
  <2>1. \A k \in Messages, i \in 0..MAX_RETRIES :
           k # req[Consumer] => queue'[<<k, i>>] = queue[<<k, i>>]
    BY <1>3, CopyOf DEF RetryTimer, Enqueue, NextCopy, DeliveryInv, TypeOK
  <2>2. QED
    BY <1>3, <2>1, ReleaseRefines DEF RetryTimer, historyVars
<1>4. QED
  BY <1>1, <1>2, <1>3

\* x-message-ttl gives a copy up.
LEMMA QueueTtlRefines ==
    ASSUME DeliveryInv, DeliveryInv', OwedArrived, NEW m \in Messages,
           NEW n \in 0..MAX_RETRIES, QueueTtl(m, n)
    PROVE  [Chan!Next]_(Chan!channelVars)
<1>1. <<m, n>> \in Copies
  BY CopyOf
<1>2. \A k \in Messages, i \in 0..MAX_RETRIES :
         k # m => queue'[<<k, i>>] = queue[<<k, i>>]
  BY <1>1, CopyOf DEF QueueTtl, DeliveryInv, TypeOK
<1>3. \A k \in Messages : k # m => (Outstanding(k) <=> Outstanding(k)')
  BY <1>2 DEF Outstanding, QueueTtl, callerVars
<1>4. m \in Owed
  BY DEF QueueTtl, Owed, Outstanding
<1>5. Owed' \in {Owed, Owed \ {m}}
  BY <1>3, <1>4 DEF Owed
<1>6. QED
  BY <1>4, <1>5, LeavingRefines DEF DeliveryInv, QueueTtl, DeadLetter, historyVars

\* A restart puts the held copy back: the same requests are owed.
LEMMA RestartRefines ==
    ASSUME DeliveryInv, DeliveryInv', Restart
    PROVE  [Chan!Next]_(Chan!channelVars)
<1>1. /\ Consumer \in Callers
      /\ pc[Consumer] # "idle" =>
            req[Consumer] \in Messages /\ retryCount \in 0..MAX_RETRIES /\ Held \in Copies
      /\ pc[Consumer] = "backoff" =>
            retryCount + 1 \in 0..MAX_RETRIES /\ NextCopy \in Copies
      /\ queue \in [Copies -> Nat]
  <2>1. pc[Consumer] # "idle" => req[Consumer] \in Messages /\ retryCount \in 0..MAX_RETRIES
    BY DEF DeliveryInv, TypeOK, Callers
  <2>2. pc[Consumer] = "backoff" => retryCount + 1 \in 0..MAX_RETRIES
    BY DeliveryAssumption DEF DeliveryInv, TypeOK, BackoffHasRetry
  <2>3. QED
    BY <2>1, <2>2, CopyOf DEF Held, NextCopy, Callers, DeliveryInv, TypeOK
<1>2. req'[Consumer] = NoMessage
  BY <1>1 DEF Restart
<1>3. CASE pc[Consumer] = "idle"
  <2>1. req[Consumer] = NoMessage /\ queue' = queue
    BY <1>1, <1>3 DEF Restart, Requeue, DeliveryInv, TypeOK
  <2>2. QED
    BY <1>2, <2>1, SameOwed, QuietRefines DEF Restart
<1>4. CASE pc[Consumer] # "idle"
  <2>0. PICK m \in Messages : m = req[Consumer]
    BY <1>1, <1>4
  <2>1. /\ queue'[Held] > 0
        /\ \A k \in Messages, i \in 0..MAX_RETRIES :
              k # m => queue'[<<k, i>>] = queue[<<k, i>>]
    <3>1. CASE queue' = [queue EXCEPT ![Held] = @ + 1]
      BY <1>1, <1>4, <2>0, <3>1, CopyOf DEF Held
    <3>2. CASE /\ pc[Consumer] = "backoff"
               /\ queue' = [[queue EXCEPT ![NextCopy] = @ + 1] EXCEPT ![Held] = @ + 1]
      <4> DEFINE q == [queue EXCEPT ![NextCopy] = @ + 1]
      <4>1. /\ q \in [Copies -> Nat]
            /\ \A k \in Messages, i \in 0..MAX_RETRIES : k # m => q[<<k, i>>] = queue[<<k, i>>]
        BY <1>1, <2>0, <3>2, CopyOf DEF NextCopy
      <4>2. queue' = [q EXCEPT ![Held] = @ + 1]
        BY <3>2
      <4> HIDE DEF q
      <4>3. QED
        BY <1>1, <1>4, <2>0, <4>1, <4>2, CopyOf DEF Held
    <3>3. QED
      BY <1>4, <3>1, <3>2 DEF Restart, Requeue
  <2>2. Outstanding(m) /\ Outstanding(m)'
    BY <1>1, <1>4, <2>0, <2>1 DEF Outstanding, Held
  <2>3. \A k \in Messages : k # m => (Outstanding(k) <=> Outstanding(k)')
    BY <1>2, <2>0, <2>1, DeliveryAssumption DEF Outstanding
  <2>4. Owed' = Owed
    BY <2>2, <2>3 DEF Owed
  <2>5. QED
    BY <2>4, QuietRefines DEF Restart
<1>5. QED
  BY <1>3, <1>4

\* Every step of push-service is a step or a stutter of Channel.
LEMMA StepRefines ==
    DeliveryInv /\ DeliveryInv' /\ OwedArrived /\ [Next]_vars
        => [Chan!Next]_(Chan!channelVars)
<1> SUFFICES ASSUME DeliveryInv, DeliveryInv', OwedArrived, [Next]_vars
             PROVE  [Chan!Next]_(Chan!channelVars)
  OBVIOUS
<1>1. CASE ConsumerStep
  <2>1. Consumer \in Callers
    BY DEF Callers
  <2>2. QED
    BY <1>1, <2>1, DeliverRefines, CallersRefine, ReportRefines, OutcomeRefines
    DEF ConsumerStep, ConsumerWork
<1>2. ASSUME NEW c \in HttpCallers,
             \/ \E m \in Messages : HttpRequest(c, m)
             \/ Succeed(c) \/ Fail(c)
      PROVE  [Chan!Next]_(Chan!channelVars)
  BY <1>2, CallersRefine DEF Callers
<1>3. CASE Tick \/ \E m \in Messages : ForgetRequest(m)
  BY <1>3, SameOwed, QuietRefines
  DEF Tick, ForgetRequest, brokerVars, callerVars, historyVars
<1>4. CASE UNCHANGED vars
  BY <1>4, SameOwed, QuietRefines DEF vars, brokerVars, callerVars, historyVars
<1>5. QED
  BY <1>1, <1>2, <1>3, <1>4, ArriveRefines, FirebaseAcceptsRefines, QueueTtlRefines,
     RestartRefines
  DEF Next, CallStep, Elapse, Chan!Next, Chan!Step

\* What Channel keeps, push-service keeps: a request is owed only after it
\* arrived.
LEMMA OwedStaysArrived ==
    OwedArrived /\ [Chan!Next]_(Chan!channelVars) => OwedArrived'
BY DEF OwedArrived, Chan!Next, Chan!Step, Chan!channelVars, Chan!Enqueue, Chan!Send,
   Chan!GiveUp, Chan!Settle, Chan!Tell

\* No request has arrived, and so none is owed.
LEMMA NothingOwedYet == Init => Owed = {}
<1> SUFFICES ASSUME Init, NEW m \in Messages PROVE ~Outstanding(m)
  BY DEF Owed
<1>1. ~\E n \in 0..MAX_RETRIES : queue[<<m, n>>] > 0
  <2>1. \A copy \in Copies : queue[copy] = 0
    BY DEF Init
  <2>2. ASSUME NEW n \in 0..MAX_RETRIES PROVE ~(queue[<<m, n>>] > 0)
    <3>1. <<m, n>> \in Copies
      BY CopyOf
    <3>2. queue[<<m, n>>] = 0
      BY <2>1, <3>1
    <3>3. QED
      BY <3>2
  <2>3. QED
    BY <2>2
<1>2. req[Consumer] # m
  BY DeliveryAssumption DEF Init, Callers
<1>3. QED
  BY <1>1, <1>2 DEF Outstanding

\* Every copy that is queued or held is of a request that arrived.
THEOREM CopiesArrived == Spec => []OwedArrived
<1>1. Init => OwedArrived
  BY NothingOwedYet DEF OwedArrived
<1>2. QED
  BY <1>1, StepRefines, OwedStaysArrived, DeliveryInvariant, PTL DEF Spec

\* push-service from push.queue to Firebase implements the channel that the
\* gateway relies on (rabbitmq.provider.ts:157-240, push.consumer.ts:48-92).
THEOREM PushServiceIsAChannel == Spec => ImplementsChannel
<1>1. Init => Chan!Init
  <2> SUFFICES ASSUME Init PROVE Chan!Init
    OBVIOUS
  <2>1. Pushed = {} /\ failedQueue = {} /\ posted = [m \in Messages |-> "none"]
    BY DEF Init, Pushed
  <2>2. Owed = {} /\ arrived = {}
    BY NothingOwedYet DEF Init
  <2>3. QED
    BY <2>1, <2>2 DEF Chan!Init
<1>2. QED
  BY <1>1, StepRefines, CopiesArrived, DeliveryInvariant, PTL DEF Spec, ImplementsChannel, Chan!Spec

-----------------------------------------------------------------------------
(* How many pushes a request may get.                                      *)

Calling(m) == {c \in Callers : pc[c] = "calling" /\ req[c] = m}
Accepted(m) == {c \in Callers : pc[c] = "accepted" /\ req[c] = m}
Everybody == Cardinality(Callers)

\* The pushes of a request that is not marked are paid for by earlier lapses
\* and lost answers, but for those whose sender has yet to mark it.  Once it
\* is marked, only who is already calling may add to them.
PushesPaid ==
    \A m \in Messages :
        /\ m \notin processedRequests =>
              sends[m] <= Everybody * lapses + lost + Cardinality(Accepted(m))
        /\ m \in processedRequests =>
              sends[m] + Cardinality(Calling(m)) <= Everybody * (lapses + 1) + lost

\* Sets of callers are finite, and disjoint ones share the callers.
LEMMA SomeCallers ==
    /\ Everybody \in Nat
    /\ \A S \in SUBSET Callers : IsFiniteSet(S) /\ Cardinality(S) \in 0..Everybody
    /\ \A S, T \in SUBSET Callers :
          S \cap T = {} => Cardinality(S) + Cardinality(T) <= Everybody
<1>1. IsFiniteSet(Callers)
  BY DeliveryAssumption, FS_AddElement DEF Callers
<1>2. Everybody \in Nat
  BY <1>1, FS_CardinalityType DEF Everybody
<1>3. \A S \in SUBSET Callers : IsFiniteSet(S) /\ Cardinality(S) \in 0..Everybody
  BY <1>1, <1>2, FS_Subset, FS_CardinalityType DEF Everybody
<1>4. ASSUME NEW S \in SUBSET Callers, NEW T \in SUBSET Callers, S \cap T = {}
      PROVE  Cardinality(S) + Cardinality(T) <= Everybody
  <2>1. Cardinality(S \cup T) = Cardinality(S) + Cardinality(T) - Cardinality(S \cap T)
    BY <1>3, FS_Union
  <2>2. Cardinality(S \cap T) = 0
    BY <1>4, FS_EmptySet
  <2>3. S \cup T \in SUBSET Callers
    OBVIOUS
  <2>4. QED
    BY <1>2, <1>3, <2>1, <2>2, <2>3
<1>5. QED
  BY <1>2, <1>3, <1>4

\* Cardinality when one element comes or goes.
LEMMA OneElement ==
    ASSUME NEW S, NEW c, IsFiniteSet(S), Cardinality(S) \in Nat
    PROVE  /\ c \notin S => Cardinality(S \cup {c}) = Cardinality(S) + 1
           /\ c \in S => Cardinality(S \ {c}) = Cardinality(S) - 1
           /\ c \notin S => Cardinality(S \ {c}) = Cardinality(S)
<1>1. c \notin S => Cardinality(S \cup {c}) = Cardinality(S) + 1
  BY FS_AddElement
<1>2. /\ c \in S => Cardinality(S \ {c}) = Cardinality(S) - 1
      /\ c \notin S => Cardinality(S \ {c}) = Cardinality(S)
  BY FS_RemoveElement
<1>3. QED
  BY <1>1, <1>2

\* One lapse more is worth one push of everybody.
LEMMA OneLapseMore ==
    \A n, l \in Nat : n * l \in Nat /\ n * (l + 1) \in Nat /\ n * (l + 1) = n * l + n
OBVIOUS

\* Numbers only: the account is kept when marks and lapses stay as they are,
\* no push is added, and of a marked request nobody starts a call.
LEMMA NothingAdded ==
    ASSUME DeliveryInv, DeliveryInv', PushesPaid,
           UNCHANGED <<sends, processedRequests, lapses>>, lost' >= lost,
           \A m \in Messages : m \notin processedRequests =>
               lost' + Cardinality(Accepted(m)') >= lost + Cardinality(Accepted(m)),
           \A m \in processedRequests : Cardinality(Calling(m)') <= Cardinality(Calling(m))
    PROVE  PushesPaid'
<1> SUFFICES ASSUME NEW m \in Messages
             PROVE /\ m \notin processedRequests =>
                         sends[m] <= Everybody * lapses + lost' + Cardinality(Accepted(m)')
                   /\ m \in processedRequests =>
                         sends[m] + Cardinality(Calling(m)')
                            <= Everybody * (lapses + 1) + lost'
  BY DEF PushesPaid, Everybody
<1>1. /\ Accepted(m) \in SUBSET Callers /\ Accepted(m)' \in SUBSET Callers
      /\ Calling(m) \in SUBSET Callers /\ Calling(m)' \in SUBSET Callers
  BY DEF Accepted, Calling
<1>2. /\ Cardinality(Accepted(m)) \in Nat /\ Cardinality(Accepted(m)') \in Nat
      /\ Cardinality(Calling(m)) \in Nat /\ Cardinality(Calling(m)') \in Nat
  BY <1>1, SomeCallers
<1>3. /\ sends[m] \in Nat /\ lost \in Nat /\ lost' \in Nat /\ lapses \in Nat
  BY DeliveryAssumption DEF DeliveryInv, TypeOK
<1>4. Everybody * lapses \in Nat /\ Everybody * (lapses + 1) \in Nat
  BY <1>3, SomeCallers, OneLapseMore
<1>5. QED
  BY <1>2, <1>3, <1>4 DEF PushesPaid

\* A step in which nobody begins or ends a call.
LEMMA NobodyCalls ==
    ASSUME DeliveryInv, DeliveryInv', PushesPaid,
           UNCHANGED <<sends, processedRequests, lapses, lost>>,
           \A c \in Callers : (pc'[c] = pc[c] /\ req'[c] = req[c])
                              \/ {pc[c], pc'[c]} \cap {"calling", "accepted"} = {}
    PROVE  PushesPaid'
<1>1. \A m \in Messages : Calling(m)' = Calling(m) /\ Accepted(m)' = Accepted(m)
  BY DEF Calling, Accepted
<1>2. lost \in Nat /\ processedRequests \subseteq Messages
  BY DeliveryAssumption DEF DeliveryInv, TypeOK
<1>3. \A m \in Messages : Cardinality(Calling(m)) \in Nat /\ Cardinality(Accepted(m)) \in Nat
  BY SomeCallers DEF Calling, Accepted
<1>4. QED
  BY <1>1, <1>2, <1>3, NothingAdded

\* A caller that begins a call asks for a request that is not marked.
LEMMA BeginningsPaid ==
    ASSUME DeliveryInv, DeliveryInv', PushesPaid, NEW c \in Callers, NEW m \in Messages,
           pc[c] = "idle", StartSend(c, m),
           UNCHANGED <<sends, processedRequests, lapses, lost>>
    PROVE  PushesPaid'
<1>1. ASSUME NEW k \in Messages
      PROVE  /\ Accepted(k)' = Accepted(k)
             /\ k \in processedRequests => Calling(k)' = Calling(k)
  BY DEF StartSend, Phase, Calling, Accepted, DeliveryInv, TypeOK
<1>2. lost \in Nat /\ processedRequests \subseteq Messages
  BY DeliveryAssumption DEF DeliveryInv, TypeOK
<1>3. \A k \in Messages : Cardinality(Calling(k)) \in Nat /\ Cardinality(Accepted(k)) \in Nat
  BY SomeCallers DEF Calling, Accepted
<1>4. QED
  BY <1>1, <1>2, <1>3, NothingAdded

\* The push that Firebase makes is its caller's.
LEMMA AcceptancePaid ==
    ASSUME DeliveryInv, DeliveryInv', PushesPaid, NEW c \in Callers, FirebaseAccepts(c)
    PROVE  PushesPaid'
<1> SUFFICES ASSUME NEW m \in Messages
             PROVE /\ m \notin processedRequests =>
                         sends'[m] <= Everybody * lapses + lost + Cardinality(Accepted(m)')
                   /\ m \in processedRequests =>
                         sends'[m] + Cardinality(Calling(m)')
                            <= Everybody * (lapses + 1) + lost
  BY DEF PushesPaid, Everybody, FirebaseAccepts, serviceVars
<1>1. /\ sends[m] \in Nat /\ lost \in Nat /\ lapses \in Nat
      /\ sends' = [sends EXCEPT ![req[c]] = @ + 1] /\ req' = req
      /\ pc' = [pc EXCEPT ![c] = "accepted"] /\ pc[c] = "calling"
  BY DeliveryAssumption DEF DeliveryInv, TypeOK, FirebaseAccepts, Phase
<1>2. /\ Accepted(m) \in SUBSET Callers /\ Calling(m) \in SUBSET Callers
      /\ IsFiniteSet(Accepted(m)) /\ IsFiniteSet(Calling(m))
      /\ Cardinality(Accepted(m)) \in Nat /\ Cardinality(Calling(m)) \in Nat
  BY SomeCallers DEF Accepted, Calling
<1>3. Everybody * lapses \in Nat /\ Everybody * (lapses + 1) \in Nat
  BY <1>1, SomeCallers, OneLapseMore
<1>4. CASE req[c] = m
  <2>1. /\ Accepted(m)' = Accepted(m) \cup {c} /\ c \notin Accepted(m)
        /\ Calling(m)' = Calling(m) \ {c} /\ c \in Calling(m)
    BY <1>1, <1>4 DEF Accepted, Calling, DeliveryInv, TypeOK
  <2>2. /\ Cardinality(Accepted(m)') = Cardinality(Accepted(m)) + 1
        /\ Cardinality(Calling(m)') = Cardinality(Calling(m)) - 1
    BY <1>2, <2>1, OneElement
  <2>3. sends'[m] = sends[m] + 1
    BY <1>1, <1>4 DEF DeliveryInv, TypeOK
  <2>4. QED
    BY <1>1, <1>2, <1>3, <2>2, <2>3 DEF PushesPaid
<1>5. CASE req[c] # m
  <2>1. Accepted(m)' = Accepted(m) /\ Calling(m)' = Calling(m) /\ sends'[m] = sends[m]
    BY <1>1, <1>5 DEF Accepted, Calling, DeliveryInv, TypeOK
  <2>2. QED
    BY <2>1 DEF PushesPaid
<1>6. QED
  BY <1>4, <1>5

\* How a caller leaves its call.
LEMMA ReturnLeaves ==
    ASSUME DeliveryInv, NEW c \in Callers, pc[c] \in {"calling", "accepted"},
           NEW outcome \in {"succeeded", "errored"}, Return(c, outcome)
    PROVE  \A m \in Messages : /\ Accepted(m)' = Accepted(m) \ {c}
                              /\ Calling(m)' = Calling(m) \ {c}
BY DEF Return, Release, Phase, Accepted, Calling, DeliveryInv, TypeOK

\* A success marks its request; who is still calling may push once more.
LEMMA SuccessPaid ==
    ASSUME DeliveryInv, DeliveryInv', PushesPaid, NEW c \in Callers, Succeed(c)
    PROVE  PushesPaid'
<1> SUFFICES ASSUME NEW m \in Messages
             PROVE /\ m \notin processedRequests' =>
                         sends[m] <= Everybody * lapses + lost + Cardinality(Accepted(m)')
                   /\ m \in processedRequests' =>
                         sends[m] + Cardinality(Calling(m)')
                            <= Everybody * (lapses + 1) + lost
  BY DEF PushesPaid, Everybody, Succeed, historyVars
<1>1. /\ sends[m] \in Nat /\ lost \in Nat /\ lapses \in Nat
      /\ pc[c] = "accepted" /\ processedRequests' = processedRequests \cup {req[c]}
  BY DeliveryAssumption DEF DeliveryInv, TypeOK, Succeed, MarkAsProcessed
<1>2. /\ Accepted(m)' = Accepted(m) \ {c} /\ Calling(m)' = Calling(m) \ {c}
  BY <1>1, ReturnLeaves DEF Succeed
<1>3. /\ c \notin Calling(m) /\ (c \in Accepted(m) => req[c] = m)
      /\ Accepted(m) \cap Calling(m) = {}
  BY <1>1 DEF Calling, Accepted
<1>4. /\ Cardinality(Accepted(m)) \in Nat /\ Cardinality(Calling(m)) \in Nat
      /\ Cardinality(Accepted(m)) + Cardinality(Calling(m)) <= Everybody
  BY <1>3, SomeCallers DEF Accepted, Calling
<1>5. /\ Everybody \in Nat /\ Everybody * lapses \in Nat
      /\ Everybody * (lapses + 1) = Everybody * lapses + Everybody
  BY <1>1, SomeCallers, OneLapseMore
<1>6. Calling(m)' = Calling(m) /\ (m \notin processedRequests' => Accepted(m)' = Accepted(m))
  BY <1>1, <1>2, <1>3
<1>7. QED
  BY <1>1, <1>4, <1>5, <1>6 DEF PushesPaid

\* A call that fails made no push, or it is one whose answer is lost.
LEMMA FailurePaid ==
    ASSUME DeliveryInv, DeliveryInv', PushesPaid, NEW c \in Callers, Fail(c)
    PROVE  PushesPaid'
<1>1. /\ pc[c] \in {"calling", "accepted"} /\ UNCHANGED <<sends, processedRequests, lapses>>
      /\ lost \in Nat /\ lost' \in {lost, lost + 1}
      /\ pc[c] = "accepted" => lost' = lost + 1
  BY DeliveryAssumption DEF Fail, Caught, DeliveryInv, TypeOK
<1>2. ASSUME NEW m \in Messages
      PROVE  /\ Cardinality(Calling(m)') <= Cardinality(Calling(m))
             /\ Cardinality(Accepted(m)') >= Cardinality(Accepted(m)) - 1
             /\ pc[c] = "calling" => Cardinality(Accepted(m)') = Cardinality(Accepted(m))
             /\ Cardinality(Accepted(m)) \in Nat
  <2>1. /\ Accepted(m)' = Accepted(m) \ {c} /\ Calling(m)' = Calling(m) \ {c}
        /\ pc[c] = "calling" => c \notin Accepted(m)
    BY <1>1, ReturnLeaves DEF Fail, Accepted
  <2>2. /\ IsFiniteSet(Accepted(m)) /\ Cardinality(Accepted(m)) \in Nat
        /\ IsFiniteSet(Calling(m)) /\ Cardinality(Calling(m)) \in Nat
    BY SomeCallers DEF Accepted, Calling
  <2>3. /\ c \in Calling(m) => Cardinality(Calling(m)') = Cardinality(Calling(m)) - 1
        /\ c \notin Calling(m) => Cardinality(Calling(m)') = Cardinality(Calling(m))
    BY <2>1, <2>2, OneElement, ZenonT(40)
  <2>4. /\ c \in Accepted(m) => Cardinality(Accepted(m)') = Cardinality(Accepted(m)) - 1
        /\ c \notin Accepted(m) => Cardinality(Accepted(m)') = Cardinality(Accepted(m))
    BY <2>1, <2>2, OneElement, ZenonT(40)
  <2>5. QED
    BY <2>1, <2>2, <2>3, <2>4
<1>3. \A m \in Messages :
         lost' + Cardinality(Accepted(m)') >= lost + Cardinality(Accepted(m))
  <2> SUFFICES ASSUME NEW m \in Messages
               PROVE  lost' + Cardinality(Accepted(m)') >= lost + Cardinality(Accepted(m))
    OBVIOUS
  <2>1. Cardinality(Accepted(m)') \in Nat
    BY SomeCallers DEF Accepted
  <2>2. QED
    BY <1>1, <1>2, <2>1
<1>4. processedRequests \subseteq Messages
  BY DEF DeliveryInv, TypeOK
<1>5. QED
  BY <1>1, <1>2, <1>3, <1>4, NothingAdded

\* A lapse pays for one push of everybody.
LEMMA LapsesPaid ==
    ASSUME DeliveryInv, DeliveryInv', PushesPaid,
           Restart \/ \E m \in Messages : ForgetRequest(m)
    PROVE  PushesPaid'
<1>1. /\ UNCHANGED <<sends, lost>> /\ lapses' = lapses + 1
      /\ processedRequests' \subseteq processedRequests
  BY DEF Restart, ForgetRequest
<1>2. \A m \in Messages : m \in processedRequests' => Calling(m)' = Calling(m)
  BY DEF Restart, ForgetRequest, callerVars, Calling
<1> SUFFICES ASSUME NEW m \in Messages
             PROVE /\ m \notin processedRequests' =>
                         sends[m] <= Everybody * (lapses + 1) + lost + Cardinality(Accepted(m)')
                   /\ m \in processedRequests' =>
                         sends[m] + Cardinality(Calling(m)')
                            <= Everybody * ((lapses + 1) + 1) + lost
  BY <1>1 DEF PushesPaid, Everybody
<1>3. /\ sends[m] \in Nat /\ lost \in Nat /\ lapses \in Nat
  BY DeliveryAssumption DEF DeliveryInv, TypeOK
<1>4. /\ Cardinality(Accepted(m)) \in 0..Everybody /\ Cardinality(Calling(m)) \in Nat
      /\ Cardinality(Accepted(m)') \in Nat
  BY SomeCallers DEF Accepted, Calling
<1>5. /\ Everybody \in Nat /\ Everybody * lapses \in Nat
      /\ Everybody * (lapses + 1) = Everybody * lapses + Everybody
      /\ Everybody * ((lapses + 1) + 1) = Everybody * (lapses + 1) + Everybody
  BY <1>3, SomeCallers, OneLapseMore
<1>6. sends[m] <= Everybody * (lapses + 1) + lost
  BY <1>3, <1>4, <1>5 DEF PushesPaid
<1>7. m \in processedRequests' =>
         sends[m] + Cardinality(Calling(m)') <= Everybody * (lapses + 1) + lost
  BY <1>1, <1>2 DEF PushesPaid
<1>8. Cardinality(Calling(m)') \in Nat
  BY SomeCallers DEF Calling
<1>9. QED
  BY <1>3, <1>4, <1>5, <1>6, <1>7, <1>8

\* Every step keeps the account of pushes.
LEMMA StepPaid ==
    DeliveryInv /\ DeliveryInv' /\ PushesPaid /\ [Next]_vars => PushesPaid'
<1> SUFFICES ASSUME DeliveryInv, DeliveryInv', PushesPaid, [Next]_vars PROVE PushesPaid'
  OBVIOUS
<1>0. Consumer \in Callers /\ HttpCallers \subseteq Callers
  BY DEF Callers
<1>1. ASSUME NEW m \in Messages, NEW n \in 0..MAX_RETRIES, Deliver(m, n) PROVE PushesPaid'
  BY <1>0, <1>1, BeginningsPaid DEF Deliver
<1>2. ASSUME NEW c \in HttpCallers, NEW m \in Messages, HttpRequest(c, m) PROVE PushesPaid'
  BY <1>0, <1>2, BeginningsPaid DEF HttpRequest
<1>3. ASSUME ReportDelivered \/ ReportFailed \/ Ack \/ HandleFailed \/ RetryTimer
      PROVE  PushesPaid'
  <2>1. UNCHANGED <<sends, processedRequests, lapses, lost>>
    BY <1>3 DEF ReportDelivered, ReportFailed, Report, Ack, HandleFailed, RetryTimer,
       serviceVars, historyVars
  <2>2. ASSUME NEW c \in Callers
        PROVE  \/ pc'[c] = pc[c] /\ req'[c] = req[c]
               \/ {pc[c], pc'[c]} \cap {"calling", "accepted"} = {}
    BY <1>0, <1>3 DEF ReportDelivered, ReportFailed, Report, Ack, HandleFailed, RetryTimer,
       Release, Phase, DeliveryInv, TypeOK
  <2>3. QED
    BY <2>1, <2>2, NobodyCalls
<1>4. ASSUME \/ \E m \in Messages : Arrive(m)
             \/ Tick \/ \E m \in Messages, n \in 0..MAX_RETRIES : QueueTtl(m, n)
             \/ UNCHANGED vars
      PROVE  PushesPaid'
  <2>1. UNCHANGED <<sends, processedRequests, lapses, lost, pc, req>>
    BY <1>4 DEF Arrive, Tick, QueueTtl, vars, callerVars, serviceVars, historyVars
  <2>2. QED
    BY <2>1, NobodyCalls
<1>5. ASSUME NEW c \in Callers, Succeed(c) \/ Fail(c) \/ FirebaseAccepts(c) PROVE PushesPaid'
  BY <1>5, SuccessPaid, FailurePaid, AcceptancePaid
<1>6. QED
  BY <1>0, <1>1, <1>2, <1>3, <1>4, <1>5, LapsesPaid
  DEF Next, ConsumerStep, ConsumerWork, CallStep, Elapse

\* However many callers race for a request, its pushes are bounded by callers,
\* lapses of the idempotency map and lost answers (push.service.ts:24-57).
THEOREM DuplicatesHaveACause == Spec => []DuplicatesAccounted
<1>1. Init => PushesPaid
  <2> SUFFICES ASSUME Init, NEW m \in Messages
               PROVE  sends[m] <= Everybody * lapses + lost + Cardinality(Accepted(m))
    BY DEF Init, PushesPaid
  <2>1. Accepted(m) = {} /\ sends[m] = 0 /\ lapses = 0 /\ lost = 0
    BY DEF Init, Accepted
  <2>2. Everybody * 0 \in Nat
    BY SomeCallers, OneLapseMore
  <2>3. QED
    BY <2>1, <2>2, FS_EmptySet
<1>2. DeliveryInv /\ PushesPaid => DuplicatesAccounted
  <2> SUFFICES ASSUME DeliveryInv, PushesPaid, NEW m \in Messages
               PROVE  sends[m] <= Everybody * (lapses + 1) + lost
    BY DEF DuplicatesAccounted, Everybody
  <2>1. /\ sends[m] \in Nat /\ lost \in Nat /\ lapses \in Nat
    BY DeliveryAssumption DEF DeliveryInv, TypeOK
  <2>2. /\ Cardinality(Accepted(m)) \in 0..Everybody /\ Cardinality(Calling(m)) \in Nat
    BY SomeCallers DEF Accepted, Calling
  <2>3. /\ Everybody \in Nat /\ Everybody * lapses \in Nat
        /\ Everybody * (lapses + 1) = Everybody * lapses + Everybody
    BY <2>1, SomeCallers, OneLapseMore
  <2>4. QED
    BY <2>1, <2>2, <2>3 DEF PushesPaid
<1>3. QED
  BY <1>1, <1>2, StepPaid, DeliveryInvariant, PTL DEF Spec

-----------------------------------------------------------------------------
(***************************************************************************)
(* The breaker behind the queue.  PushBreaker shows what one process does  *)
(* with concurrent calls; here callers of both kinds, retries and restarts *)
(* share it, and it stays as consistent.                                   *)
(***************************************************************************)

\* Count and state agree, and half-open progress belongs to this period.
BreakerAgrees ==
    /\ state = "CLOSED" <=> failures < FAILURE_THRESHOLD
    /\ halfOpenCalls < HALF_OPEN_MAX_CALLS
    /\ halfOpenCalls > 0 => state = "HALF_OPEN"

\* Whatever push-service does, its breaker makes one of its own moves, waits,
\* or starts anew.
LEMMA BreakerMoves ==
    ASSUME [Next]_vars
    PROVE  \/ UNCHANGED <<state, failures, halfOpenCalls>>
           \/ GetCircuitState \/ OnSuccess \/ OnFailure \/ Close
<1>1. CASE \E m \in Messages : Arrive(m)
  BY <1>1 DEF Arrive, serviceVars, breakerVars
<1>2. CASE ConsumerStep
  BY <1>2 DEF ConsumerStep, ConsumerWork, Deliver, StartSend, Succeed, Fail, Caught, Ack,
     HandleFailed, RetryTimer, ReportDelivered, ReportFailed, Report, serviceVars, breakerVars
<1>3. CASE \E c \in HttpCallers, m \in Messages : HttpRequest(c, m)
  BY <1>3 DEF HttpRequest, StartSend, breakerVars
<1>4. CASE CallStep
  BY <1>4 DEF CallStep, Succeed, Fail, Caught, FirebaseAccepts, serviceVars, breakerVars
<1>5. CASE Elapse
  BY <1>5 DEF Elapse, Tick, QueueTtl, ForgetRequest, Restart, serviceVars, breakerVars
<1>6. CASE UNCHANGED vars
  BY <1>6 DEF vars, serviceVars, breakerVars
<1>7. QED
  BY <1>1, <1>2, <1>3, <1>4, <1>5, <1>6 DEF Next

\* A move of the breaker keeps it consistent.
LEMMA MoveKeepsAgreement ==
    ASSUME CircuitTypeOK, BreakerAgrees,
           \/ UNCHANGED <<state, failures, halfOpenCalls>>
           \/ GetCircuitState \/ OnSuccess \/ OnFailure \/ Close
    PROVE  BreakerAgrees'
<1> USE CircuitAssumption DEF BreakerAgrees, CircuitTypeOK, States
<1>1. CASE UNCHANGED <<state, failures, halfOpenCalls>>
  BY <1>1
<1>2. CASE GetCircuitState
  BY <1>2 DEF GetCircuitState, CircuitState
<1>3. CASE OnSuccess
  BY <1>3 DEF OnSuccess, LastTestCall, Close, ForgetFailures, breakerVars
<1>4. CASE OnFailure
  BY <1>4 DEF OnFailure, StampFailure, Reopen, AtMost
<1>5. CASE Close
  BY <1>5 DEF Close
<1>6. QED
  BY <1>1, <1>2, <1>3, <1>4, <1>5

\* The breaker of the running service lets calls flow freely exactly while
\* fewer than FAILURE_THRESHOLD failures are on its books, and never carries
\* half-open progress into another period, through retries, concurrent HTTP
\* callers and restarts (push.service.ts:203-246).
THEOREM BreakerStaysConsistent == Spec => []BreakerAgrees
<1>1. Init => BreakerAgrees
  BY CircuitAssumption DEF Init, CircuitInit, BreakerAgrees
<1>2. TypeOK /\ BreakerAgrees /\ [Next]_vars => BreakerAgrees'
  BY BreakerMoves, MoveKeepsAgreement DEF TypeOK
<1>3. QED
  BY <1>1, <1>2, TypeCorrect, PTL DEF Spec

-----------------------------------------------------------------------------
(* PushFlow: what NotificationFlow shows of any channel service holds of    *)
(* api-gateway in front of push-service.                                   *)

\* Whoever works on a request works on one that the gateway published, and
\* nothing else was pushed.
WorkArrived ==
    /\ \A c \in Callers : req[c] \in arrived \cup {NoMessage}
    /\ Pushed \subseteq arrived

\* For push-service the gateway is one who publishes.
LEMMA FlowStepIsPushStep == [PushFlowNext]_pushFlowVars => [Next]_vars
BY DEF PushFlowNext, pushFlowVars, PublishStep, ReportStep, GatewayStep, PushStep, Next,
   ConsumerStep

\* push-service keeps its specification behind the gateway.
THEOREM FlowContainsPushService == PushFlowSpec => Spec
<1>1. PushFlowInit => Init
  BY DEF PushFlowInit
<1>2. QED
  BY <1>1, FlowStepIsPushStep, PTL DEF PushFlowSpec, Spec

\* The consumer, the HTTP callers and time leave what they work on arrived.
LEMMA WorkStaysArrived ==
    ASSUME DeliveryInv, OwedArrived, WorkArrived, PushStep
    PROVE  WorkArrived'
<1> USE DEF WorkArrived
<1>1. ASSUME NEW m \in Messages, NEW n \in 0..MAX_RETRIES, Deliver(m, n)
      PROVE  WorkArrived'
  <2>1. m \in arrived
    BY <1>1 DEF Deliver, OwedArrived, Owed, Outstanding
  <2>2. QED
    BY <1>1, <2>1 DEF Deliver, StartSend, DeliveryInv, TypeOK, Pushed
<1>2. ASSUME NEW c \in HttpCallers, NEW m \in Messages, m \in arrived, HttpRequest(c, m)
      PROVE  WorkArrived'
  BY <1>2 DEF HttpRequest, StartSend, DeliveryInv, TypeOK, Pushed, brokerVars
<1>3. ASSUME NEW c \in Callers, Succeed(c) \/ Fail(c) PROVE WorkArrived'
  BY <1>3 DEF Succeed, Fail, Return, Release, DeliveryInv, TypeOK, Pushed, brokerVars,
     historyVars
<1>4. ASSUME NEW c \in Callers, FirebaseAccepts(c) PROVE WorkArrived'
  <2>1. req[c] \in arrived
    BY <1>4, DeliveryAssumption DEF FirebaseAccepts, DeliveryInv, TypeOK
  <2>2. Pushed' = Pushed \cup {req[c]}
    BY <1>4, <2>1 DEF FirebaseAccepts, Pushed, DeliveryInv, TypeOK
  <2>3. QED
    BY <1>4, <2>1, <2>2 DEF FirebaseAccepts, brokerVars
<1>5. CASE Ack \/ HandleFailed \/ RetryTimer \/ Restart
  BY <1>5 DEF Ack, HandleFailed, RetryTimer, Restart, Release, DeliveryInv, TypeOK,
     brokerVars, historyVars, Pushed
<1>6. CASE \/ Tick \/ \E m \in Messages, n \in 0..MAX_RETRIES : QueueTtl(m, n)
           \/ \E m \in Messages : ForgetRequest(m)
  BY <1>6 DEF Tick, QueueTtl, ForgetRequest, brokerVars, callerVars, historyVars, Pushed
<1>7. QED
  BY <1>1, <1>2, <1>3, <1>4, <1>5, <1>6
  DEF PushStep, ConsumerWork, CallStep, Elapse, Callers

\* So does every step of the flow.
LEMMA WorkArrivedKept ==
    ASSUME DeliveryInv, OwedArrived, WorkArrived, [PushFlowNext]_pushFlowVars
    PROVE  WorkArrived'
<1>1. ASSUME NEW m \in Messages, PublishStep(m) PROVE WorkArrived'
  BY <1>1 DEF PublishStep, Arrive, vars, brokerVars, callerVars, historyVars, WorkArrived,
     Pushed
<1>2. CASE ReportStep
  BY <1>2 DEF ReportStep, ReportDelivered, ReportFailed, Report, brokerVars, historyVars,
     WorkArrived, Pushed
<1>3. CASE GatewayStep \/ UNCHANGED pushFlowVars
  BY <1>3 DEF GatewayStep, pushFlowVars, vars, brokerVars, callerVars, historyVars,
     WorkArrived, Pushed
<1>4. QED
  BY <1>1, <1>2, <1>3, WorkStaysArrived DEF PushFlowNext

\* Everything that is known of push-service in the flow.
FlowWorkInv == DeliveryInv /\ OwedArrived /\ WorkArrived

\* FlowWorkInv holds in every reachable state of the flow.
THEOREM FlowWorkInvariant == PushFlowSpec => []FlowWorkInv
<1>1. PushFlowInit => WorkArrived
  BY DEF PushFlowInit, Init, WorkArrived, Pushed
<1>2. PushFlowSpec => [](DeliveryInv /\ OwedArrived)
  BY FlowContainsPushService, DeliveryInvariant, CopiesArrived, PTL
<1>3. QED
  BY <1>1, <1>2, WorkArrivedKept, PTL DEF PushFlowSpec, FlowWorkInv

\* What the flow calls its channel is the Channel that push-service is shown
\* to be.
LEMMA SameChannel ==
    ASSUME TypeOK, TypeOK'
    PROVE  /\ \A m : Chan!Enqueue(m) <=> Flow!Chan!Enqueue(m)
           /\ \A m, s : Chan!Tell(m, s) <=> Flow!Chan!Tell(m, s)
           /\ [Chan!Next]_(Chan!channelVars) => [Flow!Chan!Next]_(Flow!Chan!channelVars)
<1>1. arrived \cap Messages = arrived /\ (arrived \cap Messages)' = arrived'
  BY DEF TypeOK
<1>2. /\ \A m : Chan!Enqueue(m) <=> Flow!Chan!Enqueue(m)
      /\ \A m : Chan!GiveUp(m) <=> Flow!Chan!GiveUp(m)
      /\ \A m : Chan!Settle(m) <=> Flow!Chan!Settle(m)
      /\ \A ms : Chan!Send(ms) <=> Flow!Chan!Send(ms)
      /\ \A m, s : Chan!Tell(m, s) <=> Flow!Chan!Tell(m, s)
      /\ UNCHANGED Chan!channelVars => UNCHANGED Flow!Chan!channelVars
  BY <1>1 DEF Chan!Enqueue, Chan!GiveUp, Chan!Settle, Chan!Send, Chan!Tell,
     Chan!channelVars, Flow!Chan!Enqueue, Flow!Chan!GiveUp, Flow!Chan!Settle,
     Flow!Chan!Send, Flow!Chan!Tell, Flow!Chan!channelVars
<1>3. QED
  BY <1>2 DEF Chan!Next, Chan!Step, Flow!Chan!Next, Flow!Chan!Step

\* Publication: the message reaches the queue or nothing does.
LEMMA PublishRefines ==
    ASSUME FlowWorkInv, FlowWorkInv', NEW m \in Messages, PublishStep(m)
    PROVE  Flow!PublishStep(m)
<1>1. TypeOK /\ TypeOK'
  BY DEF FlowWorkInv, DeliveryInv
<1>2. CASE m \in arrived'
  <2>1. Flow!Chan!Enqueue(m)
    BY <1>1, <1>2, ArriveRefines, SameChannel DEF PublishStep, FlowWorkInv
  <2>2. QED
    BY <1>2, <2>1 DEF PublishStep, Flow!PublishStep
<1>3. CASE m \notin arrived'
  <2>1. UNCHANGED vars
    BY <1>3 DEF PublishStep
  <2>2. UNCHANGED <<Owed, Pushed, failedQueue, posted>>
    BY <2>1, SameOwed DEF vars, brokerVars, callerVars, historyVars, Pushed
  <2>3. QED
    BY <1>3, <2>2 DEF PublishStep, Flow!PublishStep, Flow!channelVars
<1>4. QED
  BY <1>2, <1>3

\* A report, as the gateway sees it, if it does.
LEMMA ReportIsStatusStep ==
    ASSUME FlowWorkInv, FlowWorkInv', ReportStep
    PROVE  \/ \E m \in Messages, s \in Flow!Terminal : Flow!StatusStep(m, s)
           \/ UNCHANGED Flow!flowVars
<1>1. DeliveryInv /\ TypeOK /\ TypeOK'
  BY DEF FlowWorkInv, DeliveryInv
<1>2. ReportDelivered \/ ReportFailed
  BY DEF ReportStep
<1>3. req[Consumer] \in Messages
  BY <1>1, <1>2, ReportTells
<1>4. ASSUME NEW s \in Flow!Terminal, Flow!PostChannelStatus(req[Consumer], s),
             Chan!Tell(req[Consumer], s)
      PROVE  Flow!StatusStep(req[Consumer], s)
  BY <1>1, <1>3, <1>4, SameChannel DEF Flow!StatusStep
<1>5. CASE ReportDelivered /\ PostArrives("delivered")
           /\ Flow!PostChannelStatus(req[Consumer], "delivered")
  BY <1>1, <1>3, <1>4, <1>5, ReportTells DEF Flow!Terminal
<1>6. CASE ReportFailed /\ PostArrives("failed")
           /\ Flow!PostChannelStatus(req[Consumer], "failed")
  BY <1>1, <1>3, <1>4, <1>6, ReportTells DEF Flow!Terminal
<1>7. CASE PostLost /\ UNCHANGED gatewayVars
  <2>1. UNCHANGED Chan!channelVars
    BY <1>1, <1>2, <1>7, ReportTells
  <2>2. QED
    BY <1>7, <2>1 DEF Chan!channelVars, gatewayVars, Flow!flowVars, Flow!channelVars,
       Flow!vars, Flow!redisVars, Flow!serviceVars, Flow!executionVars, Flow!historyVars
<1>8. QED
  BY <1>5, <1>6, <1>7 DEF ReportStep, Heard

\* Whatever push-service does by itself is a step of the channel, or a stutter.
LEMMA PushStepRefines ==
    ASSUME GatewayConstants, FlowWorkInv, FlowWorkInv', PushStep
    PROVE  [Flow!FlowNext]_(Flow!flowVars)
<1>1. DeliveryInv /\ DeliveryInv' /\ OwedArrived /\ TypeOK /\ TypeOK'
  BY DEF FlowWorkInv, DeliveryInv
<1>2. UNCHANGED <<arrived, posted>>
  BY DEF PushStep, ConsumerWork, CallStep, Elapse, Deliver, Succeed, Fail, Ack, HandleFailed,
     RetryTimer, FirebaseAccepts, Tick, QueueTtl, ForgetRequest, Restart, HttpRequest,
     brokerVars
<1>3. [Next]_vars
  BY DEF PushStep, Next, ConsumerStep
<1>4. Pushed' \subseteq arrived
  BY <1>2 DEF FlowWorkInv, WorkArrived
<1>5. UNCHANGED Flow!vars
  BY <1>2 DEF PushStep, gatewayVars, Flow!vars, Flow!redisVars, Flow!serviceVars,
     Flow!executionVars, Flow!historyVars
<1>6. [Chan!Next]_(Chan!channelVars)
  BY <1>1, <1>3, StepRefines
<1>7. [Flow!Chan!Next]_(Flow!Chan!channelVars)
  BY <1>1, <1>6, SameChannel
<1>8. Owed \subseteq arrived \cap Messages /\ Pushed' \subseteq arrived \cap Messages
  BY <1>1, <1>4 DEF OwedArrived, TypeOK
<1>9. QED
  BY <1>2, <1>5, <1>7, <1>8, Flow!ServiceStepsAllowed DEF GatewayConstants

\* api-gateway in front of push-service is NotificationFlow.
THEOREM PushFlowIsNotificationFlow ==
    ASSUME GatewayConstants
    PROVE  PushFlowSpec => Flow!FlowSafety
<1>1. PushFlowInit => Flow!FlowInit
  <2> SUFFICES ASSUME PushFlowInit PROVE Flow!FlowInit
    OBVIOUS
  <2>1. Owed = {} /\ Pushed = {} /\ arrived = {}
    BY NothingOwedYet DEF PushFlowInit, Init, Pushed
  <2>2. Flow!Chan!Init
    BY <2>1 DEF PushFlowInit, Init, Flow!Chan!Init
  <2>3. QED
    BY <2>2 DEF PushFlowInit, Flow!FlowInit
<1>2. FlowWorkInv /\ FlowWorkInv' /\ [PushFlowNext]_pushFlowVars
        => [Flow!FlowNext]_(Flow!flowVars)
  <2> SUFFICES ASSUME FlowWorkInv, FlowWorkInv', [PushFlowNext]_pushFlowVars
               PROVE  [Flow!FlowNext]_(Flow!flowVars)
    OBVIOUS
  <2>1. CASE UNCHANGED pushFlowVars
    <3>1. UNCHANGED <<Owed, Pushed, failedQueue, posted, arrived>>
      BY <2>1, SameOwed DEF pushFlowVars, vars, brokerVars, callerVars, historyVars, Pushed
    <3>2. QED
      BY <2>1, <3>1 DEF pushFlowVars, gatewayVars, Flow!flowVars, Flow!channelVars,
         Flow!vars, Flow!redisVars, Flow!serviceVars, Flow!executionVars, Flow!historyVars
  <2>2. QED
    BY <2>1, PublishRefines, ReportIsStatusStep, PushStepRefines
    DEF PushFlowNext, GatewayStep, Flow!FlowNext
<1>3. QED
  BY <1>1, <1>2, FlowWorkInvariant, PTL DEF PushFlowSpec, Flow!FlowSafety

\* With any edits of the user and any opt-outs, and however the gateway's
\* executions, the copies of a push, its retries and the restarts interleave:
\* the client's answer is what becomes of its notification.
THEOREM AnswersReachTheDevice ==
    ASSUME GatewayConstants
    PROVE  PushFlowSpec => []PushMatchesAnswer
<1>1. Flow!FlowSafety => []Flow!OutcomeMatchesAnswer
  BY Flow!AnswersAreOutcomes DEF GatewayConstants
<1>2. FlowWorkInv /\ Flow!OutcomeMatchesAnswer => PushMatchesAnswer
  BY DEF FlowWorkInv, DeliveryInv, TypeOK, Flow!OutcomeMatchesAnswer, PushMatchesAnswer,
     Owed, Pushed
<1>3. QED
  BY <1>1, <1>2, PushFlowIsNotificationFlow, FlowWorkInvariant, PTL

\* An opt-out that everybody knew of when the notification was requested keeps
\* it from the device, unless the user's record came by gRPC.
THEOREM OptOutsReachTheDevice ==
    ASSUME GatewayConstants
    PROVE  PushFlowSpec => []OptOutsNotPushed
<1>1. Flow!Spec => []Flow!OptOutsHonoured
  BY Flow!OptOuts DEF GatewayConstants
<1>2. Flow!FlowSafety => Flow!Spec
  BY Flow!FlowContainsTheGateway DEF GatewayConstants
<1>3. FlowWorkInv /\ Flow!OptOutsHonoured => OptOutsNotPushed
  BY DEF FlowWorkInv, WorkArrived, DeliveryInv, TypeOK, Flow!OptOutsHonoured,
     OptOutsNotPushed, Pushed
<1>4. QED
  BY <1>1, <1>2, <1>3, PushFlowIsNotificationFlow, FlowWorkInvariant, PTL
=============================================================================
