# Verification of the notification system

TLA+ models of the five services of this repository, TLC configurations that
check them on small instances, and TLAPS proofs of their main safety properties
for every instance. Paths are relative to `src/`. `PROJECT.json` lists the runs,
which definition models which lines (`map`), the hazards of the code, the
findings and the theorems.

## 1. The system

A client posts a notification to `api-gateway`, which looks up the user
(`user-service`) and the template (`template-service`), and publishes a message
to the exchange of RabbitMQ; `email-service` and `push-service` consume
`email.queue` and `push.queue`, send by SMTP or Firebase, and post the outcome
back to the gateway. Redis holds the gateway's idempotency keys, cached records
and statuses, and the e-mail service's marks of processed messages. PostgreSQL
holds users, templates and template versions.

| Component | State it keeps | Operations that change it | What makes it correct |
|---|---|---|---|
| push-service: circuit breaker (`push-service/src/services/push.service.ts`) | state, failures, lastFailureTime, halfOpenCalls | getCircuitState, onSuccess, onFailure, called around an await of Firebase by three senders | opens on consecutive failures only, probes only after the timeout, closes only on successes, is never stuck |
| push-service: delivery (`consumer/push.consumer.ts`, `queues/rabbitmq.provider.ts`, `push.service.ts`) | push.queue, failed.queue, `processedRequests`, x-retry-count | consumer callback, handleFailedMessage, the retry timer, HTTP callers of the same sender | no push is lost; duplicates have a cause; the retries end; reports are true |
| push-service: connection (`queues/rabbitmq.provider.ts`, `consumer/push.consumer.ts`) | connection, channel, reconnectAttempts, timers, subscription | connect, handleConnectionError, waitForConnection, consumeMessages, isConnected | reconnects while attempts are left; consumes when it says it is ready |
| email-service: consumer (`consumer/email.consumer.ts`) | unacknowledged messages, attempts, Redis marks | processMessage, processEmailWithRetry, checkDuplicate, markAsProcessed | acknowledged means sent; every message settles; the report is right |
| email-service: sending, template cache, connection (`services/email.service.ts`, `services/template.service.ts`, `queues/rabbitmq.provider.ts`) | opossum breaker, cache by template id, channel | sendEmail, compileTemplate, connect | one e-mail for one delivery, rendered from its own body |
| api-gateway: sending (`services/notification.service.ts`, `redis.service.ts`, `rabbitmq.service.ts`) | Redis keys | sendNotification | a request that comes after its twin's success is refused; honest answers; opt-outs honoured |
| api-gateway: statuses (`controllers/status.controller.ts`, `notification-status.controller.ts`) | `notification:status:*` | the three POST endpoints | a posted status is recorded |
| template-service (`services/template.service.ts`) | `templates`, `template_versions` | createTemplate, updateTemplate | every version has its record |
| user-service (`modules/auth`, `modules/users`) | `users` | register, updatePreferences, updatePushToken | a registration that was accepted holds, with its choices; no setting changes unasked |

What is hard here, and aimed at by the properties (the list with lines is
`hazards` in `PROJECT.json`):

* *State read before an await and used after it*: the breaker, the duplicate
  check of the push sender, the gateway's idempotency key, `findOne` before
  `save` in both database services.
* *At-least-once delivery*: a process that ends, a connection lost, an answer
  that never arrives, a retry published before the original is acknowledged.
* *Timeouts racing late answers*: opossum's timeout and the SMTP server, the
  breaker's timer and calls begun before it opened.
* *Errors swallowed*: Redis in the e-mail service, the cache in the gateway, a
  consumer that fails to start.
* *Limits*: retries, reconnection attempts, thresholds of the breaker.

The remaining parts (JWT and roles, rendering, DTOs, clients, metrics, the
queue set-up script) keep no state that these depend on; see section 5.

## 2. The modules

| Module | Models | How it corresponds to the code |
|---|---|---|
| `Channel` | what a channel service promises about the messages of its queue | abstract: owed, sent, given up, told; refined by `PushDelivery` and `EmailConsumer`, used by `NotificationFlow` |
| `PushCircuit` | the breaker object | four fields; `GetCircuitState`, `OnSuccess`, `OnFailure` are the three private methods, each free of awaits and so one step |
| `PushBreaker` | the senders around it | a sender is two steps, `BeginCall` up to its await and `Resolve` or `Reject` after it; calls begin and cease to be rejected; time ticks |
| `PushDelivery` | queue to Firebase (extends `PushCircuit`) | one phase per await of the consumer callback; `HttpRequest` calls the same sender; `Restart`, `ForgetRequest` (REQUEST_TTL), `QueueTtl`, `Fail` with a lost answer and a lost status post are the faults |
| `PushConnection` | provider, subscription, readiness | one status per connection, since several calls of `connect()` may be under way; `timers` are pending `setTimeout`s; each event handler calls `HandleConnectionErrors` |
| `EmailConsumer` | the whole e-mail service | one handler per message and one phase per await; Redis, SMTP and opossum are disjuncts; ack and nack may go down with the connection, and throw into the catch block when it was lost before; a posted status arrives or is lost (`unheard` has those whose success was posted in vain); a pair in `Broken` is a message and a body that fails to render with it, for its subject or its data; `rendered` records which body `templateCache` gave |
| `Gateway` | sendNotification and the status endpoints | one phase per await of an execution; the two lookups share their steps; a user record is its edit count, or `Bare` when it came by gRPC; `RedisFails` covers every call of Redis, also one that was carried out and answered with an error |
| `NotificationFlow` | request to outcome (extends `Gateway`) | `PublishStep` is the publication and the routing to the channel's queue, `StatusStep` the channel's post and the gateway's endpoint, `ChannelStep` any step of a `Channel` |
| `PushFlow` | request to device (extends `PushDelivery`) | `NotificationFlow` with push-service itself in place of a channel: `PublishStep` is `Gateway!Publish` and the arrival in push.queue, `ReportStep` the consumer's post and the gateway's endpoint, or a post that does not get there |
| `EmailFlow` | request to mailbox (extends `EmailConsumer`) | the same with email-service |
| `TemplateStore` | createTemplate, updateTemplate | one step per SQL statement; `save` is a SELECT and an UPDATE of the columns that differ |
| `UserStore` | register, updatePreferences, updatePushToken | the same, with `preferences` one column; a registration stores its choice in it under keys of its own |

`MCEmailConsumer`, `MCNotificationFlow`, `MCUserStore`, `MCPushFlow` and
`MCEmailFlow` name the values of instances; the other specifications are
instantiated by their cfg alone. `*_proofs` hold the theorems about a module, those of `PushDelivery` and `EmailConsumer`
also the ones about the flow that extends it. A definition called `Bug...` is a
slip in the definition after it: no specification uses it, and putting it in
place of that definition makes the property that `PROJECT.json` names fail.
Variables under "History variables" record what has happened and are read by
no guard, but for those that count the faults of an instance.

Time is abstract: `quiet` counts ticks since the last failure up to where the
breaker's comparison changes; back-off times, which no state depends on, are
steps that may come at any time. Contents of messages are model values. User
records are numbered by their edits, since only *which* record was used
matters; of a template record, only whether there is one.

### Interactions

`PushBreaker` and `PushDelivery` share `PushCircuit`. `PushDelivery` takes the
subscription of `PushConnection` for granted: its progress is that of a process
that does consume.

The queues start empty. `Arrive` puts a message into push.queue or email.queue:
alone, at any time and once; in a flow, by the gateway's publication. That it
happens once for a message is how the gateway publishes, and shown by
`FlowContainsTheChannel`; that the publisher's library may send a message again
when its confirmation is lost is not modelled.

The way of a notification is composed in two stages. `PushDelivery` and
`EmailConsumer` each implement `Channel` (`ImplementsChannel`, with the mapping
before it: what is owed is what has a copy queued or held, what is sent is what
Firebase or the SMTP server took, also for another message with the same
correlation id). `NotificationFlow` puts `Channel` behind `Gateway`, so that
what it shows holds with either service. They meet in two calls, the
publication and the posted status.

*The broker is assumed not to restart.* Exchange and queues are durable, but the
gateway publishes without `persistent` (`rabbitmq.service.ts:28`; only the retry
copies of push-service are persistent, its `rabbitmq.provider.ts:217`), so what
waits in a queue does not survive a restart of RabbitMQ, whatever the client was
told. Short of that the queue keeps what it has confirmed. A publication that
was rejected may have reached the queue all the same: the client is then told
500, which promises nothing.

A posted status may be lost: the failure of the post is logged and never
repeated (`email.consumer.ts:253`, `push.consumer.ts:102`), and an
acknowledgement may be written to a connection that is lost before the broker
reads it (`email.consumer.ts:104`). Both are choices of the steps that post and
acknowledge.

`PushFlow` and `EmailFlow` take the second stage without the abstraction: the
gateway's executions step beside the consumer's phases, and what is claimed is
about devices and mailboxes. Both are shown to take steps of `NotificationFlow`,
so that what it says of a channel is said of these two services. `PushFlow`
gives each notification a request_id of its own, and follows an HTTP caller of
push-service only when it repeats one that was published. A correlation id may
be the client's choice (`notification.service.ts:33`); `EmailFlow` allows any,
and only its refinement has to assume that they differ (`OwnCorrelations`): when
they do not, email-service takes a message for a duplicate of another, which it
acknowledges without an e-mail of its own, and one e-mail counts for both.

`Gateway`'s `source` stands for the user's row of `UserStore`, edited as a
whole: the gateway reads one answer. `UserStore!IsChannelAllowed` is what
`Gateway!ChannelAllowed` asks, over the keys the row has.

## 3. What is checked

Passing runs:

| Run | Instance | Shows |
|---|---|---|
| `push_breaker` | 3 calls in flight, threshold 3, timeout 2 ticks, 2 half-open successes | The state agrees with the failure count. It opens only after consecutive failures, half-opens only after silence from *every* call, also a late one, and closes only on enough consecutive successes. With callers that keep trying and a Firebase that recovers, it ends up closed. |
| `push_delivery` | 2 messages, one of which Firebase may reject, 1 HTTP caller, 1 retry, 1 lapse (restart or expiry), 1 lost answer, lost status posts, threshold 1 | No push leaves the queue unsent and not dead-lettered. The number of pushes of a request is bounded by callers, lapses and lost answers. A push reported as delivered was sent. Every request leaves the queue for good. All of it is a `Channel`. |
| `push_connection` | limit of 3 attempts, 8 names of connections, 2 faults, broker stopping and starting | The provider gives up only when `connect()` failed as often as the limit says, although one loss may be counted two or three times. Once the broker stays up, a connection stays open or the attempts were used up. |
| `email_consumer` | 2 messages with one correlation id (one body renders, one does not), 2 attempts, 2 faults, lost status posts and acknowledgements | Acknowledged means sent. A delivery makes at most one e-mail, also when the send outlives its timeout, and only a lost connection or a crash makes another one of a message. A success that is acknowledged is reported and stays so, unless that very post is lost. While the connection lasts every message settles. All of it is a `Channel`. |
| `notification_flow` | 2 requests with one key and one request_id, an edit that disables the channel, Redis failing at any call, one message followed | A request that comes after the success of another with its key is rejected. 400 and 404 mean that nothing was published, 202 that it was, and so nothing, or something, is in the channel: waiting, sent, or given up, which for a push is failed.queue and for an e-mail the end of it. Keys are taken only by what was published. Once everybody knows of an opt-out, nothing is published but for a record that came without preferences. A notification answered with 202 is sent or given up in the end. |
| `template_store` | 2 requests in progress, 2 subjects, 2 bodies, 3 versions | Every version has a record unless a request was cut off between its writes. Without overlap, the records are the history. |
| `user_store` | 2 requests in progress, 2 passwords, 1 token, one choice at registration | An accepted registration can log in. Without overlap the settings are those asked for. An update reverts a setting only when it was overtaken by another request. |

Two configurations cost more than they add to the theorems they instantiate,
and serve to try a change before proving it: `PushFlow.cfg` of `MCPushFlow`
(one message, one HTTP caller, one retry, lapse and lost answer; 2.8 million
states) and `EmailFlow.cfg` of `MCEmailFlow` (one message, two faults; 595
thousand states). They check the answers and opt-outs of section 4 end to end,
and the refinement of `NotificationFlow`.

Runs that refute what the documentation or the code itself says:

| Run | Refuted | What happens |
|---|---|---|
| `push_connection_ready` | `push-service/src/controllers/health.controller.ts:42`, "Service is ready" | nothing subscribes again after a reconnection, and `isConnected` stays true for ever: the service is ready and consumes nothing |
| `email_retries` | `docs/ARCHITECTURE_DIAGRAM.md:197-199`, three retries | `sendEmail` never rejects, so the retry loop returns the first failed result, and the message is discarded |
| `email_body` | `email-service/README.md:147`, "Inline: Provided in the message template_data.body" | the gateway's messages have no `template_id`, so they share one entry of the template cache: each e-mail after the first has the first one's body |
| `gateway_status` | `api-gateway/src/controllers/status.controller.ts:19`, "Status recorded" | the DTO has no decorators and the global pipe refuses unknown properties: every post of a channel service is answered with 400 |
| `user_choice` | `user-service/src/modules/auth/dto/register.dto.ts:6`, "Enable email notifications" | the choice is stored under keys that the gateway does not read, and a missing key allows the channel |

The documentation promises more of duplicates than the code keeps
(`push-service/README.md:357`, `api-gateway/README.md:24`): both check before an
await and mark after it. Here that shows in what the passing runs *can* say:
`DuplicatesAccounted` allows a push more for each caller, lapse and lost answer,
and `LateDuplicatesRejected` speaks only of requests that come after the answer.

It also differs from the code in what becomes of a message that is given up:

* `docs/ARCHITECTURE_DIAGRAM.md:219-222` validates the device token first and
  answers an invalid one with "ACK message (don't retry)". The code validates
  nothing (`push.service.ts:54-77`): a push that Firebase rejects is retried and
  dead-lettered like any other. `NeverLost` states what the code does, for
  rejected pushes too; by the document it would not hold of them, since such a
  push ends neither sent nor in failed.queue.
* `docs/ARCHITECTURE_DIAGRAM.md:203` ("Send to failed.queue (DLQ)") and the log
  of `email.consumer.ts:126` ("sent to DLQ via nack") have an e-mail that was
  given up in a dead-letter queue. email.queue is asserted without a dead-letter
  exchange (`rabbitmq.provider.ts:67` of email-service), so the nack discards
  it; `OutcomeMatchesAnswer` counts that as given up.

### Bounds

* `MaxFailures` caps a counter that is only compared with the threshold;
  `quiet` and the history runs saturate where nothing distinguishes more.
* Two messages, requests or writers suffice for the races at hand, which are
  between two actors; the breaker has three callers, so that a late answer can
  arrive while another call is a probe. Its threshold of 3 and 2 half-open
  successes tell "consecutive" from "in total" and the first success from the
  last. In `push_delivery` every threshold is 1, so that opening, half-opening
  and re-opening happen within a few pushes; the counting is `push_breaker`'s.
  One of its messages may be rejected by Firebase, the other fails only on lost
  answers and an open breaker.
* `MAX_RETRIES = 1` and `MaxAttempts = 2` reach both sides of the limit.
* `MaxLapses`, `MaxLost`, `MaxFaults` bound faults, which otherwise could go on
  for ever. A fault count of 2 allows a fault while recovering from one.
  Lost status posts have no bound: any of them may be lost. A connection that
  goes down with an acknowledgement counts as a fault.
* `MaxConnections = 8` are names that are used again: a run never needs more at
  a time, and a `Reconnect` that found none would only wait.
* `MaxVersion = 3`: two updates beyond the first version, enough for the
  version to be written back over a newer one.
* `MaxEdits = 1` in the flow: the one edit disables the channel. That a user
  who enables it again is served is in the proof, for any number of edits.
  `Followed` is one of the two requests: messages do not interact within a
  channel as far as `Channel` says, and the other request still competes for
  key, cache and status.
* `Choices`: only `RegistrationChoiceHolds` depends on them, so `user_store`
  has one and `user_choice` all four.
* The requests and passwords of `user_store` are interchangeable; its
  properties are invariants and an action property, for which symmetry is sound.
* Deadlock is checked in `push_breaker`. The others stop legitimately: all
  messages settled, all requests answered, versions or faults used up.

### Fairness

* `PushBreaker`: time passes and Firebase answers each call (its client has
  timeouts of its own). That senders keep calling is a hypothesis of `Recovers`,
  not of the specification.
* `PushDelivery`: the consumer's steps taken together, with the answer of
  Firebase to its call, and time. There is one callback at a time, so weak
  fairness of their disjunction is what the event loop and the timers give.
  HTTP callers, expiries and restarts need never happen.
* `PushConnection`: timers fire and awaits return. The broker need not come
  back; the liveness properties have that as a hypothesis.
* `EmailConsumer`: each handler's steps, the breaker's own 10 s timeout and its
  reset timer. The SMTP server need never answer. A process that was ended by
  an unhandled rejection is started again in the same step: nothing in the
  repository does so, and without it nothing would be delivered at all.
* `NotificationFlow`: a followed message leaves the channel's queue
  (`Chan!Progress`). `EveryRequestSettles` shows that of push-service, given
  its subscription; `EveryMessageSettles` of email-service, given that its
  connection lasts. Where `push_connection_ready` or a lost connection of
  email-service applies, a notification answered with 202 waits for a restart.
  Executions of the gateway need not go on: none of them has to for a 202 that
  was given.
* The stores state safety only and assume none.

## 4. What is proved

By TLAPS, for every value of the constants that satisfies the named assumptions
(`CircuitAssumption`, `DeliveryAssumption`, `ConnectionAssumption`,
`EmailAssumption`, `GatewayAssumption`, `FlowAssumption`, `StoreAssumption`,
`UserAssumption`), which TLC evaluates in the runs. The flows state Gateway's
assumption as a formula, `GatewayConstants`, since Gateway is an instance in
them; it is `GatewayAssumption` word for word. Each module's type invariant is
proved, and:

| Proofs | Theorems | Inductive invariant, and why it is needed |
|---|---|---|
| `PushBreaker_proofs` | `CountsAgree`, `ProgressIsFresh`, `OpeningLaw`, `ProbingLaw`, `ClosingLaw` | `CountersMatchAnswers` ties the breaker's counters to the recorded answers: while closed `failures` is the run of failures, while half-open the counted probes are among the run of successes, while not closed `quiet` is the silence. The laws about transitions follow, each from the counter that its guard reads. |
| `PushDelivery_proofs` | `NothingLost`, `ReportsAreTrue`, `DuplicatesHaveACause`, `CopiesArrived`, `BreakerStaysConsistent`, `PushServiceIsAChannel` | `SentBeforeSettled`: whatever treats a request as done has a push to show, be it the idempotency map or the consumer's own phase. `BackoffHasRetry`: a copy to be published next fits the limit. Without the former an acknowledgement could be of something never sent. `PushesPaid` is the account of duplicates: pushes of an unmarked request are paid by earlier lapses and lost answers, but for the callers yet to mark it; once marked, only who is already calling may add. `OwedArrived`: copies are made of what was published only, also by the retry timer and by a requeue. `BreakerMoves` reduces every step of the service to a move of its breaker, each of which keeps `BreakerAgrees`. |
| `PushConnection_proofs` | `EveryAttemptIsMade`, `ReadyAndDeafForGood` | `Account`: the attempts counted are at most those scheduled, under way, or failed. `Trying`: when nothing is open, scheduled or under way, the limit was reached. Both need sums of cardinalities when several connections are lost at once. `NamesStand`: the connection that the service refers to is not being made anew, so that one that was lost is not found open again. |
| `EmailConsumer_proofs` | `AcknowledgedWasSent`, `AtMostOneEmail`, `DuplicateEmailsNeedFaults`, `AcknowledgedIsNeverFailed`, `OneBodyPerTemplateIsRendered`, `RetriesAreFutile`, `EmailServiceIsAChannel` | `Sending` says which phases, keys of Redis and posts have an e-mail to show, `Holdings` when a handler holds its message, `Mails` that a delivery's send is in progress, taken, or still possible, and only one of them. `FaultsExplainDeliveries`: a message was delivered at most once more than there were faults, and a copy that is ready for the next delivery counts. `AckedIsDone`: an acknowledged message has no handler but the one that finishes its success, hence nobody to report it failed. (A handler may finish a success that the broker knows nothing of, when the acknowledgement went down with the connection; the message is then not acknowledged.) `CacheHoldsBodies`: a cached body, and so a rendered one, is that of a message with the same template id. `RetriesRender`: a message in a further attempt finds a body in the cache that fails to render with it, and that stays there as long as the attempts are counted. |
| `Gateway_proofs` | `LateDuplicates`, `HonestResponses`, `FreeKeys`, `OptOuts` | `Published` says on which side of its publication an execution is, `PreferencesChecked` what it has seen there, and `LateFindsKey` why the key of a late request is still there when it is asked for. `NoStaysKnown`: while a request that met an opt-out is on its way, no cache entry and no execution about to fill it can hold a yes. |
| `NotificationFlow_proofs` | `FlowContainsTheGateway`, `FlowContainsTheChannel`, `AnswersAreOutcomes` | `MessagesExist`: what is waiting, sent or given up is what was published. With the first theorem the gateway's invariants carry over, and the answers become statements about the channel. |
| `PushDelivery_proofs`, on `PushFlow` | `FlowContainsPushService`, `PushFlowIsNotificationFlow`, `AnswersReachTheDevice`, `OptOutsReachTheDevice` | `WorkArrived`: whoever works on a request works on a published one, and nothing else was pushed. So what the service does alone is a `ChannelStep`, which may touch published messages only (`ServiceStepsAllowed`), and a 400 or 404, given to what was not published, means no push. |
| `EmailConsumer_proofs`, on `EmailFlow` | `FlowContainsEmailService`, `EmailFlowContainsTheGateway`, `EmailFlowIsNotificationFlow`, `AnswersReachTheMailbox`, `OptOutsReachTheMailbox` | `AbsentIsUnmailed`: a message that has not arrived has no e-mail. With `OwnCorrelations`, `Mailed` is within what arrived; only `EmailFlowIsNotificationFlow` needs that, the other theorems hold with any correlation ids. |
| `TemplateStore_proofs` | `VersionsRecorded`, `WholeHistory` | `RowIsKnown`: the row's version is one that has been noted. An UPDATE that leaves the version column alone, because entity and row agreed when they were compared, may then change a row of any noted version. `LatestVersion` and `AloneInProgress`: until two requests overlap, the row is the last version and the one request has a current view of it. |
| `UserStore_proofs` | `RegisteredUsers`, `SequentialSettings`, `StaleSettings` | `HoldsTheRest`: an update in progress has the row's value of all that it does not set and was not overtaken in. `AloneIsCurrent`: until two requests overlap, there is one, with a current view. `AcceptedIsStored`: the one accepted password is the row's. |
| `UserStore_proofs`, on the registration's choice | `NothingAskedNothingRefused`, `ConsentHolds` | `ValuesAreAsked`: a preference that has a value, in the row or in an entity to be saved, was asked for by an update. |

The refinements map initial states to initial states and every step to a step
or a stutter, using the inductive invariant: an acknowledgement is `Settle` only
because something was sent.

Some theorems delimit a property that a run refutes, or one that only a run
shows. `OneBodyPerTemplateIsRendered` assumes that messages with one template id
have one body, and then proves `RendersInlineBody`, which `email_body` refutes:
the shared id is all that is wrong. `ConsentHolds` does the same for
`RegistrationChoiceHolds`, whose only counterexamples are refusals.
`ReadyAndDeafForGood` and `RetriesAreFutile` say of every instance what
`push_connection_ready` and `email_retries` show on a trace: a service that is
ready without a consumer remains so whatever it reconnects to, and no retry ever
reaches the SMTP server. `AcknowledgedIsNeverFailed` is
the safety half of `SuccessIsReported`: that the report is made is checked, that
none of a failure follows the acknowledgement is proved.

Only model-checked: the liveness properties (`Recovers`, `EveryRequestSettles`,
`ConnectionSettles`, `SuccessIsReported`, `EveryMessageSettles`,
`AcceptedSettles`), since TLAPS proves nothing about fairness or ENABLED. With
them stays that the flows end: `PushFlow` and `EmailFlow` state safety, and
`AcceptedSettles` speaks of a channel that `Leave`s its messages. Every other
property of the passing runs is a theorem. No module has a recursive
definition.

## 5. What is not modelled

* Checks of tokens and roles, logging, the shape of responses, and the
  throttler of the gateway (a library). Of the validation of requests only where
  it decides what a handler ever sees: the posted statuses, and the multicast,
  whose tokens are refused.
* Rendering by `template-service`: a replacement of placeholders in a string,
  which no consumer of the queue asks for.
* Reads, health and metrics endpoints, but for the readiness of push-service.
* The inside of libraries. Of opossum only that a failure *may* open the
  breaker, that it half-opens after its timer and lets one trial through; its
  rolling window of bucketed counts is library code that is not in the
  repository, and a breaker that may open after any failure includes it. Of
  TypeORM how `save` selects and updates. Of `amqp-connection-manager`
  (gateway) that a publication is confirmed or fails, after any time, and that
  the broker may have the message in either case; not that it is sent again when
  its confirmation is lost.
* A restart of RabbitMQ (see Interactions), and in push-service what follows a
  reconnection while a delivery is held: the catch path of `handleFailedMessage`
  (nack with requeue, `rabbitmq.provider.ts:234-239`), and acknowledging or
  publishing on a channel that has replaced the one of the delivery.
  `PushDelivery` takes the subscription for granted.
* In email-service a body that does not compile, which is retried without being
  cached (`template.service.ts:22-25`): the gateway's bodies are strings, which
  Handlebars compiles lazily, so that they fail, if at all, when they are
  rendered. `Broken` has those, and subjects that fail.
* `disconnect` of the providers: no shutdown hook is enabled, it never runs.
* `publishMessage` of push-service, `clearCache` and `loadTemplateFile` of
  email-service, the template's gRPC client: nothing calls them.
* `setup-rabbitmq.js`, run by hand. Its arguments for the queues differ from
  those that the services assert; which of them is there first depends on the
  deployment, and what a refused assertion does without a listener for the
  channel's errors is the library's. The models start with the queues the
  services assert.
* That prefetch(1) is sent after the channel has become visible to the waiting
  consumer: `PushDelivery` assumes one delivery at a time.
* A record of users that was deleted: no operation deletes one.

## 6. Plan

Done, in the order of importance: the push breaker and delivery, the gateway,
the e-mail consumer, the two stores, the push connection; then the abstract
channel with its two refinements, the composition of gateway and channel, the
choice made at registration, the bodies of e-mails, the flows with the actual
services, and the proofs of all that is safety.

What could be added:

1. Two documented promises about an open breaker that the code does not keep:
   limited probes (`push-service/README.md:339`), and messages held back
   (`docs/ARCHITECTURE_DIAGRAM.md:206-208`).
2. opossum's rolling window, with the volume threshold of this configuration,
   to tell when the breaker of email-service *must* open.
3. What `EmailFlow` still guarantees of each message when correlation ids are
   shared, by executions instead of ids.
4. A push whose token is invalid, as `docs/ARCHITECTURE_DIAGRAM.md:219-222` has
   it end, against the retries and failed.queue of the code.
5. A broker that restarts, with which messages are persistent.
6. A set-up of queues whose arguments disagree, with the library's behaviour on
   the refused assertion.
