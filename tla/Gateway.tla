------------------------------ MODULE Gateway ------------------------------
(***************************************************************************)
(* api-gateway: concurrent executions of NotificationService               *)
(* .sendNotification (services/notification.service.ts), each a chain of   *)
(* awaited calls of Redis, the user and template services and RabbitMQ,    *)
(* and the status endpoints that the channel services post to              *)
(* (controllers/status.controller.ts, notification-status.controller.ts).  *)
(* All requests concern one user and one template.  The user's record is   *)
(* its edit count, or Bare when it came by gRPC: user.proto has no         *)
(* `preferences'.  (No service of this repository answers that call; the   *)
(* gateway handles an answer all the same.)  Nothing depends on what is in *)
(* the template, so its record is only there or not.  Redis, RabbitMQ and  *)
(* the two services are external; any call of them may fail.               *)
(***************************************************************************)
EXTENDS Naturals

CONSTANTS
    Requests,           \* POST /notifications/send, one execution each
    KeyOf,              \* [Requests -> effective idempotency key]
    IdOf,               \* [Requests -> request_id]
    AllowedEdits,       \* edits of the user under which the channel is enabled
    MaxEdits,           \* bound on the edits of the user
    Bare,               \* a user record without preferences
    Absent

ASSUME GatewayAssumption ==
    /\ MaxEdits \in Nat
    /\ AllowedEdits \subseteq 0..MaxEdits
    /\ Absent \notin 0..MaxEdits /\ Bare \notin 0..MaxEdits
    /\ Absent # Bare

VARIABLES
    \* Redis
    idempotency,        \* the idempotency keys that exist
    cache,              \* user:<id> and template:code:<code>
    status,             \* notification:status:<request_id>
    \* other services
    source,             \* the record in user-service
    published,          \* requests whose message is in the exchange
    \* executions
    pc,
    looking,            \* the record a lookup is about
    seen,               \* the records the execution works with
    response,
    \* History variables
    keyed,              \* keys of requests answered with success, unexpired
    late,               \* requests that arrived with their key in `keyed'
    optedOut            \* requests that arrived under an opt-out

redisVars == <<idempotency, cache, status>>
serviceVars == <<source, published>>
executionVars == <<pc, looking, seen, response>>
historyVars == <<keyed, late, optedOut>>
vars == <<redisVars, serviceVars, executionVars, historyVars>>

Keys == {KeyOf[r] : r \in Requests}
Ids == {IdOf[r] : r \in Requests}
Records == {"user", "template"}
Edits == 0..MaxEdits
Values == Edits \cup {Bare, Absent}
Phases == {"idle", "check", "lookup", "askGrpc", "fillGrpc", "askRest", "fillRest",
           "preferences", "publish", "setKey", "setPending", "done"}
Terminal == {"delivered", "failed"}

TypeOK ==
    /\ idempotency \subseteq Keys
    /\ cache \in [Records -> Values]
    /\ status \in [Ids -> {"none", "pending"} \cup Terminal]
    /\ source \in Edits
    /\ published \subseteq Requests
    /\ pc \in [Requests -> Phases]
    /\ looking \in [Requests -> Records]
    /\ seen \in [Requests -> [Records -> Values]]
    /\ response \in [Requests -> {"none", "202", "400", "404", "500"}]
    /\ keyed \subseteq Keys
    /\ late \subseteq Requests
    /\ optedOut \subseteq Requests
    /\ \A r \in Requests : pc[r] = "done" <=> response[r] # "none"

Init ==
    /\ idempotency = {}
    /\ cache = [k \in Records |-> Absent]
    /\ status = [i \in Ids |-> "none"]
    /\ source = 0
    /\ published = {}
    /\ pc = [r \in Requests |-> "idle"]
    /\ looking = [r \in Requests |-> "user"]
    /\ seen = [r \in Requests |-> [k \in Records |-> Absent]]
    /\ response = [r \in Requests |-> "none"]
    /\ keyed = {}
    /\ late = {}
    /\ optedOut = {}

-----------------------------------------------------------------------------
Go(r, phase) == pc' = [pc EXCEPT ![r] = phase] /\ UNCHANGED response
BugRespondWithoutReturn(r, code) ==
    response' = [response EXCEPT ![r] = code] /\ UNCHANGED pc
Respond(r, code) ==
    /\ pc' = [pc EXCEPT ![r] = "done"]
    /\ response' = [response EXCEPT ![r] = code]

\* user-service, the cache and the executions about to fill it all know
\* that the channel is disabled.
Filling(r) == pc[r] \in {"fillGrpc", "fillRest"} /\ looking[r] = "user"
UserSaysNo ==
    /\ source \notin AllowedEdits
    /\ cache["user"] \notin AllowedEdits
    /\ \A q \in Requests : Filling(q) => seen[q]["user"] \notin AllowedEdits

Arrive(r) ==
    /\ pc[r] = "idle"
    /\ Go(r, "check")
    /\ late' = IF KeyOf[r] \in keyed THEN late \cup {r} ELSE late
    /\ optedOut' = IF UserSaysNo THEN optedOut \cup {r} ELSE optedOut
    /\ UNCHANGED <<redisVars, serviceVars, looking, seen, keyed>>

\* checkIdempotency
BugFreshKey(r) == FALSE
IsDuplicate(r) == KeyOf[r] \in idempotency

BugKeySetAtCheck(r) ==
    Go(r, "lookup") /\ idempotency' = idempotency \cup {KeyOf[r]}
GoOn(r) == Go(r, "lookup") /\ UNCHANGED idempotency

CheckIdempotency(r) ==
    /\ pc[r] = "check"
    /\ \/ IsDuplicate(r) /\ Respond(r, "400") /\ UNCHANGED idempotency
       \/ ~IsDuplicate(r) /\ GoOn(r)
    /\ UNCHANGED <<cache, status, serviceVars, looking, seen, historyVars>>

-----------------------------------------------------------------------------
(* getUserWithCache, then getTemplateByCode: the same cache-aside lookup.   *)

\* With the user in hand the execution looks the template up, then goes on.
NextLookup(r) ==
    IF looking[r] = "user"
    THEN Go(r, "lookup") /\ looking' = [looking EXCEPT ![r] = "template"]
    ELSE Go(r, "preferences") /\ UNCHANGED looking

See(r, value) == seen' = [seen EXCEPT ![r][looking[r]] = value]

\* getTemplateByCode asks by REST only.
ReadCache(r) ==
    /\ pc[r] = "lookup"
    /\ LET hit == cache[looking[r]] IN
       \/ hit # Absent /\ See(r, hit) /\ NextLookup(r)
       \/ /\ hit = Absent
          /\ Go(r, IF looking[r] = "user" THEN "askGrpc" ELSE "askRest")
          /\ UNCHANGED <<seen, looking>>
    /\ UNCHANGED <<redisVars, serviceVars, historyVars>>

RestRecord(r) == IF looking[r] = "user" THEN source ELSE 0

\* The service answers, or it does not: then gRPC falls back to REST, and REST
\* ends the lookup with null.
Fetch(r) ==
    /\ \/ pc[r] = "askGrpc" /\ See(r, Bare) /\ Go(r, "fillGrpc")
       \/ pc[r] = "askRest" /\ See(r, RestRecord(r)) /\ Go(r, "fillRest")
       \/ pc[r] = "askGrpc" /\ Go(r, "askRest") /\ UNCHANGED seen
       \/ pc[r] = "askRest" /\ Respond(r, "404") /\ UNCHANGED seen
    /\ UNCHANGED <<redisVars, serviceVars, looking, historyVars>>

Filled(r) == [cache EXCEPT ![looking[r]] = seen[r][looking[r]]]

FillCache(r) ==
    /\ pc[r] \in {"fillGrpc", "fillRest"}
    /\ cache' = Filled(r)
    /\ NextLookup(r)
    /\ UNCHANGED <<idempotency, status, serviceVars, seen, historyVars>>

-----------------------------------------------------------------------------
\* isChannelAllowed: a record without preferences allows every channel.
BugAsksTheCache(r) == cache["user"] \in AllowedEdits \cup {Bare, Absent}
ChannelAllowed(r) == seen[r]["user"] \in AllowedEdits \cup {Bare}

CheckPreferences(r) ==
    /\ pc[r] = "preferences"
    /\ IF ChannelAllowed(r) THEN Go(r, "publish") ELSE Respond(r, "400")
    /\ UNCHANGED <<redisVars, serviceVars, looking, seen, historyVars>>

\* publishMessage turns a rejected publish into false.
\* (The channel of amqp-connection-manager resolves once RabbitMQ confirmed; a
\* message whose confirmation does not come may be in the queue all the same.)
BugSentAnyway(r) == Respond(r, "404") /\ published' = published \cup {r}
BugFalseIgnored(r) == Go(r, "setKey") /\ UNCHANGED published
PublishFails(r) == Respond(r, "500") /\ published' \in {published, published \cup {r}}

Publish(r) ==
    /\ pc[r] = "publish"
    /\ \/ published' = published \cup {r} /\ Go(r, "setKey")
       \/ PublishFails(r)
    /\ UNCHANGED <<redisVars, source, looking, seen, historyVars>>

KeyTaken(r) == idempotency \cup {KeyOf[r]}

SetIdempotency(r) ==
    /\ pc[r] = "setKey"
    /\ idempotency' = KeyTaken(r)
    /\ Go(r, "setPending")
    /\ UNCHANGED <<cache, status, serviceVars, looking, seen, historyVars>>

Pending(r) == [status EXCEPT ![IdOf[r]] = "pending"]

SetPending(r) ==
    /\ pc[r] = "setPending"
    /\ status' = Pending(r)
    /\ Respond(r, "202")
    /\ keyed' = keyed \cup ({KeyOf[r]} \cap idempotency)
    /\ UNCHANGED <<idempotency, cache, serviceVars, looking, seen, late, optedOut>>

\* A Redis call rejects, a write perhaps after Redis carried it out.  It ends
\* the request with an error; but the lookups catch the one that fills the
\* cache, and go on as if the service had not answered.
RedisFails(r) ==
    /\ \/ /\ pc[r] \in {"check", "lookup"}
          /\ Respond(r, "500")
          /\ UNCHANGED redisVars
       \/ /\ pc[r] \in {"fillGrpc", "fillRest"}
          /\ IF pc[r] = "fillGrpc" THEN Go(r, "askRest") ELSE Respond(r, "404")
          /\ cache' \in {cache, Filled(r)}
          /\ UNCHANGED <<idempotency, status>>
       \/ /\ pc[r] = "setKey"
          /\ Respond(r, "500")
          /\ idempotency' \in {idempotency, KeyTaken(r)}
          /\ UNCHANGED <<cache, status>>
       \/ /\ pc[r] = "setPending"
          /\ Respond(r, "500")
          /\ status' \in {status, Pending(r)}
          /\ UNCHANGED <<idempotency, cache>>
    /\ UNCHANGED <<serviceVars, looking, seen, historyVars>>

-----------------------------------------------------------------------------
(* The status endpoints.                                                    *)

\* emailStatus and pushStatus behind the global ValidationPipe: StatusDto
\* declares no property to class-validator, so that whitelisting refuses
\* every body with 400 before the handler runs.
StatusDtoDecorated == FALSE

PostChannelStatus(r, s) ==
    /\ r \in published
    /\ IF StatusDtoDecorated
       THEN status' = [status EXCEPT ![IdOf[r]] = s]
       ELSE UNCHANGED status
    /\ UNCHANGED <<idempotency, cache, serviceVars, executionVars, historyVars>>

\* updateStatus (POST /notifications/status), whose DTO is decorated: used by
\* hand, for a notification its caller knows of.
PostStatus(r, s) ==
    /\ r \in published
    /\ status' = [status EXCEPT ![IdOf[r]] = s]
    /\ UNCHANGED <<idempotency, cache, serviceVars, executionVars, historyVars>>

-----------------------------------------------------------------------------
(* Time-to-live in Redis, and edits in user-service.                        *)

KeyExpires(k) ==
    /\ k \in idempotency
    /\ idempotency' = idempotency \ {k}
    /\ keyed' = keyed \ {k}
    /\ late' = {r \in late : KeyOf[r] # k \/ pc[r] # "check"}
    /\ UNCHANGED <<cache, status, serviceVars, executionVars, optedOut>>

CacheExpires(k) ==
    /\ cache[k] # Absent
    /\ cache' = [cache EXCEPT ![k] = Absent]
    /\ UNCHANGED <<idempotency, status, serviceVars, executionVars, historyVars>>

\* A user who enables the channel again opts the requests on their way in.
Edit ==
    /\ source < MaxEdits
    /\ source' = source + 1
    /\ optedOut' = IF source' \in AllowedEdits
                   THEN {r \in optedOut : pc[r] = "done"} ELSE optedOut
    /\ UNCHANGED <<redisVars, published, executionVars, keyed, late>>

Execution(r) ==
    \/ CheckIdempotency(r) \/ ReadCache(r) \/ Fetch(r) \/ FillCache(r)
    \/ CheckPreferences(r) \/ Publish(r) \/ SetIdempotency(r) \/ SetPending(r)
    \/ RedisFails(r)

Next ==
    \/ \E r \in Requests : Arrive(r) \/ Execution(r)
    \/ \E r \in Requests, s \in Terminal : PostChannelStatus(r, s) \/ PostStatus(r, s)
    \/ \E k \in Keys : KeyExpires(k)
    \/ \E k \in Records : CacheExpires(k)
    \/ Edit

Spec == Init /\ [][Next]_vars

-----------------------------------------------------------------------------
\* A request that arrives when one with its key was already answered with
\* success, and that key has not expired, is never published: duplicates need
\* executions that overlap or a Redis failure (notification.service.ts:38-43, 105).
LateDuplicatesRejected == late \cap published = {}

\* A client that is told 400 or 404 may correct its request and send it again:
\* nothing of it was sent.  One that is told 202 may rely on it.  Only a 500
\* leaves it open (notification.service.ts:39-133).
ResponsesAreHonest ==
    \A r \in Requests :
        /\ response[r] \in {"400", "404"} => r \notin published
        /\ response[r] = "202" => r \in published

\* An idempotency key is taken only by what was published, so that a request
\* that failed on the way can be sent again under the same key
\* (notification.service.ts:94-105).
KeysTakenByPublished ==
    \A k \in idempotency : \E r \in published : KeyOf[r] = k

\* A request that arrives when user-service, the cache and everybody about to
\* fill the cache know that the user disabled the channel is not published,
\* whatever is cached, edited or answered meanwhile; unless its record came by
\* gRPC, without preferences (notification.service.ts:46-57, 136-178, 213-218).
OptOutsHonoured ==
    \A r \in optedOut \cap published : seen[r]["user"] = Bare
=============================================================================
