---------------------------- MODULE PushBreaker ----------------------------
(***************************************************************************)
(* The senders of push-service's PushService (push.service.ts:22-157)      *)
(* around their circuit breaker.  Each of sendPushNotification,            *)
(* sendToMultipleDevices and sendToTopic asks getCircuitState, awaits      *)
(* Firebase, and only then calls onSuccess or onFailure: the answers of    *)
(* calls that were let through in one state of the breaker arrive in       *)
(* another one.  One process lifetime; PushDelivery adds restarts.         *)
(***************************************************************************)
EXTENDS PushCircuit

CONSTANT Calls      \* slots for calls of the three senders in flight

VARIABLES
    call,           \* [Calls -> "idle" or how the call in flight was let through]
    failing,        \* environment: calls may be rejected, by Firebase or by its
                    \* SDK for what they contain
    \* History variables: they record the stream of answers, never a decision.
    successRun,     \* successes answered since the last failed answer
    failureRun,     \* failures answered since the last successful answer
    silence         \* ticks since the last failed answer

historyVars == <<successRun, failureRun, silence>>
vars == <<breakerVars, historyVars, call, failing>>

InFlight == {"normal", "probe"}     \* let through in CLOSED, in HALF_OPEN

TypeOK ==
    /\ CircuitTypeOK
    /\ call \in [Calls -> {"idle"} \cup InFlight]
    /\ failing \in BOOLEAN
    /\ successRun \in 0..HALF_OPEN_MAX_CALLS
    /\ failureRun \in 0..FAILURE_THRESHOLD
    /\ silence \in 0..LongAgo

Init ==
    /\ CircuitInit
    /\ successRun = 0
    /\ failureRun = 0
    /\ silence = LongAgo
    /\ call = [c \in Calls |-> "idle"]
    /\ failing \in BOOLEAN

RecordSuccess ==
    /\ successRun' = AtMost(successRun + 1, HALF_OPEN_MAX_CALLS)
    /\ failureRun' = 0
    /\ UNCHANGED silence

RecordFailure ==
    /\ failureRun' = AtMost(failureRun + 1, FAILURE_THRESHOLD)
    /\ successRun' = 0
    /\ silence' = 0

-----------------------------------------------------------------------------
\* A sender up to its await: a call that getCircuitState does not refuse.
\* (A refused call returns at once and changes nothing.)
BeginCall(c) ==
    /\ call[c] = "idle"
    /\ CircuitState # "OPEN"
    /\ GetCircuitState
    /\ call' = [call EXCEPT ![c] =
                   IF CircuitState = "HALF_OPEN" THEN "probe" ELSE "normal"]
    /\ UNCHANGED <<historyVars, failing>>

\* The sender resumes after Firebase resolved the call.  A multicast never does
\* so: its tokens have no validator (notification.dto.ts:130), the pipe refuses
\* a body with them (main.ts:13-19), and Firebase rejects a call without.
Resolve(c) ==
    /\ call[c] \in InFlight
    /\ OnSuccess
    /\ RecordSuccess
    /\ call' = [call EXCEPT ![c] = "idle"]
    /\ UNCHANGED failing

\* The sender's catch block: Firebase rejected the call.
Reject(c) ==
    /\ call[c] \in InFlight
    /\ failing
    /\ OnFailure
    /\ RecordFailure
    /\ call' = [call EXCEPT ![c] = "idle"]
    /\ UNCHANGED failing

Tick ==
    /\ quiet < LongAgo \/ silence < LongAgo
    /\ quiet' = AtMost(quiet + 1, LongAgo)
    /\ silence' = AtMost(silence + 1, LongAgo)
    /\ UNCHANGED <<state, failures, halfOpenCalls, successRun, failureRun,
                   call, failing>>

\* Calls begin or cease to be rejected.
ChangeFirebase ==
    /\ failing' = ~failing
    /\ UNCHANGED <<breakerVars, historyVars, call>>

Next ==
    \/ \E c \in Calls : BeginCall(c) \/ Resolve(c) \/ Reject(c)
    \/ Tick
    \/ ChangeFirebase

Spec == Init /\ [][Next]_vars

\* Time passes and Firebase answers every call.  Nothing obliges anyone to
\* begin a call: Recovers assumes that as its hypothesis.
Fairness ==
    /\ WF_vars(Tick)
    /\ \A c \in Calls : WF_vars(Resolve(c) \/ Reject(c))

FairSpec == Spec /\ Fairness

-----------------------------------------------------------------------------
\* The failure count and the state agree: calls flow freely exactly while
\* fewer than FAILURE_THRESHOLD failures are on the books.  OnFailure counts
\* in every state, and getCircuitState leaves the count alone, so a breaker
\* that re-opens or half-opens must still carry at least a threshold's worth
\* (push.service.ts:217-246).
FailuresMatchState == state = "CLOSED" <=> failures < FAILURE_THRESHOLD

\* The half-open counter never reaches its limit, and no progress made by an
\* earlier half-open period survives into a later one (push.service.ts:203-246).
HalfOpenProgress ==
    /\ halfOpenCalls < HALF_OPEN_MAX_CALLS
    /\ halfOpenCalls > 0 => state = "HALF_OPEN"

\* The breaker leaves CLOSED only on FAILURE_THRESHOLD failed answers with no
\* success between them, whatever the order in which the calls were begun
\* (push-service/README.md:323, "5 consecutive failures").
OpensOnConsecutiveFailures ==
    [][state = "CLOSED" /\ state' # "CLOSED"
         => state' = "OPEN" /\ failureRun' >= FAILURE_THRESHOLD]_vars

\* The breaker leaves OPEN only for HALF_OPEN, and only when more than
\* TIMEOUT_DURATION has passed since the last failed answer of any call, also
\* of one that was in flight when the breaker opened (push.service.ts:203-215).
ProbesAfterSilence ==
    [][state = "OPEN" /\ state' # "OPEN"
         => state' = "HALF_OPEN" /\ silence > TIMEOUT_DURATION]_vars

\* The breaker closes again only from HALF_OPEN and only when the last
\* HALF_OPEN_MAX_CALLS answers were all successes (push.service.ts:217-232).
ClosesOnSuccesses ==
    [][state # "CLOSED" /\ state' = "CLOSED"
         => state = "HALF_OPEN" /\ successRun' >= HALF_OPEN_MAX_CALLS]_vars

\* Once Firebase rejects nothing any more, and as long as senders keep getting
\* calls through or the breaker to look at, the breaker ends up CLOSED: it
\* cannot be stuck OPEN or HALF_OPEN (push.service.ts:203-232).
SendersKeepTrying == \A c \in Calls : WF_vars(BeginCall(c))
Recovers ==
    SendersKeepTrying /\ <>[](~failing) => <>[](state = "CLOSED")
=============================================================================
