--------------------------- MODULE PushConnection ---------------------------
(***************************************************************************)
(* push-service: how RabbitMQProvider (queues/rabbitmq.provider.ts) makes  *)
(* and remakes its connection to the broker, how PushConsumer              *)
(* (consumer/push.consumer.ts) subscribes through it, and what the         *)
(* readiness endpoint says of it.  The broker is external: it stops and    *)
(* starts, and connections to it are lost.                                 *)
(*                                                                         *)
(* Several connections may be open at a time: the error event, the close   *)
(* event and a failing connect() each schedule a connect() of their own.   *)
(* Shutdown (disconnect) is left out, as no shutdown hook is enabled.      *)
(***************************************************************************)
EXTENDS Naturals, FiniteSets

CONSTANTS
    MaxReconnectAttempts,
    MaxConnections, \* bound: names for the connections of a time
    MaxFaults,      \* bound on the times that connections are lost
    None

ASSUME ConnectionAssumption ==
    /\ MaxReconnectAttempts \in Nat
    /\ MaxConnections \in Nat \ {0}
    /\ MaxFaults \in Nat
    /\ None \notin Nat

Connections == 1..MaxConnections

VARIABLES
    brokerUp,
    status,             \* where the connect() that made a connection stands
    channel,            \* this.channel, by its connection
    reconnectAttempts,
    timers,             \* how many reconnections are scheduled
    consumer,           \* where startConsuming stands
    subscribed,         \* the connection that it consumes from
    faults,
    failures            \* history: the calls of connect() that have failed
                        \* since one went through

providerVars == <<status, channel, reconnectAttempts, timers>>
consumerVars == <<consumer, subscribed>>
vars == <<brokerUp, providerVars, consumerVars, faults, failures>>

TypeOK ==
    /\ brokerUp \in BOOLEAN
    /\ status \in [Connections -> {"none", "dialing", "asserting", "ready"}]
    /\ channel \in Connections \cup {None}
    /\ reconnectAttempts \in 0..MaxReconnectAttempts
    /\ timers \in Nat
    /\ consumer \in {"waiting", "subscribing", "consuming", "failed"}
    /\ subscribed \in Connections \cup {None}
    /\ faults \in 0..MaxFaults
    /\ failures \in Nat

\* Nest runs onModuleInit of both at a time; the consumer finds no channel yet.
Init ==
    /\ brokerUp \in BOOLEAN
    /\ status = [c \in Connections |-> IF c = 1 THEN "dialing" ELSE "none"]
    /\ channel = None
    /\ reconnectAttempts = 0
    /\ timers = 0
    /\ consumer = "waiting"
    /\ subscribed = None
    /\ faults = 0
    /\ failures = 0

Having(some) == {c \in Connections : status[c] \in some}
Open == Having({"asserting", "ready"})
Connecting == Having({"dialing", "asserting"})

-----------------------------------------------------------------------------
Least(a, b) == IF a <= b THEN a ELSE b

\* handleConnectionError, called n times.
BugNoTimer(n) ==
    /\ reconnectAttempts' = Least(reconnectAttempts + n, MaxReconnectAttempts)
    /\ UNCHANGED timers
BugOneTimer(n) ==
    /\ reconnectAttempts' = Least(reconnectAttempts + n, MaxReconnectAttempts)
    /\ timers' = timers + Least(1, reconnectAttempts' - reconnectAttempts)
BugOnePastTheLimit(n) ==
    /\ reconnectAttempts' = Least(reconnectAttempts + n, MaxReconnectAttempts + 1)
    /\ timers' = timers + (reconnectAttempts' - reconnectAttempts)
HandleConnectionErrors(n) ==
    /\ reconnectAttempts' = Least(reconnectAttempts + n, MaxReconnectAttempts)
    /\ timers' = timers + (reconnectAttempts' - reconnectAttempts)

\* A scheduled connect() begins, with a name that nothing refers to.
Unused == {c \in Connections : status[c] = "none" /\ c \notin {channel, subscribed}}

Reconnect ==
    /\ timers > 0
    /\ \E c \in Unused :
          /\ \A u \in Unused : c <= u
          /\ status' = [status EXCEPT ![c] = "dialing"]
    /\ timers' = timers - 1
    /\ UNCHANGED <<brokerUp, channel, reconnectAttempts, consumerVars,
                   faults, failures>>

\* amqplib.connect and createChannel: the latest channel replaces any other.
Connected(c) ==
    /\ status[c] = "dialing"
    /\ brokerUp
    /\ status' = [status EXCEPT ![c] = "asserting"]
    /\ channel' = c
    /\ UNCHANGED <<brokerUp, reconnectAttempts, timers, consumerVars,
                   faults, failures>>

Refused(c) ==
    /\ status[c] = "dialing"
    /\ ~brokerUp
    /\ status' = [status EXCEPT ![c] = "none"]
    /\ HandleConnectionErrors(1)
    /\ failures' = failures + 1
    /\ UNCHANGED <<brokerUp, channel, consumerVars, faults>>

\* The exchange, the queues and their bindings are there.
Established(c) ==
    /\ status[c] = "asserting"
    /\ status' = [status EXCEPT ![c] = "ready"]
    /\ reconnectAttempts' = 0
    /\ failures' = 0
    /\ UNCHANGED <<brokerUp, channel, timers, consumerVars, faults>>

\* waitForConnection finds a channel, and consume is called on it, which
\* throws when its connection is gone already.
FindChannel ==
    /\ consumer = "waiting"
    /\ channel # None
    /\ IF channel \in Open
       THEN consumer' = "subscribing" /\ subscribed' = channel
       ELSE consumer' = "failed" /\ UNCHANGED subscribed
    /\ UNCHANGED <<brokerUp, providerVars, faults, failures>>

\* 30 s without a channel.
StopWaiting ==
    /\ consumer = "waiting"
    /\ channel = None
    /\ consumer' = "failed"
    /\ UNCHANGED <<brokerUp, providerVars, subscribed, faults, failures>>

Subscribed ==
    /\ consumer = "subscribing"
    /\ consumer' = "consuming"
    /\ UNCHANGED <<brokerUp, providerVars, subscribed, faults, failures>>

\* Connections are lost.  Each emits close, and may emit error before it, and
\* a connect() that was not finished fails as well.  A consumer that has
\* subscribed is not told.
Lose(lost) ==
    /\ faults < MaxFaults
    /\ faults' = faults + 1
    /\ status' = [c \in Connections |-> IF c \in lost THEN "none" ELSE status[c]]
    /\ LET unfinished == Cardinality(lost \cap Having({"asserting"}))
       IN  /\ \E errors \in 0..Cardinality(lost) :
                 HandleConnectionErrors(errors + Cardinality(lost) + unfinished)
           /\ failures' = failures + unfinished
    /\ consumer' = IF consumer = "subscribing" /\ subscribed \in lost
                   THEN "failed" ELSE consumer
    /\ UNCHANGED <<channel, subscribed>>

LoseOne == \E c \in Open : Lose({c}) /\ UNCHANGED brokerUp
BrokerStops == brokerUp /\ Lose(Open) /\ brokerUp' = FALSE

BrokerStarts ==
    /\ ~brokerUp
    /\ brokerUp' = TRUE
    /\ UNCHANGED <<providerVars, consumerVars, faults, failures>>

ProviderSteps(c) == Connected(c) \/ Refused(c) \/ Established(c)
ConsumerSteps == FindChannel \/ StopWaiting \/ Subscribed

Next ==
    \/ Reconnect
    \/ \E c \in Connections : ProviderSteps(c)
    \/ ConsumerSteps
    \/ LoseOne \/ BrokerStops \/ BrokerStarts

\* Timers fire and calls return; the broker need not come back.
Fairness ==
    /\ WF_vars(Reconnect)
    /\ \A c \in Connections : WF_vars(ProviderSteps(c))
    /\ WF_vars(ConsumerSteps)

Spec == Init /\ [][Next]_vars /\ Fairness

-----------------------------------------------------------------------------
GaveUp == reconnectAttempts = MaxReconnectAttempts

\* isConnected, which the readiness endpoint answers with.
IsConnected == channel # None

Consuming == consumer = "consuming" /\ subscribed \in Open

\* When no connection is left, and none is being made or scheduled, connect()
\* has failed as often as MAX_RECONNECT_ATTEMPTS allows since it last went
\* through: also when a lost connection counts two or three times, or several
\* are made at a time, no attempt is lost (rabbitmq.provider.ts:36-44, 69-90).
GivesUpAfterEveryAttempt ==
    Open \cup Connecting = {} /\ timers = 0 => failures >= MaxReconnectAttempts

\* Once the broker stays up, a connection stays open, unless the attempts are
\* used up (rabbitmq.provider.ts:30-44, 77-90).  It need not be the one of
\* this.channel, of which a loss counted at the limit is not repaired.
ConnectionSettles ==
    <>[]brokerUp => <>[](Open # {}) \/ <>[]GaveUp

\* health.controller.ts:42, "Service is ready": with the broker up for good,
\* the service does not for ever report itself ready and consume nothing.
ReadyServiceConsumes ==
    <>[]brokerUp => []<>(IsConnected => Consuming)
=============================================================================
