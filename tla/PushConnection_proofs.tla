------------------------ MODULE PushConnection_proofs ------------------------
(***************************************************************************)
(* The provider of push-service gives up only after every attempt that it  *)
(* counts has been made, for any limit and any number of faults.  The      *)
(* argument is an account: each attempt counted is still scheduled, or     *)
(* under way, or has failed; and while some are left, a connection is open *)
(* or being made (Trying).                                                 *)
(***************************************************************************)
EXTENDS PushConnection, FiniteSetTheorems, TLAPS

Account ==
    reconnectAttempts <= timers + Cardinality(Connecting) + failures

Trying ==
    Open \cup Connecting = {} /\ timers = 0 => GaveUp

IInv == TypeOK /\ Account /\ Trying

-----------------------------------------------------------------------------
\* Sets of connections can be counted.
LEMMA FiniteConnections ==
    \A S \in SUBSET Connections : IsFiniteSet(S) /\ Cardinality(S) \in Nat
<1>1. IsFiniteSet(Connections)
    BY ConnectionAssumption, FS_Interval DEF Connections
<1> QED
    BY <1>1, FS_Subset, FS_CardinalityType

\* So can those that are being made.
LEMMA FiniteConnecting ==
    /\ Connecting \subseteq Connections
    /\ IsFiniteSet(Connecting)
    /\ Cardinality(Connecting) \in Nat
<1>1. Connecting \subseteq Connections
    BY DEF Connecting, Having
<1> QED
    BY <1>1, FiniteConnections

\* As many timers are started as attempts are counted.
LEMMA ErrorsCounted ==
    ASSUME TypeOK, NEW n \in Nat, HandleConnectionErrors(n)
    PROVE  /\ reconnectAttempts' \in 0..MaxReconnectAttempts
           /\ timers' \in Nat
           /\ timers' - timers = reconnectAttempts' - reconnectAttempts
           /\ n > 0 /\ timers' = 0 => GaveUp'
    BY ConnectionAssumption DEF TypeOK, HandleConnectionErrors, Least, GaveUp

\* The first connect() is under way.
LEMMA InitIsGood == Init => IInv
<1> SUFFICES ASSUME Init PROVE IInv
    OBVIOUS
<1>1. TypeOK
    BY ConnectionAssumption DEF Init, TypeOK
<1>2. Account
    BY FiniteConnecting DEF Init, Account
<1>3. Trying
    <2>1. 1 \in Connections
        BY ConnectionAssumption DEF Connections
    <2>2. 1 \in Connecting
        BY <2>1 DEF Init, Connecting, Having
    <2> QED
        BY <2>2 DEF Trying
<1> QED
    BY <1>1, <1>2, <1>3 DEF IInv

\* A timer that fires becomes a connect() under way (rabbitmq.provider.ts:36-44).
LEMMA ReconnectIsGood ==
    ASSUME IInv, Reconnect
    PROVE  IInv'
<1> USE DEF IInv
<1>1. PICK c \in Unused : status' = [status EXCEPT ![c] = "dialing"]
    BY DEF Reconnect
<1>2. TypeOK'
    BY <1>1 DEF Reconnect, TypeOK, Unused, consumerVars
<1>3. Connecting' = Connecting \cup {c} /\ c \notin Connecting
    BY <1>1 DEF Connecting, Having, Unused, TypeOK
<1>4. Cardinality(Connecting') = Cardinality(Connecting) + 1
    BY <1>3, FiniteConnecting, FS_AddElement
<1>5. timers \in Nat /\ failures \in Nat /\ reconnectAttempts \in Nat
    BY ConnectionAssumption DEF TypeOK
<1>6. Account'
    BY <1>4, <1>5, FiniteConnecting DEF Account, Reconnect
<1>7. Trying'
    BY <1>3 DEF Trying
<1> QED
    BY <1>2, <1>6, <1>7

\* A connect() under way ends in an open connection, or in a failure that is
\* counted (rabbitmq.provider.ts:46-90).
LEMMA ProviderIsGood ==
    ASSUME IInv, NEW c \in Connections, ProviderSteps(c)
    PROVE  IInv'
<1> USE DEF IInv
<1>1. timers \in Nat /\ failures \in Nat /\ reconnectAttempts \in Nat
    BY ConnectionAssumption DEF TypeOK
<1>2. CASE Connected(c)
    <2>1. Connecting' = Connecting
        BY <1>2 DEF Connected, Connecting, Having, TypeOK
    <2>2. Connecting # {}
        BY <1>2 DEF Connected, Connecting, Having
    <2> QED
        BY <1>2, <2>1, <2>2 DEF Connected, TypeOK, Account, Trying, consumerVars
<1>3. CASE Refused(c)
    <2>1. /\ reconnectAttempts' \in 0..MaxReconnectAttempts
          /\ timers' \in Nat
          /\ timers' - timers = reconnectAttempts' - reconnectAttempts
          /\ timers' = 0 => GaveUp'
        BY <1>3, ErrorsCounted DEF Refused
    <2>2. Connecting' = Connecting \ {c} /\ c \in Connecting
        BY <1>3 DEF Refused, Connecting, Having, TypeOK
    <2>3. Cardinality(Connecting') = Cardinality(Connecting) - 1
        BY <2>2, FiniteConnecting, FS_RemoveElement
    <2>4. Account'
        BY <1>1, <1>3, <2>1, <2>3, FiniteConnecting DEF Account, Refused
    <2>5. Trying'
        BY <2>1 DEF Trying
    <2> QED
        BY <1>1, <1>3, <2>1, <2>4, <2>5 DEF Refused, TypeOK, consumerVars
<1>4. CASE Established(c)
    <2>1. TypeOK'
        BY <1>4, ConnectionAssumption DEF Established, TypeOK, consumerVars
    <2>2. Connecting' \subseteq Connections
        BY DEF Connecting, Having
    <2>3. Cardinality(Connecting') \in Nat
        BY <2>2, FiniteConnections
    <2>4. Trying'
        BY <1>4 DEF Established, Trying, Open, Having, TypeOK
    <2> QED
        BY <1>1, <1>4, <2>1, <2>3, <2>4 DEF Established, Account
<1> QED
    BY <1>2, <1>3, <1>4 DEF ProviderSteps

\* The consumer counts and schedules nothing.
LEMMA ConsumerIsGood ==
    ASSUME IInv, ConsumerSteps \/ BrokerStarts \/ UNCHANGED vars
    PROVE  IInv'
<1>1. UNCHANGED <<status, timers, reconnectAttempts, failures>>
    BY DEF ConsumerSteps, FindChannel, StopWaiting, Subscribed, BrokerStarts,
           vars, providerVars
<1>2. TypeOK'
    BY DEF IInv, ConsumerSteps, FindChannel, StopWaiting, Subscribed,
           BrokerStarts, vars, providerVars, consumerVars, TypeOK
<1> QED
    BY <1>1, <1>2 DEF IInv, Account, Trying, GaveUp, Open, Connecting, Having

\* Losing connections: an unfinished one is under way no longer, but failed.
LEMMA LoseIsGood ==
    ASSUME IInv, NEW lost \in SUBSET Open, Lose(lost), brokerUp' \in BOOLEAN
    PROVE  IInv'
<1> USE DEF IInv
<1> DEFINE gone == lost \cap Having({"asserting"})
<1>1. timers \in Nat /\ failures \in Nat /\ reconnectAttempts \in Nat
    BY ConnectionAssumption DEF TypeOK
<1>2. Cardinality(lost) \in Nat /\ Cardinality(gone) \in Nat
    BY FiniteConnections DEF Open, Having
<1>3. PICK errors \in 0..Cardinality(lost) :
          HandleConnectionErrors(errors + Cardinality(lost) + Cardinality(gone))
    BY DEF Lose
<1>4. errors + Cardinality(lost) + Cardinality(gone) \in Nat
    BY <1>2
<1>5. /\ reconnectAttempts' \in 0..MaxReconnectAttempts
      /\ timers' \in Nat
      /\ timers' - timers = reconnectAttempts' - reconnectAttempts
      /\ lost # {} /\ timers' = 0 => GaveUp'
    <2>1. lost # {} => Cardinality(lost) > 0
        BY <1>2, FiniteConnections, FS_EmptySet DEF Open, Having
    <2>2. lost # {} => errors + Cardinality(lost) + Cardinality(gone) > 0
        BY <1>2, <2>1
    <2> HIDE DEF gone
    <2> QED
        BY <2>2, <1>3, <1>4, ErrorsCounted
<1>6. failures' = failures + Cardinality(gone)
    BY DEF Lose
<1>7. Connecting' = Connecting \ lost /\ Connecting \cap lost = gone
    BY DEF Lose, Connecting, Having, Open, TypeOK
<1>8. Cardinality(Connecting') = Cardinality(Connecting) - Cardinality(gone)
    <2>1. Cardinality(Connecting \ lost)
             = Cardinality(Connecting) - Cardinality(Connecting \cap lost)
        BY FiniteConnecting, FS_Difference, Zenon
    <2> HIDE DEF gone
    <2> QED
        BY <1>7, <2>1
<1> HIDE DEF gone
<1>9. Account'
    BY <1>1, <1>2, <1>5, <1>6, <1>8, FiniteConnecting DEF Account
<1>10. TypeOK'
    BY <1>1, <1>2, <1>5, <1>6, ConnectionAssumption DEF Lose, TypeOK
<1>11. Trying'
    <2>1. CASE lost # {}
        BY <2>1, <1>5 DEF Trying
    <2>2. CASE lost = {}
        <3>1. status' = status
            BY <2>2 DEF Lose, TypeOK
        <3>2. timers' = 0 => timers = 0 /\ reconnectAttempts' = reconnectAttempts
            <4>1. Cardinality(lost) = 0 /\ Cardinality(gone) = 0
                BY <2>2, FS_EmptySet DEF gone
            <4>2. errors = 0
                BY <4>1
            <4>3. HandleConnectionErrors(0)
                BY <1>3, <4>1, <4>2
            <4>4. reconnectAttempts' = reconnectAttempts
                BY <4>3, ConnectionAssumption
                DEF HandleConnectionErrors, Least, TypeOK
            <4> QED
                BY <4>4, <1>1, <1>5
        <3> QED
            BY <3>1, <3>2 DEF Trying, Open, Connecting, Having, GaveUp
    <2> QED
        BY <2>1, <2>2
<1> QED
    BY <1>9, <1>10, <1>11

\* Every step keeps the account.
LEMMA NextIsGood == IInv /\ [Next]_vars => IInv'
<1> SUFFICES ASSUME IInv, [Next]_vars PROVE IInv'
    OBVIOUS
<1>1. CASE LoseOne
    <2>1. PICK c \in Open : Lose({c}) /\ UNCHANGED brokerUp
        BY <1>1 DEF LoseOne
    <2>2. {c} \in SUBSET Open /\ brokerUp' \in BOOLEAN
        BY <2>1 DEF IInv, TypeOK
    <2> QED
        BY <2>1, <2>2, LoseIsGood
<1>2. CASE BrokerStops
    BY <1>2, LoseIsGood DEF BrokerStops
<1> QED
    BY <1>1, <1>2, ReconnectIsGood, ProviderIsGood, ConsumerIsGood DEF Next

-----------------------------------------------------------------------------
\* The account balances in every reachable state.
THEOREM ConnectionInvariant == Spec => []IInv
    BY InitIsGood, NextIsGood, PTL DEF Spec

\* The provider and the consumer of push-service keep their types; the
\* attempts stay within MAX_RECONNECT_ATTEMPTS.
THEOREM TypeCorrect == Spec => []TypeOK
<1>1. IInv => TypeOK
    BY DEF IInv
<1> QED
    BY <1>1, ConnectionInvariant, PTL

\* No attempt is lost, however losses coincide (rabbitmq.provider.ts:36-44,
\* 69-90): only after as many failures is there nothing left to wait for,
\* once the attempts are used up.
THEOREM EveryAttemptIsMade == Spec => []GivesUpAfterEveryAttempt
<1>1. IInv => GivesUpAfterEveryAttempt
    BY FS_EmptySet, ConnectionAssumption
    DEF IInv, Account, Trying, TypeOK, GaveUp, GivesUpAfterEveryAttempt
<1> QED
    BY <1>1, ConnectionInvariant, PTL

-----------------------------------------------------------------------------
(***************************************************************************)
(* Why ReadyServiceConsumes fails: there is no way back.                   *)
(***************************************************************************)

\* startConsuming has failed, or what it subscribed to is gone.
Deaf ==
    \/ consumer = "failed"
    \/ consumer = "consuming" /\ subscribed \notin Open

\* A name that the service refers to is not given to another connection.
NamesStand ==
    /\ channel # None => status[channel] # "dialing"
    /\ subscribed # None => status[subscribed] # "dialing"

\* Every step keeps the names.
LEMMA NamesStandPreserved ==
    ASSUME TypeOK, NamesStand, [Next]_vars
    PROVE  NamesStand'
<1> USE DEF TypeOK, NamesStand
<1>1. CASE Reconnect
    BY <1>1 DEF Reconnect, Unused, consumerVars
<1>2. ASSUME NEW c \in Connections, ProviderSteps(c) PROVE NamesStand'
    BY <1>2 DEF ProviderSteps, Connected, Refused, Established, consumerVars
<1>3. CASE ConsumerSteps
    BY <1>3 DEF ConsumerSteps, FindChannel, StopWaiting, Subscribed, providerVars,
                Open, Having
<1>4. ASSUME NEW lost, Lose(lost) PROVE NamesStand'
    BY <1>4 DEF Lose
<1>5. CASE BrokerStarts \/ UNCHANGED vars
    BY <1>5 DEF BrokerStarts, vars, providerVars, consumerVars
<1> QED
    BY <1>1, <1>2, <1>3, <1>4, <1>5 DEF Next, LoseOne, BrokerStops

\* No step subscribes again, and none takes this.channel back.
LEMMA NoWayBack ==
    ASSUME TypeOK, NamesStand, IsConnected, Deaf, [Next]_vars
    PROVE  IsConnected' /\ Deaf'
<1> USE DEF TypeOK, IsConnected, Deaf, Open, Having
<1>1. CASE Reconnect
    BY <1>1 DEF Reconnect, consumerVars
<1>2. ASSUME NEW c \in Connections, ProviderSteps(c) PROVE IsConnected' /\ Deaf'
    <2>1. \A k \in Connections : k # None
        BY ConnectionAssumption DEF Connections
    <2>2. IsConnected' /\ UNCHANGED consumerVars
        BY <1>2, <2>1 DEF ProviderSteps, Connected, Refused, Established
    <2>3. \A k \in Open' : k \in Open \/ status[k] = "dialing"
        BY <1>2 DEF ProviderSteps, Connected, Refused, Established
    <2>4. subscribed \in Open' => subscribed # None
        BY <2>1
    <2> QED
        BY <2>2, <2>3, <2>4 DEF consumerVars, NamesStand
<1>3. CASE ConsumerSteps
    BY <1>3 DEF ConsumerSteps, FindChannel, StopWaiting, Subscribed, providerVars
<1>4. ASSUME NEW lost, Lose(lost) PROVE IsConnected' /\ Deaf'
    BY <1>4 DEF Lose
<1>5. CASE BrokerStarts \/ UNCHANGED vars
    BY <1>5 DEF BrokerStarts, vars, providerVars, consumerVars
<1> QED
    BY <1>1, <1>2, <1>3, <1>4, <1>5 DEF Next, LoseOne, BrokerStops

\* A service that answers "Service is ready" when its consumer has failed or
\* has lost its connection goes on to answer so and never consumes again,
\* whatever it reconnects to (rabbitmq.provider.ts:84-90, 256-258,
\* push.consumer.ts:15-21).
THEOREM ReadyAndDeafForGood ==
    Spec => [](IsConnected /\ Deaf => [](IsConnected /\ ~Consuming))
<1> DEFINE Stuck == IsConnected /\ Deaf
<1>1. Init => NamesStand
    BY DEF Init, NamesStand
<1>2. TypeOK /\ NamesStand /\ [Next]_vars => NamesStand'
    BY NamesStandPreserved
<1>3. TypeOK /\ NamesStand /\ Stuck /\ [Next]_vars => Stuck'
    BY NoWayBack
<1>4. Stuck => IsConnected /\ ~Consuming
    BY DEF Deaf, Consuming
<1>5. Stuck <=> IsConnected /\ Deaf
    OBVIOUS
<1> HIDE DEF Stuck
<1> QED
    BY <1>1, <1>2, <1>3, <1>4, <1>5, TypeCorrect, PTL DEF Spec
=============================================================================
