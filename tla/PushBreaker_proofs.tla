------------------------- MODULE PushBreaker_proofs -------------------------
(***************************************************************************)
(* The breaker's safety, for every number of callers and every threshold.  *)
(* BreakerInv is the inductive invariant: the type invariant, the two      *)
(* safety invariants of PushBreaker, and what ties the breaker's counters  *)
(* to the recorded stream of answers.                                      *)
(***************************************************************************)
EXTENDS PushBreaker, TLAPS

\* While CLOSED the failure count is the run of failed answers; while
\* HALF_OPEN the probes counted are among the run of successful answers; and
\* while not CLOSED lastFailureTime is the time of the last failed answer.
CountersMatchAnswers ==
    /\ state = "CLOSED" => failures = failureRun
    /\ halfOpenCalls <= successRun
    /\ state # "CLOSED" => quiet = silence

BreakerInv ==
    /\ TypeOK
    /\ FailuresMatchState
    /\ HalfOpenProgress
    /\ CountersMatchAnswers

-----------------------------------------------------------------------------
\* The breaker starts CLOSED with nothing counted (push.service.ts:9-17).
LEMMA InitEstablishes == Init => BreakerInv
BY CircuitAssumption DEF Init, CircuitInit, BreakerInv, TypeOK, CircuitTypeOK,
   FailuresMatchState, HalfOpenProgress, CountersMatchAnswers, States, LongAgo

\* A successful answer keeps the invariant, in whatever state it arrives
\* (onSuccess, push.service.ts:217-232).
LEMMA SuccessPreserves ==
    ASSUME BreakerInv, OnSuccess, RecordSuccess,
           call' \in [Calls -> {"idle"} \cup InFlight], failing' \in BOOLEAN
    PROVE  BreakerInv'
<1> USE CircuitAssumption DEF BreakerInv, TypeOK, CircuitTypeOK, FailuresMatchState,
        HalfOpenProgress, CountersMatchAnswers, RecordSuccess, AtMost, States,
        LongAgo, breakerVars, LastTestCall, Close, ForgetFailures
<1>1. CASE state = "HALF_OPEN" /\ LastTestCall
  BY <1>1 DEF OnSuccess
<1>2. CASE state = "HALF_OPEN" /\ ~LastTestCall
  BY <1>2 DEF OnSuccess
<1>3. CASE state = "CLOSED"
  BY <1>3 DEF OnSuccess
<1>4. CASE state = "OPEN"
  BY <1>4 DEF OnSuccess
<1>5. QED
  BY <1>1, <1>2, <1>3, <1>4 DEF OnSuccess

\* A failed answer keeps the invariant, in whatever state it arrives
\* (onFailure, push.service.ts:234-246).
LEMMA FailurePreserves ==
    ASSUME BreakerInv, OnFailure, RecordFailure,
           call' \in [Calls -> {"idle"} \cup InFlight], failing' \in BOOLEAN
    PROVE  BreakerInv'
<1> USE CircuitAssumption DEF BreakerInv, TypeOK, CircuitTypeOK, FailuresMatchState,
        HalfOpenProgress, CountersMatchAnswers, RecordFailure, OnFailure,
        StampFailure, Reopen, AtMost, States, LongAgo
<1>1. CASE state = "HALF_OPEN"
  BY <1>1
<1>2. CASE state = "CLOSED"
  BY <1>2
<1>3. CASE state = "OPEN"
  BY <1>3
<1>4. QED
  BY <1>1, <1>2, <1>3

\* Every step of the breaker keeps the invariant.
LEMMA StepPreserves == BreakerInv /\ [Next]_vars => BreakerInv'
<1> SUFFICES ASSUME BreakerInv, [Next]_vars PROVE BreakerInv'
  OBVIOUS
<1>1. ASSUME NEW c \in Calls, BeginCall(c) PROVE BreakerInv'
  <2>1. TypeOK'
    BY <1>1, CircuitAssumption DEF BeginCall, GetCircuitState, CircuitState,
       BreakerInv, TypeOK, CircuitTypeOK, InFlight, States, historyVars
  <2>2. FailuresMatchState' /\ HalfOpenProgress' /\ CountersMatchAnswers'
    BY <1>1, CircuitAssumption DEF BeginCall, GetCircuitState, CircuitState,
       BreakerInv, TypeOK, CircuitTypeOK, States, historyVars, FailuresMatchState,
       HalfOpenProgress, CountersMatchAnswers
  <2>3. QED
    BY <2>1, <2>2 DEF BreakerInv
<1>2. ASSUME NEW c \in Calls, Resolve(c) PROVE BreakerInv'
  <2>1. call' \in [Calls -> {"idle"} \cup InFlight] /\ failing' \in BOOLEAN
    BY <1>2 DEF Resolve, BreakerInv, TypeOK, CircuitTypeOK
  <2>2. QED
    BY <1>2, <2>1, SuccessPreserves DEF Resolve
<1>3. ASSUME NEW c \in Calls, Reject(c) PROVE BreakerInv'
  <2>1. call' \in [Calls -> {"idle"} \cup InFlight] /\ failing' \in BOOLEAN
    BY <1>3 DEF Reject, BreakerInv, TypeOK, CircuitTypeOK
  <2>2. QED
    BY <1>3, <2>1, FailurePreserves DEF Reject
<1>4. CASE Tick
  BY <1>4, CircuitAssumption DEF Tick, BreakerInv, TypeOK, CircuitTypeOK, AtMost, LongAgo,
     FailuresMatchState, HalfOpenProgress, CountersMatchAnswers
<1>5. CASE ChangeFirebase
  BY <1>5 DEF ChangeFirebase, BreakerInv, TypeOK, CircuitTypeOK, breakerVars, historyVars,
     FailuresMatchState, HalfOpenProgress, CountersMatchAnswers, LongAgo
<1>6. CASE UNCHANGED vars
  BY <1>6 DEF vars, breakerVars, historyVars, BreakerInv, TypeOK, CircuitTypeOK, LongAgo,
     FailuresMatchState, HalfOpenProgress, CountersMatchAnswers
<1>7. QED
  BY <1>1, <1>2, <1>3, <1>4, <1>5, <1>6 DEF Next

\* BreakerInv holds in every reachable state.
THEOREM BreakerInvariant == Spec => []BreakerInv
BY InitEstablishes, StepPreserves, PTL DEF Spec

-----------------------------------------------------------------------------
\* Every variable of the breaker keeps its type.
THEOREM TypeCorrect == Spec => []TypeOK
<1>1. BreakerInv => TypeOK
  BY DEF BreakerInv
<1>2. QED
  BY <1>1, BreakerInvariant, PTL

\* The breaker is CLOSED exactly while fewer than FAILURE_THRESHOLD failures
\* are counted (push.service.ts:217-246).
THEOREM CountsAgree == Spec => []FailuresMatchState
<1>1. BreakerInv => FailuresMatchState
  BY DEF BreakerInv
<1>2. QED
  BY <1>1, BreakerInvariant, PTL

\* Half-open progress stays below its limit and never outlives its half-open
\* period (push.service.ts:203-246).
THEOREM ProgressIsFresh == Spec => []HalfOpenProgress
<1>1. BreakerInv => HalfOpenProgress
  BY DEF BreakerInv
<1>2. QED
  BY <1>1, BreakerInvariant, PTL

\* How a step may change the breaker's state, each transition with the
\* answers that must have preceded it.
Opens == state = "CLOSED" /\ state' # "CLOSED"
           => state' = "OPEN" /\ failureRun' >= FAILURE_THRESHOLD
Probes == state = "OPEN" /\ state' # "OPEN"
            => state' = "HALF_OPEN" /\ silence > TIMEOUT_DURATION
Closes == state # "CLOSED" /\ state' = "CLOSED"
            => state = "HALF_OPEN" /\ successRun' >= HALF_OPEN_MAX_CALLS

\* Every step from a state that satisfies the invariant takes one of the
\* breaker's lawful transitions.
LEMMA LawfulStep ==
    BreakerInv /\ [Next]_vars => [Opens /\ Probes /\ Closes]_vars
<1> SUFFICES ASSUME BreakerInv, Next PROVE Opens /\ Probes /\ Closes
  OBVIOUS
<1> USE CircuitAssumption DEF Opens, Probes, Closes, BreakerInv, TypeOK, CircuitTypeOK, States
<1>1. ASSUME NEW c \in Calls, BeginCall(c) PROVE Opens /\ Probes /\ Closes
  BY <1>1 DEF BeginCall, GetCircuitState, CircuitState, CountersMatchAnswers
<1>2. ASSUME NEW c \in Calls, Resolve(c) PROVE Opens /\ Probes /\ Closes
  BY <1>2 DEF Resolve, OnSuccess, LastTestCall, Close, ForgetFailures,
     RecordSuccess, AtMost, breakerVars,
     CountersMatchAnswers
<1>3. ASSUME NEW c \in Calls, Reject(c) PROVE Opens /\ Probes /\ Closes
  BY <1>3 DEF Reject, OnFailure, StampFailure, Reopen, RecordFailure, AtMost,
     CountersMatchAnswers
<1>4. CASE Tick
  BY <1>4 DEF Tick
<1>5. CASE ChangeFirebase
  BY <1>5 DEF ChangeFirebase, breakerVars
<1>6. QED
  BY <1>1, <1>2, <1>3, <1>4, <1>5 DEF Next

\* The breaker opens only on FAILURE_THRESHOLD consecutive failed answers.
THEOREM OpeningLaw == Spec => OpensOnConsecutiveFailures
<1>1. BreakerInv /\ [Next]_vars => [Opens]_vars
  BY LawfulStep
<1>2. Spec => [][Opens]_vars
  BY <1>1, BreakerInvariant, PTL DEF Spec
<1>3. QED
  BY <1>2 DEF OpensOnConsecutiveFailures, Opens

\* The breaker leaves OPEN only for HALF_OPEN, after the timeout's silence.
THEOREM ProbingLaw == Spec => ProbesAfterSilence
<1>1. BreakerInv /\ [Next]_vars => [Probes]_vars
  BY LawfulStep
<1>2. Spec => [][Probes]_vars
  BY <1>1, BreakerInvariant, PTL DEF Spec
<1>3. QED
  BY <1>2 DEF ProbesAfterSilence, Probes

\* The breaker closes only on HALF_OPEN_MAX_CALLS consecutive successes.
THEOREM ClosingLaw == Spec => ClosesOnSuccesses
<1>1. BreakerInv /\ [Next]_vars => [Closes]_vars
  BY LawfulStep
<1>2. Spec => [][Closes]_vars
  BY <1>1, BreakerInvariant, PTL DEF Spec
<1>3. QED
  BY <1>2 DEF ClosesOnSuccesses, Closes
=============================================================================
