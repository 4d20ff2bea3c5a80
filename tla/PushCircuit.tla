---------------------------- MODULE PushCircuit ----------------------------
(***************************************************************************)
(* The circuit breaker object of push-service's PushService                *)
(* (push.service.ts:9-17, 203-246): its fields and its three private       *)
(* methods, each of which runs without an await.  PushBreaker studies it   *)
(* under concurrent callers, PushDelivery puts it behind the queue.        *)
(*                                                                         *)
(* Time is kept as `quiet', the ticks since lastFailureTime, which is all  *)
(* that getCircuitState computes from it; it saturates once the timeout    *)
(* has been exceeded.  failures saturates at MaxFailures.                  *)
(***************************************************************************)
EXTENDS Naturals

CONSTANTS
    FAILURE_THRESHOLD,
    TIMEOUT_DURATION,
    HALF_OPEN_MAX_CALLS,
    MaxFailures           \* bound on the failures counter

ASSUME CircuitAssumption ==
    /\ FAILURE_THRESHOLD \in Nat \ {0}
    /\ TIMEOUT_DURATION \in Nat
    /\ HALF_OPEN_MAX_CALLS \in Nat \ {0}
    /\ MaxFailures \in Nat /\ MaxFailures >= FAILURE_THRESHOLD

VARIABLES
    state,          \* circuitBreaker.state
    failures,       \* circuitBreaker.failures
    quiet,          \* now - circuitBreaker.lastFailureTime, saturating
    halfOpenCalls

breakerVars == <<state, failures, quiet, halfOpenCalls>>

States == {"CLOSED", "OPEN", "HALF_OPEN"}

\* Counters are compared with a threshold only, so they may stop at a cap.
AtMost(n, cap) == IF n < cap THEN n ELSE cap
LongAgo == TIMEOUT_DURATION + 1

CircuitTypeOK ==
    /\ state \in States
    /\ failures \in 0..MaxFailures
    /\ quiet \in 0..LongAgo
    /\ halfOpenCalls \in 0..HALF_OPEN_MAX_CALLS

CircuitInit ==
    /\ state = "CLOSED"
    /\ failures = 0
    /\ quiet = LongAgo              \* lastFailureTime: 0
    /\ halfOpenCalls = 0

-----------------------------------------------------------------------------
(* What the three private methods do to the breaker.  A definition named    *)
(* Bug... is a slip that could be made in the one that follows it; no        *)
(* specification uses it, it serves to see that a property notices.          *)

\* What getCircuitState returns, and leaves in circuitBreaker.state.
BugStaysOpen == state
CircuitState ==
    IF state = "OPEN" /\ quiet > TIMEOUT_DURATION THEN "HALF_OPEN" ELSE state

GetCircuitState ==
    /\ state' = CircuitState
    /\ halfOpenCalls' = IF CircuitState = state THEN halfOpenCalls ELSE 0
    /\ UNCHANGED <<failures, quiet>>

\* onSuccess in HALF_OPEN counts a test call; the last one needed closes.
BugOneTooMany == halfOpenCalls > HALF_OPEN_MAX_CALLS
BugFirstTestCallCloses == TRUE
LastTestCall == halfOpenCalls + 1 >= HALF_OPEN_MAX_CALLS

BugCloseKeepsFailures ==
    state' = "CLOSED" /\ halfOpenCalls' = 0 /\ UNCHANGED <<failures, quiet>>
Close ==
    /\ state' = "CLOSED"
    /\ failures' = 0
    /\ quiet' = LongAgo             \* lastFailureTime: 0
    /\ halfOpenCalls' = 0

\* onSuccess in CLOSED.
BugSuccessForgetsNothing == UNCHANGED breakerVars
ForgetFailures == failures' = 0 /\ UNCHANGED <<state, quiet, halfOpenCalls>>

OnSuccess ==
    \/ state = "HALF_OPEN" /\ LastTestCall /\ Close
    \/ /\ state = "HALF_OPEN"
       /\ ~LastTestCall
       /\ halfOpenCalls' = halfOpenCalls + 1
       /\ UNCHANGED <<state, failures, quiet>>
    \/ state = "CLOSED" /\ ForgetFailures
    \/ state = "OPEN" /\ UNCHANGED breakerVars     \* a late answer is ignored

\* The first two assignments of onFailure, made in every state.
BugOpenIgnoresLateFailures ==
    /\ failures' = AtMost(failures + 1, MaxFailures)
    /\ quiet' = IF state = "OPEN" THEN quiet ELSE 0
StampFailure ==
    /\ failures' = AtMost(failures + 1, MaxFailures)
    /\ quiet' = 0

BugReopenKeepsProgress == state' = "OPEN" /\ UNCHANGED halfOpenCalls
Reopen == state' = "OPEN" /\ halfOpenCalls' = 0

OnFailure ==
    /\ StampFailure
    /\ \/ state = "HALF_OPEN" /\ Reopen
       \/ /\ state # "HALF_OPEN"
          /\ state' = IF failures + 1 >= FAILURE_THRESHOLD THEN "OPEN" ELSE state
          /\ UNCHANGED halfOpenCalls
=============================================================================
