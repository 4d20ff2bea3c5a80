----------------------------- MODULE MCEmailFlow -----------------------------
(* EmailFlow for TLC: one message and two faults.                            *)
EXTENDS EmailFlow
CONSTANT m1
MCMessages == {m1}
MCSame == [m \in MCMessages |-> "same"]

\* EmailFlowIsNotificationFlow, which the prover shows for any constants.
IsNotificationFlow == Flow!FlowSafety
=============================================================================
