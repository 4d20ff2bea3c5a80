----------------------------- MODULE MCPushFlow -----------------------------
(* PushFlow for TLC: one message, pushed by the consumer or by an HTTP       *)
(* caller.                                                                   *)
EXTENDS PushFlow
CONSTANT m1
MCMessages == {m1}
MCKeyOf == [m \in MCMessages |-> "key"]

\* PushFlowIsNotificationFlow, which the prover shows for any constants.
IsNotificationFlow == Flow!FlowSafety
=============================================================================
