-------------------------- MODULE MCEmailConsumer --------------------------
(* Two e-mails with one correlation id, as a client may send them, and no    *)
(* template_id, as the gateway publishes them, so that both use the cache's  *)
(* entry for `undefined'; one body cannot be rendered, or both can.           *)
EXTENDS EmailConsumer

CONSTANTS m1, m2

MCMessages == {m1, m2}
MCCorrelationOf == [m \in MCMessages |-> "id"]
MCTemplateOf == [m \in MCMessages |-> "undefined"]
MCBodyOf == [m \in MCMessages |-> IF m = m1 THEN "good" ELSE "bad"]
MCBroken == MCMessages \X {"bad"}
MCGoodBodies == [m \in MCMessages |-> IF m = m1 THEN "good" ELSE "other"]
MCIds == [m \in MCMessages |-> IF m = m1 THEN "id1" ELSE "id2"]
=============================================================================
