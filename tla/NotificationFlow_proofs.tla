----------------------- MODULE NotificationFlow_proofs -----------------------
(***************************************************************************)
(* The gateway behaves in the composition as it does on its own, so that   *)
(* all that Gateway_proofs shows of it holds here; and what its client was *)
(* told is what becomes of the message.  The induction for the latter has  *)
(* to know where the messages of published requests are (MessagesExist).   *)
(***************************************************************************)
EXTENDS NotificationFlow, Gateway_proofs

MessagesExist == outstanding \cup sent \cup dead = published \cap Followed

FlowInv == FlowTypeOK /\ GatewayInv /\ MessagesExist

-----------------------------------------------------------------------------
\* A step of the composition is, for the gateway, a step or a stutter.
LEMMA FlowStepIsGatewayStep == [FlowNext]_flowVars => [Next]_vars
BY DEF FlowNext, flowVars, PublishStep, StatusStep, GatewayStep, ChannelStep, Next, Execution

\* api-gateway keeps its specification when its messages go into a channel and
\* the channel's statuses come back.
THEOREM FlowContainsTheGateway == FlowSafety => Spec
<1>1. FlowInit => Init
  BY DEF FlowInit
<1>2. QED
  BY <1>1, FlowStepIsGatewayStep, PTL DEF FlowSafety, Spec

\* The channel's part keeps its types.
LEMMA ChannelStaysTyped ==
    ASSUME FlowTypeOK, [FlowNext]_flowVars
    PROVE  Chan!ChannelTypeOK'
<1> USE DEF FlowTypeOK, Chan!ChannelTypeOK, Chan!Statuses
<1>1. ASSUME NEW r \in Requests, PublishStep(r)
      PROVE  Chan!ChannelTypeOK'
  BY <1>1 DEF PublishStep, Chan!Enqueue, channelVars
<1>2. ASSUME NEW r \in Requests, NEW s \in Terminal, StatusStep(r, s)
      PROVE  Chan!ChannelTypeOK'
  BY <1>2 DEF StatusStep, Chan!Tell, channelVars, Terminal
<1>3. CASE ChannelStep
  BY <1>3 DEF ChannelStep, Chan!Send, Chan!GiveUp, Chan!Settle
<1>4. CASE GatewayStep \/ UNCHANGED flowVars
  BY <1>4 DEF GatewayStep, flowVars, channelVars
<1>5. QED
  BY <1>1, <1>2, <1>3, <1>4 DEF FlowNext

\* A message is in the channel exactly from its publication on.
LEMMA MessagesStay ==
    ASSUME FlowInv, [FlowNext]_flowVars
    PROVE  MessagesExist'
<1> USE DEF FlowInv, MessagesExist
<1>1. ASSUME NEW r \in Requests, PublishStep(r)
      PROVE  MessagesExist'
  <2>1. published' = published \/ published' = published \cup {r}
    BY <1>1 DEF PublishStep, Publish, PublishFails
  <2>2. QED
    BY <1>1, <2>1 DEF PublishStep, Chan!Enqueue, channelVars
<1>2. ASSUME NEW r \in Requests, NEW s \in Terminal, StatusStep(r, s)
      PROVE  MessagesExist'
  BY <1>2 DEF StatusStep, PostChannelStatus, serviceVars, Chan!Tell, channelVars
<1>3. CASE ChannelStep
  BY <1>3 DEF ChannelStep, Chan!Send, Chan!GiveUp, Chan!Settle, vars, serviceVars
<1>4. CASE GatewayStep
  <2>1. published' = published
    BY <1>4 DEF GatewayStep, Arrive, CheckIdempotency, ReadCache, Fetch, FillCache,
                CheckPreferences, SetIdempotency, SetPending, RedisFails, PostStatus,
                KeyExpires, CacheExpires, Edit, serviceVars
  <2>2. QED
    BY <1>4, <2>1 DEF GatewayStep, channelVars
<1>5. CASE UNCHANGED flowVars
  BY <1>5 DEF flowVars, vars, serviceVars, channelVars
<1>6. QED
  BY <1>1, <1>2, <1>3, <1>4, <1>5 DEF FlowNext

\* What a channel service does without the gateway, a step of Channel that
\* touches only published messages and reports nothing, is a ChannelStep.
LEMMA ServiceStepsAllowed ==
    ASSUME UNCHANGED <<vars, told>>, [Chan!Next]_(Chan!channelVars),
           outstanding \subseteq published \cap Followed,
           sent' \subseteq published \cap Followed
    PROVE  [FlowNext]_flowVars
<1>1. published' = published
  BY DEF vars, serviceVars
<1>2. ASSUME NEW ms, Chan!Send(ms) PROVE ChannelStep
  <2>1. Chan!Send(sent')
    BY <1>2 DEF Chan!Send
  <2>2. QED
    BY <2>1 DEF ChannelStep
<1>3. ASSUME NEW m \in Followed, Chan!Step(m) PROVE ChannelStep \/ UNCHANGED channelVars
  <2>1. CASE Chan!GiveUp(m) \/ Chan!Settle(m)
    BY <2>1 DEF Chan!GiveUp, Chan!Settle, ChannelStep
  <2>2. CASE Chan!Enqueue(m)
    BY <1>1, <2>2 DEF Chan!Enqueue
  <2>3. CASE Chan!Tell(m, "delivered") \/ Chan!Tell(m, "failed")
    BY <2>3 DEF Chan!Tell, channelVars
  <2>4. QED
    BY <1>3, <2>1, <2>2, <2>3 DEF Chan!Step
<1>4. QED
  BY <1>2, <1>3 DEF Chan!Next, Chan!channelVars, FlowNext, flowVars, channelVars

\* Every reachable state of the composition satisfies FlowInv.
THEOREM FlowInvariant == FlowSafety => []FlowInv
<1>1. FlowInit => Chan!ChannelTypeOK /\ MessagesExist
  BY DEF FlowInit, Init, Chan!Init, Chan!ChannelTypeOK, Chan!Statuses, MessagesExist
<1>2. FlowTypeOK /\ GatewayInv /\ MessagesExist /\ GatewayInv' /\ [FlowNext]_flowVars
        => Chan!ChannelTypeOK' /\ MessagesExist'
  BY ChannelStaysTyped, MessagesStay DEF FlowInv
<1>3. FlowSafety => []GatewayInv
  BY FlowContainsTheGateway, GatewayInvariant, PTL
<1>4. GatewayInv => TypeOK
  BY DEF GatewayInv, CoreInv
<1>5. FlowTypeOK <=> TypeOK /\ Chan!ChannelTypeOK
  BY DEF FlowTypeOK
<1>6. FlowInv <=> FlowTypeOK /\ GatewayInv /\ MessagesExist
  BY DEF FlowInv
<1>7. QED
  BY <1>1, <1>2, <1>3, <1>4, <1>5, <1>6, PTL DEF FlowSafety

\* Gateway, queue and channel keep their variables in their types.
THEOREM FlowTypeCorrect == FlowSafety => []FlowTypeOK
BY FlowInvariant, PTL DEF FlowInv

\* Nothing is ever sent for a request answered with 400 or 404, and the
\* message of one answered with 202 is waiting, sent or given up
\* (notification.service.ts:39-133).
THEOREM AnswersAreOutcomes == FlowSafety => []OutcomeMatchesAnswer
<1>1. FlowInv => OutcomeMatchesAnswer
  BY FlowAssumption
  DEF FlowInv, GatewayInv, CoreInv, ResponsesAreHonest, MessagesExist, OutcomeMatchesAnswer
<1>2. QED
  BY <1>1, FlowInvariant, PTL

-----------------------------------------------------------------------------
\* A step of the composition is, for the channel, a step or a stutter.
LEMMA FlowStepIsChannelStep ==
    ASSUME [FlowNext]_flowVars
    PROVE  [Chan!Next]_(Chan!channelVars)
<1> USE DEF Chan!channelVars, channelVars
<1>1. ASSUME NEW r \in Requests, PublishStep(r)
      PROVE  Chan!Next \/ UNCHANGED Chan!channelVars
  <2>1. CASE r \in published' \cap Followed
    BY <1>1, <2>1 DEF PublishStep, Chan!Next, Chan!Step
  <2>2. CASE r \notin published' \cap Followed
    <3>1. published' = published \/ published' = published \cup {r}
      BY <1>1 DEF PublishStep, Publish, PublishFails
    <3>2. QED
      BY <1>1, <2>2, <3>1 DEF PublishStep
  <2>3. QED
    BY <2>1, <2>2
<1>2. ASSUME NEW r \in Requests, NEW s \in Terminal, StatusStep(r, s)
      PROVE  Chan!Next \/ UNCHANGED Chan!channelVars
  <2>1. published' = published
    BY <1>2 DEF StatusStep, PostChannelStatus, serviceVars
  <2>2. QED
    BY <1>2, <2>1 DEF StatusStep, Terminal, Chan!Next, Chan!Step
<1>3. CASE GatewayStep
  <2>1. published' = published
    BY <1>3 DEF GatewayStep, Arrive, CheckIdempotency, ReadCache, Fetch, FillCache,
                CheckPreferences, SetIdempotency, SetPending, RedisFails, PostStatus,
                KeyExpires, CacheExpires, Edit, serviceVars
  <2>2. QED
    BY <1>3, <2>1 DEF GatewayStep
<1>4. CASE ChannelStep
  BY <1>4 DEF ChannelStep, Chan!Next, Chan!Step
<1>5. CASE UNCHANGED flowVars
  BY <1>5 DEF flowVars, vars, serviceVars
<1>6. QED
  BY <1>1, <1>2, <1>3, <1>4, <1>5 DEF FlowNext

\* Behind the gateway a channel behaves as it is specified: the gateway puts
\* no message twice into its queue, and the services send nothing that is not
\* in it (rabbitmq.service.ts, push and e-mail consumers).
THEOREM FlowContainsTheChannel == FlowSafety => Chan!Spec
<1>1. FlowInit => Chan!Init
  BY DEF FlowInit
<1>2. [FlowNext]_flowVars => [Chan!Next]_(Chan!channelVars)
  BY FlowStepIsChannelStep
<1>3. QED
  BY <1>1, <1>2, PTL DEF FlowSafety, Chan!Spec
=============================================================================
