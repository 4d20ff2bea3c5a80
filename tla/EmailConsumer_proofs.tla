------------------------ MODULE EmailConsumer_proofs ------------------------
(***************************************************************************)
(* For any messages, correlation ids, attempts and faults: what is         *)
(* acknowledged was sent, a delivery makes at most one e-mail, and         *)
(* email-service implements Channel.                                       *)
(*                                                                         *)
(* The properties compare the broker with the SMTP server, which meet in   *)
(* the handler only.  The induction needs what the handler's phase says    *)
(* about either: it holds its message while the connection lasts           *)
(* (HandlerHolds), a message that can be delivered has neither handler nor *)
(* a send under way (ReadyIsIdle), and a handler that has not sent yet has *)
(* an e-mail to its credit (MayMail).                                      *)
(***************************************************************************)
EXTENDS EmailFlow, TLAPS

\* A handler past the SMTP server's answer has an e-mail to show, and so has
\* every key in Redis.
SentBeforeAck ==
    \A m \in Messages :
        pc[m] \in {"accepted", "succeeded", "marking", "acked"} => emails[m] > 0

ProcessedWasSent ==
    \A c \in processed : \E k \in Messages : CorrelationOf[k] = c /\ emails[k] > 0

DeliveredWasSent ==
    \A m \in Messages : posted[m] = "delivered" => emails[m] > 0

\* The broker's view and the handlers'.
Holding == {"checking", "attempting", "sending", "accepted", "succeeded", "failed"}

HandlerHolds ==
    \A m \in Messages : connected /\ pc[m] \in Holding => broker[m] = "unacked"

ReadyIsIdle ==
    \A m \in Messages :
        broker[m] = "absent" \/ (connected /\ broker[m] = "ready")
            => pc[m] = "idle" /\ m \notin mailing

MayMail ==
    \A m \in Messages :
        pc[m] \in {"checking", "attempting"}
            => m \notin mailing /\ emails[m] < deliveries[m]

Sending == SentBeforeAck /\ ProcessedWasSent /\ DeliveredWasSent /\ AckedWasSent
Holdings == HandlerHolds /\ ReadyIsIdle
Mails == MayMail /\ OneEmailPerDelivery

EmailInv == TypeOK /\ Sending /\ Holdings /\ Mails

-----------------------------------------------------------------------------
\* A new process starts with idle handlers, and the broker has each message
\* somewhere.
LEMMA NewProcessTyped ==
    /\ ProcessStarts.pc \in [Messages -> Phases]
    /\ ProcessStarts.attempt \in [Messages -> 1..MaxAttempts]
    /\ ProcessStarts.cache \in [Templates -> Bodies \cup {NoBody}]
    /\ TypeOK => Requeued \in [Messages -> BrokerStates]
<1>1. ProcessStarts.pc = [m \in Messages |-> "idle"]
  BY DEF ProcessStarts
<1>2. ProcessStarts.attempt = [m \in Messages |-> 1]
  BY DEF ProcessStarts
<1>3. ProcessStarts.cache = [t \in Templates |-> NoBody]
  BY DEF ProcessStarts
<1>4. TypeOK => Requeued \in [Messages -> BrokerStates]
  BY DEF TypeOK, Requeued, BrokerStates
<1>5. QED
  BY <1>1, <1>2, <1>3, <1>4, EmailAssumption DEF Phases

\* Nothing was delivered or sent yet.
LEMMA EmailInitially == Init => EmailInv
<1> SUFFICES ASSUME Init PROVE EmailInv
  OBVIOUS
<1>1. TypeOK
  <2>1. broker \in [Messages -> BrokerStates] /\ posted \in [Messages -> {"none", "delivered", "failed"}]
    BY DEF Init, BrokerStates
  <2>2. emails \in [Messages -> Nat] /\ deliveries \in [Messages -> Nat]
    BY DEF Init
  <2>3. faults \in 0..MaxFaults
    BY EmailAssumption DEF Init
  <2>4. QED
    BY <2>1, <2>2, <2>3, NewProcessTyped DEF Init, TypeOK
<1> USE DEF Init, ProcessStarts
<1>2. Sending
  BY DEF Sending, SentBeforeAck, ProcessedWasSent, DeliveredWasSent, AckedWasSent
<1>3. Holdings /\ Mails
  BY DEF Holdings, HandlerHolds, Holding, ReadyIsIdle, Mails, MayMail, OneEmailPerDelivery
<1>4. QED
  BY <1>1, <1>2, <1>3 DEF EmailInv

\* What Sending, Holdings and Mails say of a step that leaves their variables
\* alone.
LEMMA SendingStable ==
    ASSUME Sending, UNCHANGED <<pc, emails, processed, posted, broker>>
    PROVE  Sending'
BY DEF Sending, SentBeforeAck, ProcessedWasSent, DeliveredWasSent, AckedWasSent

\* A message comes into the queue.
LEMMA ArrivePreserves ==
    ASSUME EmailInv, NEW m \in Messages, Arrive(m)
    PROVE  EmailInv'
<1> USE DEF EmailInv, Arrive, Settle, circuitVars, historyVars
<1>1. TypeOK'
  BY DEF TypeOK, BrokerStates
<1>2. Sending'
  BY DEF TypeOK, Sending, SentBeforeAck, ProcessedWasSent, DeliveredWasSent, AckedWasSent
<1>3. Holdings'
  BY DEF TypeOK, Holdings, HandlerHolds, Holding, ReadyIsIdle
<1>4. Mails'
  BY DEF Mails, MayMail, OneEmailPerDelivery
<1>5. QED
  BY <1>1, <1>2, <1>3, <1>4

\* The broker hands a message to a new handler (email.consumer.ts:58-66).
LEMMA DeliverPreserves ==
    ASSUME EmailInv, NEW m \in Messages, Deliver(m)
    PROVE  EmailInv'
<1> USE DEF EmailInv, Deliver, Settle, Phase, circuitVars
<1>1. TypeOK'
  BY DEF TypeOK, BrokerStates, Phases
<1>2. Sending'
  BY DEF TypeOK, Sending, SentBeforeAck, ProcessedWasSent, DeliveredWasSent, AckedWasSent
<1>3. Holdings'
  BY DEF TypeOK, Holdings, HandlerHolds, Holding, ReadyIsIdle
<1>4. Mails'
  BY DEF TypeOK, Mails, MayMail, OneEmailPerDelivery, Holdings, ReadyIsIdle
<1>5. QED
  BY <1>1, <1>2, <1>3, <1>4

\* The broker has every message somewhere after the loss of a connection too.
LEMMA ConnectionLostTyped ==
    ASSUME TypeOK, ConnectionLost
    PROVE  broker' \in [Messages -> BrokerStates] /\ faults' \in 0..MaxFaults
<1>1. broker' \in [Messages -> BrokerStates]
  BY NewProcessTyped DEF ConnectionLost
<1>2. faults \in 0..MaxFaults /\ faults < MaxFaults /\ faults' = faults + 1
  BY DEF ConnectionLost, TypeOK
<1>3. QED
  BY <1>1, <1>2, EmailAssumption

\* An acknowledgement or a nack: it arrives, it is lost with the connection, or
\* the dead channel throws.
LEMMA SettlePreserves ==
    ASSUME EmailInv, NEW m \in Messages,
           NEW outcome \in {"acked", "dropped"}, NEW phase \in {"idle", "marking", "nacked"},
           SettleThen(m, outcome, phase),
           phase = "marking" => emails[m] > 0,
           outcome = "acked" =>
              \E k \in Messages : CorrelationOf[k] = CorrelationOf[m] /\ emails[k] > 0,
           pc[m] \in {"checking", "succeeded", "failed"},
           UNCHANGED <<attempt, processed, templateCache, mailing, circuitVars, posted,
                       emails, rendered, deliveries, unheard>>
    PROVE  EmailInv'
<1> USE DEF EmailInv, Phase, circuitVars
<1>1. CASE connected /\ ConnectionLost /\ Phase(m, phase)
  <2>1. TypeOK'
    BY <1>1, ConnectionLostTyped DEF ConnectionLost, TypeOK, Phases
  <2> USE <1>1 DEF ConnectionLost, Requeued
  <2>2. Sending'
    BY DEF TypeOK, Sending, SentBeforeAck, ProcessedWasSent, DeliveredWasSent, AckedWasSent
  <2>3. Holdings'
    BY DEF TypeOK, Holdings, HandlerHolds, ReadyIsIdle
  <2>4. Mails'
    BY DEF TypeOK, Mails, MayMail, OneEmailPerDelivery
  <2>5. QED
    BY <2>1, <2>2, <2>3, <2>4
<1>2. CASE \/ connected /\ Settle(m, outcome) /\ Phase(m, phase)
              /\ UNCHANGED <<connected, faults>>
           \/ ~connected /\ Phase(m, "caught") /\ UNCHANGED <<brokerVars, faults>>
  <2> USE <1>2 DEF Settle, brokerVars
  <2>1. TypeOK'
    BY DEF TypeOK, BrokerStates, Phases
  <2>2. Sending'
    BY DEF TypeOK, Sending, SentBeforeAck, ProcessedWasSent, DeliveredWasSent, AckedWasSent
  <2>3. Holdings'
    BY DEF TypeOK, Holdings, HandlerHolds, Holding, ReadyIsIdle
  <2>4. Mails'
    BY DEF TypeOK, Mails, MayMail, OneEmailPerDelivery
  <2>5. QED
    BY <2>1, <2>2, <2>3, <2>4
<1>3. QED
  BY <1>1, <1>2 DEF SettleThen

\* checkDuplicate and what follows it (email.consumer.ts:83-89).
LEMMA CheckDuplicatePreserves ==
    ASSUME EmailInv, NEW m \in Messages, CheckDuplicate(m)
    PROVE  EmailInv'
<1>1. CASE FoundProcessed(m) /\ AckThen(m, "idle")
  <2>1. \E k \in Messages : CorrelationOf[k] = CorrelationOf[m] /\ emails[k] > 0
    BY <1>1 DEF FoundProcessed, EmailInv, Sending, ProcessedWasSent
  <2>2. QED
    BY <1>1, <2>1, SettlePreserves DEF CheckDuplicate, AckThen
<1>2. CASE Phase(m, "attempting") /\ UNCHANGED <<brokerVars, faults>>
  <2> USE <1>2 DEF EmailInv, CheckDuplicate, Phase, brokerVars, circuitVars
  <2>1. TypeOK'
    BY DEF TypeOK, Phases
  <2>2. Sending'
    BY DEF TypeOK, Sending, SentBeforeAck, ProcessedWasSent, DeliveredWasSent, AckedWasSent
  <2>3. Holdings'
    BY DEF TypeOK, Holdings, HandlerHolds, Holding, ReadyIsIdle
  <2>4. Mails'
    BY DEF TypeOK, Mails, MayMail, OneEmailPerDelivery
  <2>5. QED
    BY <2>1, <2>2, <2>3, <2>4
<1>3. QED
  BY <1>1, <1>2 DEF CheckDuplicate

\* The cache keeps bodies of messages.
LEMMA CompiledTyped ==
    ASSUME TypeOK, NEW m \in Messages
    PROVE  /\ Compiled(m) \in Bodies
           /\ [templateCache EXCEPT ![TemplateOf[m]] = Compiled(m)]
                 \in [Templates -> Bodies \cup {NoBody}]
<1>1. TemplateOf[m] \in Templates /\ BodyOf[m] \in Bodies
  BY DEF Templates, Bodies
<1>2. QED
  BY <1>1 DEF TypeOK, Compiled

\* compileTemplate, renderTemplate and sendEmail up to its await
\* (email.consumer.ts:144-195).
LEMMA AttemptPreserves ==
    ASSUME EmailInv, NEW m \in Messages, Attempt(m)
    PROVE  EmailInv'
<1> USE DEF EmailInv, Attempt, brokerVars, historyVars
<1>1. /\ pc[m] = "attempting"
      /\ templateCache' \in [Templates -> Bodies \cup {NoBody}]
      /\ rendered' \in [Messages -> Bodies \cup {NoBody}]
      /\ UNCHANGED <<broker, connected, processed, posted, emails, deliveries, faults, unheard>>
  BY CompiledTyped DEF TypeOK
<1>2. PICK phase \in {"attempting", "failed", "sending"} :
         /\ pc' = [pc EXCEPT ![m] = phase]
         /\ mailing' = IF phase = "sending" THEN mailing \cup {m} ELSE mailing
  BY DEF RetryOrFail, Phase, TypeOK
<1>3. attempt' \in [Messages -> 1..MaxAttempts]
  <2>1. attempt[m] < MaxAttempts => attempt[m] + 1 \in 1..MaxAttempts
    BY EmailAssumption DEF TypeOK
  <2>2. QED
    BY <2>1 DEF TypeOK, RetryOrFail
<1>4. circuit' \in {"closed", "open", "halfOpen"} /\ pendingClose' \in BOOLEAN
  BY DEF TypeOK, circuitVars, FireBegins
<1> HIDE DEF Attempt
<1>5. TypeOK'
  BY <1>1, <1>2, <1>3, <1>4 DEF TypeOK, Phases
<1>6. Sending'
  BY <1>1, <1>2
  DEF TypeOK, Sending, SentBeforeAck, ProcessedWasSent, DeliveredWasSent, AckedWasSent
<1>7. Holdings'
  BY <1>1, <1>2 DEF TypeOK, Holdings, HandlerHolds, Holding, ReadyIsIdle
<1>8. Mails'
  BY <1>1, <1>2 DEF TypeOK, Mails, MayMail, OneEmailPerDelivery
<1>9. QED
  BY <1>5, <1>6, <1>7, <1>8

-----------------------------------------------------------------------------
(* The SMTP server and the breaker.                                         *)

\* The SMTP server takes the e-mail.
LEMMA SmtpAcceptsPreserves ==
    ASSUME EmailInv, NEW m \in Messages, SmtpAccepts(m)
    PROVE  EmailInv'
<1> USE DEF EmailInv, SmtpAccepts, Phase, circuitVars, brokerVars
<1>1. TypeOK'
  BY DEF TypeOK, Phases
<1>2. \A k \in Messages : emails[k] > 0 => emails'[k] > 0
  BY DEF TypeOK
<1>3. emails'[m] > 0
  BY DEF TypeOK
<1>4. Sending'
  BY <1>2, <1>3
  DEF TypeOK, Sending, SentBeforeAck, ProcessedWasSent, DeliveredWasSent, AckedWasSent
<1>5. Holdings'
  BY DEF TypeOK, Holdings, HandlerHolds, Holding, ReadyIsIdle
<1>6. Mails'
  BY DEF TypeOK, Mails, MayMail, OneEmailPerDelivery
<1>7. QED
  BY <1>1, <1>4, <1>5, <1>6

\* A send ends without success for its handler, or its answer for nobody; the
\* breaker notes it.
LEMMA SendEndsPreserves ==
    ASSUME EmailInv, NEW m \in Messages,
           SmtpRejects(m) \/ SendTimesOut(m) \/ SendSucceeds(m)
    PROVE  EmailInv'
<1> USE DEF EmailInv, SmtpRejects, SendTimesOut, SendSucceeds, SendFails, Phase,
            brokerVars, historyVars
<1>1. TypeOK'
  BY DEF TypeOK, Phases, FireFailed, FireSucceeded, circuitVars
<1>2. Sending'
  BY DEF TypeOK, Sending, SentBeforeAck, ProcessedWasSent, DeliveredWasSent, AckedWasSent
<1>3. Holdings'
  BY DEF TypeOK, Holdings, HandlerHolds, Holding, ReadyIsIdle
<1>4. Mails'
  BY DEF TypeOK, Mails, MayMail, OneEmailPerDelivery
<1>5. QED
  BY <1>1, <1>2, <1>3, <1>4

-----------------------------------------------------------------------------
(* The rest of processMessage (email.consumer.ts:103-141).                   *)

\* The acknowledgement of a success.
LEMMA AckSuccessPreserves ==
    ASSUME EmailInv, NEW m \in Messages, AckSuccess(m)
    PROVE  EmailInv'
<1>1. emails[m] > 0
  BY DEF AckSuccess, EmailInv, Sending, SentBeforeAck
<1>2. QED
  BY <1>1, SettlePreserves DEF AckSuccess, AckThen

\* The key in Redis.
LEMMA MarkPreserves ==
    ASSUME EmailInv, NEW m \in Messages, MarkAsProcessed(m)
    PROVE  EmailInv'
<1> USE DEF EmailInv, MarkAsProcessed, MarkFails, Phase, brokerVars, circuitVars,
            historyVars
<1>1. TypeOK'
  BY DEF TypeOK, Phases, Correlations
<1>2. Sending'
  BY DEF TypeOK, Sending, SentBeforeAck, ProcessedWasSent, DeliveredWasSent, AckedWasSent
<1>3. Holdings'
  BY DEF TypeOK, Holdings, HandlerHolds, Holding, ReadyIsIdle
<1>4. Mails'
  BY DEF TypeOK, Mails, MayMail, OneEmailPerDelivery
<1>5. QED
  BY <1>1, <1>2, <1>3, <1>4

\* The nack of a failure.
LEMMA NackPreserves ==
    ASSUME EmailInv, NEW m \in Messages, NackFailure(m)
    PROVE  EmailInv'
BY SettlePreserves DEF NackFailure, NackThen

\* The three status posts.
LEMMA ReportPreserves ==
    ASSUME EmailInv, NEW m \in Messages,
           ReportDelivered(m) \/ ReportFailed(m) \/ ReportCaught(m)
    PROVE  EmailInv'
<1> USE DEF EmailInv, ReportDelivered, ReportFailed, ReportCaught, Report, PostArrives,
            PostLost, Phase, brokerVars, circuitVars
<1>1. TypeOK'
  BY DEF TypeOK, Phases
<1>2. Sending'
  BY DEF TypeOK, Sending, SentBeforeAck, ProcessedWasSent, DeliveredWasSent, AckedWasSent
<1>3. Holdings'
  BY DEF TypeOK, Holdings, HandlerHolds, Holding, ReadyIsIdle
<1>4. Mails'
  BY DEF TypeOK, Mails, MayMail, OneEmailPerDelivery
<1>5. QED
  BY <1>1, <1>2, <1>3, <1>4

\* A lost connection: handlers go on, but hold nothing any more.
LEMMA LoseConnectionPreserves ==
    ASSUME EmailInv, LoseConnection
    PROVE  EmailInv'
<1>1. TypeOK'
  BY ConnectionLostTyped DEF EmailInv, LoseConnection, ConnectionLost, TypeOK, circuitVars
<1> USE DEF EmailInv, LoseConnection, ConnectionLost, Requeued, circuitVars
<1>2. Sending'
  BY DEF TypeOK, Sending, SentBeforeAck, ProcessedWasSent, DeliveredWasSent, AckedWasSent
<1>3. Holdings' /\ Mails'
  BY DEF Holdings, HandlerHolds, ReadyIsIdle, Mails, MayMail, OneEmailPerDelivery
<1>4. QED
  BY <1>1, <1>2, <1>3

\* A new process, whatever ended the old one.
LEMMA NewProcessPreserves ==
    ASSUME EmailInv, NewProcess, faults' \in 0..MaxFaults
    PROVE  EmailInv'
<1>1. TypeOK'
  BY NewProcessTyped DEF EmailInv, NewProcess, TypeOK
<1> USE DEF EmailInv, NewProcess, Requeued, ProcessStarts
<1>2. Sending'
  BY DEF TypeOK, Sending, SentBeforeAck, ProcessedWasSent, DeliveredWasSent, AckedWasSent
<1>3. Holdings' /\ MayMail'
  BY DEF Holdings, HandlerHolds, Holding, ReadyIsIdle, MayMail
<1>4. OneEmailPerDelivery'
  BY DEF TypeOK, Mails, OneEmailPerDelivery
<1>5. QED
  BY <1>1, <1>2, <1>3, <1>4 DEF Mails

\* Every step of email-service keeps the invariant.
LEMMA StepPreserves == EmailInv /\ [Next]_vars => EmailInv'
<1> SUFFICES ASSUME EmailInv, [Next]_vars PROVE EmailInv'
  OBVIOUS
<1>1. ASSUME NEW m \in Messages, HandlerStep(m) PROVE EmailInv'
  <2>1. CASE Rethrow(m)
    BY <2>1, NewProcessPreserves DEF Rethrow, EmailInv, TypeOK
  <2>2. QED
    BY <1>1, <2>1, DeliverPreserves, CheckDuplicatePreserves, AttemptPreserves,
       SendEndsPreserves, AckSuccessPreserves, MarkPreserves, NackPreserves,
       ReportPreserves DEF HandlerStep, HandlerWork
<1>2. CASE CircuitHalfOpens
  <2>1. TypeOK'
    BY <1>2 DEF CircuitHalfOpens, EmailInv, TypeOK, brokerVars, historyVars
  <2>2. QED
    BY <1>2, <2>1, SendingStable
    DEF CircuitHalfOpens, EmailInv, brokerVars, historyVars, Holdings, HandlerHolds,
        ReadyIsIdle, Mails, MayMail, OneEmailPerDelivery
<1>3. CASE Restart
  BY <1>3, NewProcessPreserves, EmailAssumption DEF Restart, EmailInv, TypeOK
<1>4. CASE UNCHANGED vars
  <2> USE <1>4 DEF vars, brokerVars, circuitVars, historyVars
  <2>1. TypeOK'
    BY DEF EmailInv, TypeOK
  <2>2. QED
    BY <2>1, SendingStable
    DEF EmailInv, Holdings, HandlerHolds, ReadyIsIdle, Mails, MayMail,
        OneEmailPerDelivery
<1>5. QED
  BY <1>1, <1>2, <1>3, <1>4, ArrivePreserves, SmtpAcceptsPreserves, SendEndsPreserves,
     LoseConnectionPreserves DEF Next, SmtpStep

-----------------------------------------------------------------------------
\* EmailInv holds in every reachable state of email-service.
THEOREM EmailInvariant == Spec => []EmailInv
BY EmailInitially, StepPreserves, PTL DEF Spec

\* Every variable of the e-mail model keeps its type; no handler exceeds its
\* attempts (email.consumer.ts:177).
THEOREM TypeCorrect == Spec => []TypeOK
<1>1. EmailInv => TypeOK
  BY DEF EmailInv
<1>2. QED
  BY <1>1, EmailInvariant, PTL

\* What is acknowledged was sent, by this message or one with its correlation
\* id (email.consumer.ts:83-107, 198-221).
THEOREM AcknowledgedWasSent == Spec => []AckedWasSent
<1>1. EmailInv => AckedWasSent
  BY DEF EmailInv, Sending
<1>2. QED
  BY <1>1, EmailInvariant, PTL

\* One delivery makes at most one e-mail (email.consumer.ts:144-195).
THEOREM AtMostOneEmail == Spec => []OneEmailPerDelivery
<1>1. EmailInv => OneEmailPerDelivery
  BY DEF EmailInv, Mails
<1>2. QED
  BY <1>1, EmailInvariant, PTL

-----------------------------------------------------------------------------
(* What it takes to mail a message twice.                                   *)

\* The broker delivers a message once, and once more for every fault: only a
\* fault puts an unacknowledged message back, and the exception that ends a
\* process after a lost connection finds none to put back.
FaultsExplainDeliveries ==
    \A m \in Messages :
        /\ deliveries[m] + (IF broker[m] = "ready" THEN 1 ELSE 0) <= faults + 1
        /\ broker[m] = "absent" => deliveries[m] = 0
        /\ ~connected => broker[m] # "unacked"

\* Every step keeps the deliveries within the faults.
LEMMA FaultsPreserved ==
    ASSUME EmailInv, FaultsExplainDeliveries, [Next]_vars
    PROVE  FaultsExplainDeliveries'
<1>1. CASE \E m \in Messages : Arrive(m)
  BY <1>1 DEF Arrive, Settle, historyVars, EmailInv, TypeOK, FaultsExplainDeliveries
<1>2. CASE \E m \in Messages : Deliver(m)
  BY <1>2 DEF Deliver, Settle, EmailInv, TypeOK, FaultsExplainDeliveries
<1>3. CASE LoseConnection \/ Restart
  BY <1>3
  DEF LoseConnection, ConnectionLost, Restart, NewProcess, Requeued, EmailInv, TypeOK,
      FaultsExplainDeliveries
<1>4. CASE \E m \in Messages : Rethrow(m)
  BY <1>4 DEF Rethrow, NewProcess, Requeued, EmailInv, TypeOK, FaultsExplainDeliveries
<1>5. ASSUME NEW m \in Messages, AckSuccess(m) \/ CheckDuplicate(m) \/ NackFailure(m)
      PROVE  FaultsExplainDeliveries'
  BY <1>5
  DEF AckSuccess, CheckDuplicate, NackFailure, AckThen, NackThen, SettleThen, Settle,
      ConnectionLost, Requeued, brokerVars, EmailInv, TypeOK, FaultsExplainDeliveries
<1>6. ASSUME NEW m \in Messages,
             \/ Attempt(m) \/ SmtpStep(m) \/ SendTimesOut(m) \/ SendSucceeds(m)
             \/ MarkAsProcessed(m) \/ ReportDelivered(m) \/ ReportFailed(m)
             \/ ReportCaught(m)
      PROVE  UNCHANGED <<brokerVars, deliveries, faults>>
  BY <1>6
  DEF Attempt, SmtpStep, SmtpAccepts, SmtpRejects, SendTimesOut, SendSucceeds,
      MarkAsProcessed, ReportDelivered, ReportFailed, ReportCaught, Report, historyVars
<1>7. CASE CircuitHalfOpens \/ UNCHANGED vars
  BY <1>7 DEF CircuitHalfOpens, vars, brokerVars, historyVars, FaultsExplainDeliveries
<1>8. QED
  BY <1>1, <1>2, <1>3, <1>4, <1>5, <1>6, <1>7
  DEF Next, HandlerStep, HandlerWork, brokerVars, FaultsExplainDeliveries

\* FaultsExplainDeliveries holds in every reachable state of email-service.
THEOREM FaultsInvariant == Spec => []FaultsExplainDeliveries
<1>1. Init => FaultsExplainDeliveries
  <2> SUFFICES ASSUME Init, NEW m \in Messages
               PROVE  /\ deliveries[m] + (IF broker[m] = "ready" THEN 1 ELSE 0) <= faults + 1
                      /\ broker[m] = "absent" => deliveries[m] = 0
                      /\ ~connected => broker[m] # "unacked"
    BY DEF FaultsExplainDeliveries
  <2>1. deliveries[m] = 0 /\ faults = 0 /\ broker[m] = "absent" /\ connected
    BY DEF Init
  <2>2. QED
    BY <2>1
<1>2. QED
  BY <1>1, FaultsPreserved, EmailInvariant, PTL DEF Spec

\* However many attempts, timeouts and rejections a message meets, another
\* e-mail of it takes a fault (email.consumer.ts:83-142, email.service.ts:57-73).
THEOREM DuplicateEmailsNeedFaults == Spec => []DuplicatesNeedFaults
<1>1. EmailInv /\ FaultsExplainDeliveries => DuplicatesNeedFaults
  <2> SUFFICES ASSUME EmailInv, FaultsExplainDeliveries, NEW m \in Messages
               PROVE  emails[m] <= faults + 1
    BY DEF DuplicatesNeedFaults
  <2>1. emails[m] \in Nat /\ deliveries[m] \in Nat /\ faults \in Nat
    BY EmailAssumption DEF EmailInv, TypeOK
  <2>2. emails[m] <= deliveries[m]
    BY <2>1 DEF EmailInv, Mails, OneEmailPerDelivery
  <2>3. deliveries[m] <= faults + 1
    BY <2>1 DEF FaultsExplainDeliveries
  <2>4. QED
    BY <2>1, <2>2, <2>3
<1>2. QED
  BY <1>1, FaultsInvariant, EmailInvariant, PTL

-----------------------------------------------------------------------------
(* Once a message is acknowledged.                                          *)

\* An acknowledged message has no handler but the one that finishes its
\* success.  (The converse fails: an acknowledgement that is lost with the
\* connection does not stop its handler.)
AckedIsDone ==
    \A m \in Messages : broker[m] = "acked" => pc[m] \in {"idle", "marking", "acked"}

\* Every step keeps it: an acknowledged message never comes back.
LEMMA AckedIsDonePreserved ==
    ASSUME EmailInv, AckedIsDone, [Next]_vars
    PROVE  AckedIsDone'
<1> USE DEF EmailInv, TypeOK, AckedIsDone
<1>1. CASE \E m \in Messages : Arrive(m) \/ Deliver(m)
  BY <1>1 DEF Arrive, Deliver, Settle, Phase, Holdings, ReadyIsIdle
<1>2. CASE LoseConnection \/ Restart \/ \E m \in Messages : Rethrow(m)
  BY <1>2, NewProcessTyped
  DEF LoseConnection, ConnectionLost, Restart, Rethrow, NewProcess, Requeued, ProcessStarts
<1>3. ASSUME NEW m \in Messages, AckSuccess(m) \/ CheckDuplicate(m) \/ NackFailure(m)
      PROVE  AckedIsDone'
  BY <1>3
  DEF AckSuccess, CheckDuplicate, NackFailure, AckThen, NackThen, SettleThen, Settle,
      ConnectionLost, Requeued, brokerVars, Phase
<1>4. ASSUME NEW m \in Messages,
             \/ Attempt(m) \/ SmtpStep(m) \/ SendTimesOut(m) \/ SendSucceeds(m)
      PROVE  AckedIsDone'
  BY <1>4
  DEF Attempt, RetryOrFail, SmtpStep, SmtpAccepts, SmtpRejects, SendTimesOut,
      SendSucceeds, SendFails, Phase, brokerVars, historyVars
<1>5. ASSUME NEW m \in Messages,
             \/ MarkAsProcessed(m) \/ ReportDelivered(m) \/ ReportFailed(m)
             \/ ReportCaught(m)
      PROVE  AckedIsDone'
  BY <1>5
  DEF MarkAsProcessed, MarkFails, ReportDelivered, ReportFailed, ReportCaught, Report,
      Phase, brokerVars, historyVars
<1>6. CASE CircuitHalfOpens \/ UNCHANGED vars
  BY <1>6 DEF CircuitHalfOpens, vars, brokerVars
<1>7. QED
  BY <1>1, <1>2, <1>3, <1>4, <1>5, <1>6 DEF Next, HandlerStep, HandlerWork

\* Of an acknowledged message the gateway is told no failure any more: what it
\* heard last stays, or is followed by "delivered".
NoFailureOnceAcked ==
    [][\A m \in Messages : broker[m] = "acked" => posted'[m] \in {posted[m], "delivered"}]_vars

\* The safety half of SuccessIsReported, over lost posts, acknowledgements and
\* connections, and over restarts (email.consumer.ts:103-141).
THEOREM AcknowledgedIsNeverFailed == Spec => NoFailureOnceAcked
<1> DEFINE Kept ==
      \A m \in Messages : broker[m] = "acked" => posted'[m] \in {posted[m], "delivered"}
<1>1. Init => AckedIsDone
  BY DEF Init, AckedIsDone
<1>2. ASSUME EmailInv, AckedIsDone, [Next]_vars PROVE [Kept]_vars
  <2>1. ASSUME NEW m \in Messages,
               ReportDelivered(m) \/ ReportFailed(m) \/ ReportCaught(m)
        PROVE  Kept
    BY <1>2, <2>1
    DEF ReportDelivered, ReportFailed, ReportCaught, Report, PostArrives, PostLost,
        AckedIsDone, EmailInv, TypeOK
  <2>2. UNCHANGED posted \/ \E m \in Messages :
             ReportDelivered(m) \/ ReportFailed(m) \/ ReportCaught(m)
    BY <1>2
    DEF Next, HandlerStep, HandlerWork, SmtpStep, Arrive, Deliver, CheckDuplicate, Attempt, SmtpAccepts,
        SmtpRejects, SendTimesOut, SendSucceeds, AckSuccess, MarkAsProcessed, NackFailure,
        Rethrow, CircuitHalfOpens, LoseConnection, Restart, NewProcess, vars
  <2>3. QED
    BY <2>1, <2>2
<1>3. QED
  BY <1>1, <1>2, AckedIsDonePreserved, EmailInvariant, PTL DEF Spec, NoFailureOnceAcked

-----------------------------------------------------------------------------
(* The template cache.                                                      *)

\* The cache, and with it every e-mail, has the body of some message with the
\* same template id.
CacheHoldsBodies ==
    /\ \A t \in Templates :
          templateCache[t] = NoBody
          \/ \E k \in Messages : TemplateOf[k] = t /\ templateCache[t] = BodyOf[k]
    /\ \A m \in Messages :
          rendered[m] = NoBody
          \/ \E k \in Messages : TemplateOf[k] = TemplateOf[m] /\ rendered[m] = BodyOf[k]

\* Only compileTemplate fills the cache, and a new process empties it.
LEMMA CacheHoldsBodiesPreserved ==
    ASSUME EmailInv, CacheHoldsBodies, [Next]_vars
    PROVE  CacheHoldsBodies'
<1>1. ASSUME NEW m \in Messages, Attempt(m) PROVE CacheHoldsBodies'
  <2>1. TemplateOf[m] \in Templates
    BY DEF Templates
  <2>2. \E k \in Messages : TemplateOf[k] = TemplateOf[m] /\ Compiled(m) = BodyOf[k]
    BY <2>1 DEF CacheHoldsBodies, Compiled
  <2>3. /\ templateCache' = [templateCache EXCEPT ![TemplateOf[m]] = Compiled(m)]
        /\ \/ UNCHANGED rendered
           \/ rendered' = [rendered EXCEPT ![m] = Compiled(m)]
    BY <1>1 DEF Attempt
  <2>4. QED
    BY <2>1, <2>2, <2>3 DEF CacheHoldsBodies, EmailInv, TypeOK
<1>2. CASE Restart \/ \E m \in Messages : Rethrow(m)
  BY <1>2 DEF Restart, Rethrow, NewProcess, ProcessStarts, CacheHoldsBodies
<1>3. CASE /\ ~\E m \in Messages : Attempt(m) \/ Rethrow(m)
           /\ ~Restart
  <2>1. UNCHANGED <<templateCache, rendered>>
    BY <1>3
    DEF Next, HandlerStep, HandlerWork, SmtpStep, Arrive, Deliver, CheckDuplicate, SmtpAccepts,
        SmtpRejects, SendTimesOut, SendSucceeds, AckSuccess, MarkAsProcessed, NackFailure,
        ReportDelivered, ReportFailed, ReportCaught, Report, CircuitHalfOpens,
        LoseConnection, vars, historyVars
  <2>2. QED
    BY <2>1 DEF CacheHoldsBodies
<1>4. QED
  BY <1>1, <1>2, <1>3

\* The wrong body takes two messages that share a template id and differ in
\* their bodies: where one id has one body, every e-mail has its own message's,
\* over retries, restarts and interleaved handlers (email.consumer.ts:144-176,
\* template.service.ts:11-26).
THEOREM OneBodyPerTemplateIsRendered ==
    ASSUME \A m, k \in Messages : TemplateOf[m] = TemplateOf[k] => BodyOf[m] = BodyOf[k]
    PROVE  Spec => []RendersInlineBody
<1>1. Init => CacheHoldsBodies
  BY DEF Init, ProcessStarts, CacheHoldsBodies
<1>2. CacheHoldsBodies => RendersInlineBody
  BY DEF CacheHoldsBodies, RendersInlineBody
<1>3. QED
  BY <1>1, <1>2, CacheHoldsBodiesPreserved, EmailInvariant, PTL DEF Spec

-----------------------------------------------------------------------------
(* The retries.  GivesUpAfterRetries fails since no failed send is retried; *)
(* what is retried is the rendering, from the body that has just failed.    *)

\* Only a message that fails to render with the cached body is in a second
\* attempt.
RetriesRender ==
    \A m \in Messages :
        attempt[m] > 1 => /\ templateCache[TemplateOf[m]] # NoBody
                          /\ <<m, templateCache[TemplateOf[m]]>> \in Broken

\* The cache keeps the body until the process ends, and with it the attempts.
LEMMA RetriesRenderPreserved ==
    ASSUME EmailInv, RetriesRender, [Next]_vars
    PROVE  RetriesRender'
<1> USE DEF EmailInv, TypeOK
<1>1. ASSUME NEW m \in Messages, Attempt(m) PROVE RetriesRender'
  <2>1. \A k \in Messages : TemplateOf[k] \in Templates
    BY DEF Templates
  <2>2. Compiled(m) # NoBody
    BY EmailAssumption DEF Compiled
  <2>3. /\ templateCache' = [templateCache EXCEPT ![TemplateOf[m]] = Compiled(m)]
        /\ \/ <<m, Compiled(m)>> \in Broken /\ \A k \in Messages : k # m => attempt'[k] = attempt[k]
           \/ UNCHANGED attempt
    BY <1>1 DEF Attempt, RetryOrFail
  <2>4. ASSUME NEW k \in Messages, attempt'[k] > 1
        PROVE  /\ templateCache'[TemplateOf[k]] # NoBody
               /\ <<k, templateCache'[TemplateOf[k]]>> \in Broken
    <3>1. CASE TemplateOf[k] = TemplateOf[m] /\ attempt[k] > 1
      BY <2>1, <2>3, <3>1 DEF RetriesRender, Compiled
    <3>2. CASE TemplateOf[k] # TemplateOf[m]
      BY <2>1, <2>3, <2>4, <3>2 DEF RetriesRender
    <3>3. CASE TemplateOf[k] = TemplateOf[m] /\ ~(attempt[k] > 1)
      BY <2>1, <2>2, <2>3, <2>4, <3>3
    <3>4. QED
      BY <3>1, <3>2, <3>3
  <2>5. QED
    BY <2>4 DEF RetriesRender
<1>2. CASE Restart \/ \E m \in Messages : Rethrow(m)
  <2>1. \A m \in Messages : attempt'[m] = 1
    BY <1>2 DEF Restart, Rethrow, NewProcess, ProcessStarts
  <2>2. QED
    BY <2>1 DEF RetriesRender
<1>3. CASE /\ ~\E m \in Messages : Attempt(m) \/ Rethrow(m)
           /\ ~Restart
  <2>1. UNCHANGED <<templateCache, attempt>>
    BY <1>3
    DEF Next, HandlerStep, HandlerWork, SmtpStep, Arrive, Deliver, CheckDuplicate, SmtpAccepts,
        SmtpRejects, SendTimesOut, SendSucceeds, SendFails, AckSuccess, MarkAsProcessed,
        NackFailure, ReportDelivered, ReportFailed, ReportCaught, Report, CircuitHalfOpens,
        LoseConnection, vars, historyVars
  <2>2. QED
    BY <2>1 DEF RetriesRender
<1>4. QED
  BY <1>1, <1>2, <1>3

\* A send begins only in a first attempt.
SendsAreFirstAttempts ==
    [][\A m \in Messages : m \in mailing' \ mailing => attempt[m] = 1]_vars

\* No retry ever hands an e-mail to the SMTP server: a message that has a body
\* fails in processEmailWithRetry by the rendering of it, and then as often as
\* it is tried (email.consumer.ts:144-195, email.service.ts:211-217,
\* template.service.ts:11-26).
THEOREM RetriesAreFutile == Spec => SendsAreFirstAttempts
<1> DEFINE First == \A m \in Messages : m \in mailing' \ mailing => attempt[m] = 1
<1>1. Init => RetriesRender
  BY DEF Init, ProcessStarts, RetriesRender
<1>2. ASSUME EmailInv, RetriesRender, [Next]_vars PROVE [First]_vars
  <2>1. ASSUME NEW m \in Messages, Attempt(m) PROVE First
    <3>1. <<m, Compiled(m)>> \notin Broken \/ UNCHANGED mailing
      BY <2>1 DEF Attempt
    <3>2. <<m, Compiled(m)>> \notin Broken => ~(attempt[m] > 1)
      BY <1>2 DEF RetriesRender, Compiled
    <3>3. mailing' \subseteq mailing \cup {m}
      BY <2>1 DEF Attempt
    <3>4. attempt[m] \in 1..MaxAttempts
      BY <1>2 DEF EmailInv, TypeOK
    <3>5. ASSUME NEW k \in Messages, k \in mailing' \ mailing PROVE attempt[k] = 1
      <4>1. k = m /\ <<m, Compiled(m)>> \notin Broken
        BY <3>1, <3>3, <3>5
      <4>2. QED
        BY <4>1, <3>2, <3>4, EmailAssumption
    <3>6. QED
      BY <3>5
  <2>2. (\E m \in Messages : Attempt(m)) \/ mailing' \subseteq mailing
    BY <1>2
    DEF Next, HandlerStep, HandlerWork, SmtpStep, Arrive, Deliver, CheckDuplicate, SmtpAccepts,
        SmtpRejects, SendTimesOut, SendSucceeds, AckSuccess, MarkAsProcessed, NackFailure,
        ReportDelivered, ReportFailed, ReportCaught, Report, Rethrow, CircuitHalfOpens,
        LoseConnection, Restart, NewProcess, vars
  <2>3. QED
    BY <2>1, <2>2
<1>3. QED
  BY <1>1, <1>2, RetriesRenderPreserved, EmailInvariant, PTL DEF Spec, SendsAreFirstAttempts

-----------------------------------------------------------------------------
(* email-service implements Channel: an acknowledgement is a Settle, a nack *)
(* a GiveUp, an e-mail a Send, a status post a Tell, all else a stutter.    *)

\* A step that changes none of the mapped state.
LEMMA QuietRefines ==
    ASSUME Owed' = Owed, Dropped' = Dropped, Arrived' = Arrived,
           UNCHANGED <<emails, posted>>
    PROVE  [Chan!Next]_(Chan!channelVars)
BY DEF Chan!channelVars, Mailed

\* A broker that changes nothing, or puts back what was unacknowledged.
LEMMA SameQueue ==
    ASSUME TypeOK, broker' \in {broker, Requeued}
    PROVE  Owed' = Owed /\ Dropped' = Dropped /\ Arrived' = Arrived
BY DEF TypeOK, BrokerStates, Requeued, Owed, Dropped, Arrived

\* A message of the gateway enters the queue.
LEMMA ArriveRefines ==
    ASSUME EmailInv, NEW m \in Messages, Arrive(m)
    PROVE  Chan!Enqueue(m)
<1>1. m \notin Arrived /\ Arrived' = Arrived \cup {m}
  BY DEF Arrive, Settle, Arrived, EmailInv, TypeOK
<1>2. Owed' = Owed \cup {m} /\ Dropped' = Dropped
  BY DEF Arrive, Settle, Owed, Dropped, EmailInv, TypeOK
<1>3. Mailed' = Mailed /\ UNCHANGED posted
  BY DEF Arrive, historyVars, Mailed
<1>4. QED
  BY <1>1, <1>2, <1>3 DEF Chan!Enqueue

\* Taking a message out of the queue.
LEMMA AckRefines ==
    ASSUME EmailInv, NEW m \in Messages, NEW phase, AckThen(m, phase),
           m \in Mailed, pc[m] \in Holding, UNCHANGED <<emails, posted>>
    PROVE  [Chan!Next]_(Chan!channelVars)
<1>1. CASE connected /\ Settle(m, "acked")
  <2>1. broker[m] = "unacked"
    BY <1>1 DEF EmailInv, Holdings, HandlerHolds
  <2>2. m \in Owed /\ Owed' = Owed \ {m} /\ Dropped' = Dropped /\ Arrived' = Arrived
    BY <1>1, <2>1 DEF Settle, Owed, Dropped, Arrived, EmailInv, TypeOK
  <2>3. Chan!Settle(m)
    BY <2>2 DEF Chan!Settle, Mailed
  <2>4. QED
    BY <2>3 DEF Chan!Next, Chan!Step
<1>2. CASE UNCHANGED broker
  BY <1>2, SameQueue, QuietRefines DEF EmailInv
<1>3. CASE broker' = Requeued
  BY <1>3, SameQueue, QuietRefines DEF EmailInv
<1>4. QED
  BY <1>1, <1>2, <1>3 DEF AckThen, SettleThen, ConnectionLost, brokerVars

\* A duplicate's or a success's acknowledgement, a failure's nack.
LEMMA OutcomeRefines ==
    ASSUME EmailInv, NEW m \in Messages,
           CheckDuplicate(m) \/ AckSuccess(m) \/ NackFailure(m)
    PROVE  [Chan!Next]_(Chan!channelVars)
<1>1. CASE CheckDuplicate(m)
  <2>1. CASE FoundProcessed(m) /\ AckThen(m, "idle")
    <3>1. m \in Mailed
      BY <2>1 DEF FoundProcessed, EmailInv, Sending, ProcessedWasSent, Mailed
    <3>2. QED
      BY <1>1, <2>1, <3>1, AckRefines DEF CheckDuplicate, Holding
  <2>2. CASE UNCHANGED broker
    BY <1>1, <2>2, SameQueue, QuietRefines DEF CheckDuplicate, EmailInv
  <2>3. QED
    BY <1>1, <2>1, <2>2 DEF CheckDuplicate, brokerVars
<1>2. CASE AckSuccess(m)
  <2>1. m \in Mailed
    BY <1>2 DEF AckSuccess, EmailInv, Sending, SentBeforeAck, Mailed
  <2>2. QED
    BY <1>2, <2>1, AckRefines DEF AckSuccess, Holding
<1>3. CASE NackFailure(m)
  <2>1. CASE connected /\ Settle(m, "dropped")
    <3>1. broker[m] = "unacked"
      BY <1>3, <2>1 DEF NackFailure, EmailInv, Holdings, HandlerHolds, Holding
    <3>2. /\ m \in Owed /\ Owed' = Owed \ {m}
          /\ Dropped' = Dropped \cup {m} /\ Arrived' = Arrived
      BY <2>1, <3>1 DEF Settle, Owed, Dropped, Arrived, EmailInv, TypeOK
    <3>3. Chan!GiveUp(m)
      BY <1>3, <3>2 DEF NackFailure, Chan!GiveUp, Mailed
    <3>4. QED
      BY <3>3 DEF Chan!Next, Chan!Step
  <2>2. CASE broker' \in {broker, Requeued}
    BY <1>3, <2>2, SameQueue, QuietRefines DEF NackFailure, EmailInv
  <2>3. QED
    BY <1>3, <2>1, <2>2
    DEF NackFailure, NackThen, SettleThen, ConnectionLost, brokerVars
<1>4. QED
  BY <1>1, <1>2, <1>3

\* The SMTP server's acceptance sends for every message with that id.
LEMMA SmtpAcceptsRefines ==
    ASSUME EmailInv, NEW m \in Messages, SmtpAccepts(m)
    PROVE  [Chan!Next]_(Chan!channelVars)
<1> DEFINE ms == {k \in Messages : CorrelationOf[k] = CorrelationOf[m]}
<1>1. Mailed' = Mailed \cup ms
  <2>1. \A k \in Messages : emails'[k] > 0 <=> emails[k] > 0 \/ k = m
    BY DEF SmtpAccepts, EmailInv, TypeOK
  <2>2. QED
    BY <2>1 DEF Mailed
<1>2. Owed' = Owed /\ Dropped' = Dropped /\ Arrived' = Arrived /\ UNCHANGED posted
  BY SameQueue DEF SmtpAccepts, EmailInv, brokerVars
<1>3. ms \in SUBSET Messages
  OBVIOUS
<1> HIDE DEF ms
<1>4. Chan!Send(ms)
  BY <1>1, <1>2 DEF Chan!Send
<1>5. QED
  BY <1>3, <1>4 DEF Chan!Next

\* A status post that arrives is a Tell; the channel does not notice a lost one.
LEMMA ReportTells ==
    ASSUME EmailInv, NEW m \in Messages,
           ReportDelivered(m) \/ ReportFailed(m) \/ ReportCaught(m)
    PROVE  /\ ReportDelivered(m) /\ PostArrives(m, "delivered") => Chan!Tell(m, "delivered")
           /\ PostArrives(m, "failed") => Chan!Tell(m, "failed")
           /\ UNCHANGED posted => UNCHANGED Chan!channelVars
<1>1. Owed' = Owed /\ Dropped' = Dropped /\ Arrived' = Arrived /\ Mailed' = Mailed
  BY SameQueue DEF ReportDelivered, ReportFailed, ReportCaught, Report, EmailInv,
     brokerVars, Mailed
<1>2. ReportDelivered(m) => m \in Mailed
  BY DEF ReportDelivered, Report, EmailInv, Sending, SentBeforeAck, Mailed
<1>3. QED
  BY <1>1, <1>2 DEF PostArrives, Chan!Tell, Chan!channelVars

LEMMA ReportRefines ==
    ASSUME EmailInv, NEW m \in Messages,
           ReportDelivered(m) \/ ReportFailed(m) \/ ReportCaught(m)
    PROVE  [Chan!Next]_(Chan!channelVars)
<1>1. \/ ReportDelivered(m) /\ PostArrives(m, "delivered")
      \/ PostArrives(m, "failed")
      \/ UNCHANGED posted
  BY DEF ReportDelivered, ReportFailed, ReportCaught, Report, PostLost
<1>2. QED
  BY <1>1, ReportTells DEF Chan!Next, Chan!Step

\* Every other step leaves the queue, the e-mails and the statuses alone.
LEMMA OtherRefines ==
    ASSUME EmailInv,
           \/ \E m \in Messages :
                 \/ Deliver(m) \/ Attempt(m) \/ SmtpRejects(m) \/ SendTimesOut(m)
                 \/ SendSucceeds(m) \/ MarkAsProcessed(m) \/ Rethrow(m)
           \/ CircuitHalfOpens \/ LoseConnection \/ Restart \/ UNCHANGED vars
    PROVE  [Chan!Next]_(Chan!channelVars)
<1>1. ASSUME NEW m \in Messages, Deliver(m)
      PROVE  Owed' = Owed /\ Dropped' = Dropped /\ Arrived' = Arrived
  BY <1>1 DEF Deliver, Settle, EmailInv, TypeOK, Owed, Dropped, Arrived
<1>2. ASSUME ~\E m \in Messages : Deliver(m) PROVE broker' \in {broker, Requeued}
  BY <1>2 DEF Attempt, SmtpRejects, SendTimesOut, SendSucceeds, MarkAsProcessed, Rethrow,
     CircuitHalfOpens, LoseConnection, ConnectionLost, Restart, NewProcess, vars, brokerVars
<1>3. Owed' = Owed /\ Dropped' = Dropped /\ Arrived' = Arrived
  BY <1>1, <1>2, SameQueue DEF EmailInv
<1>4. UNCHANGED <<emails, posted>>
  BY DEF Deliver, Attempt, SmtpRejects, SendTimesOut, SendSucceeds, MarkAsProcessed,
     Rethrow, CircuitHalfOpens, LoseConnection, Restart, NewProcess, vars, historyVars
<1>5. QED
  BY <1>3, <1>4, QuietRefines

\* Every step of email-service is a step or a stutter of Channel.
LEMMA StepRefines ==
    ASSUME EmailInv, [Next]_vars
    PROVE  [Chan!Next]_(Chan!channelVars)
BY ArriveRefines, OutcomeRefines, SmtpAcceptsRefines, ReportRefines, OtherRefines
DEF Next, HandlerStep, HandlerWork, SmtpStep, Chan!Next, Chan!Step

\* email-service implements the channel that the gateway relies on
\* (email.consumer.ts:67-142).
THEOREM EmailServiceIsAChannel == Spec => ImplementsChannel
<1>1. Init => Chan!Init
  BY DEF Init, Chan!Init, Arrived, Owed, Dropped, Mailed
<1>2. QED
  BY <1>1, StepRefines, EmailInvariant, PTL DEF Spec, ImplementsChannel, Chan!Spec

-----------------------------------------------------------------------------
(* EmailFlow: api-gateway in front of email-service.                        *)

\* Everything that is known of email-service in the flow.
FlowWorkInv == EmailInv /\ FaultsExplainDeliveries

\* No e-mail is there of a message that did not arrive.
LEMMA AbsentIsUnmailed ==
    ASSUME FlowWorkInv, NEW m \in Messages, broker[m] = "absent"
    PROVE  emails[m] = 0
<1>1. emails[m] \in Nat /\ deliveries[m] = 0
  BY DEF FlowWorkInv, EmailInv, TypeOK, FaultsExplainDeliveries
<1>2. emails[m] <= deliveries[m]
  BY <1>1 DEF FlowWorkInv, EmailInv, Mails, OneEmailPerDelivery
<1>3. QED
  BY <1>1, <1>2

\* For email-service the gateway is one who publishes.
LEMMA FlowStepIsEmailStep == [EmailFlowNext]_emailFlowVars => [Next]_vars
BY DEF EmailFlowNext, emailFlowVars, PublishStep, ReportStep, GatewayStep, EmailStep, Next,
   HandlerStep

\* email-service keeps its specification behind the gateway.
THEOREM FlowContainsEmailService == EmailFlowSpec => Spec
<1>1. EmailFlowInit => Init
  BY DEF EmailFlowInit
<1>2. QED
  BY <1>1, FlowStepIsEmailStep, PTL DEF EmailFlowSpec, Spec

\* FlowWorkInv holds in every reachable state of the flow.
THEOREM FlowWorkInvariant == EmailFlowSpec => []FlowWorkInv
BY FlowContainsEmailService, EmailInvariant, FaultsInvariant, PTL DEF FlowWorkInv

\* By itself email-service takes no message in and reports nothing.
LEMMA EmailStepIsQuiet ==
    ASSUME EmailInv, EmailStep
    PROVE  Arrived' = Arrived /\ UNCHANGED posted /\ UNCHANGED Flow!vars
<1>1. UNCHANGED posted
  BY DEF EmailStep, HandlerWork, SmtpStep, Deliver, CheckDuplicate, Attempt, SmtpAccepts,
     SmtpRejects, SendTimesOut, SendSucceeds, AckSuccess, MarkAsProcessed, NackFailure,
     Rethrow, CircuitHalfOpens, LoseConnection, Restart, NewProcess
<1>2. ASSUME NEW m \in Messages, Deliver(m) PROVE Arrived' = Arrived
  BY <1>2 DEF Deliver, Settle, EmailInv, TypeOK, Arrived
<1>3. ASSUME NEW m \in Messages, CheckDuplicate(m) \/ AckSuccess(m) \/ NackFailure(m)
      PROVE  Arrived' = Arrived
  <2>1. CASE broker' \in {broker, Requeued}
    BY <2>1, SameQueue DEF EmailInv
  <2>2. CASE connected /\ \E outcome \in {"acked", "dropped"} : Settle(m, outcome)
    BY <1>3, <2>2 DEF CheckDuplicate, AckSuccess, NackFailure, Settle, EmailInv, TypeOK,
       Holdings, HandlerHolds, Holding, Arrived
  <2>3. QED
    BY <1>3, <2>1, <2>2 DEF CheckDuplicate, AckSuccess, NackFailure, AckThen, NackThen,
       SettleThen, ConnectionLost, brokerVars
<1>4. ASSUME \/ \E m \in Messages :
                   \/ Attempt(m) \/ SmtpStep(m) \/ SendTimesOut(m) \/ SendSucceeds(m)
                   \/ MarkAsProcessed(m) \/ Rethrow(m)
             \/ CircuitHalfOpens \/ LoseConnection \/ Restart
      PROVE  Arrived' = Arrived
  <2>1. broker' \in {broker, Requeued}
    BY <1>4 DEF Attempt, SmtpStep, SmtpAccepts, SmtpRejects, SendTimesOut, SendSucceeds,
       MarkAsProcessed, Rethrow, CircuitHalfOpens, LoseConnection, ConnectionLost, Restart,
       NewProcess, brokerVars
  <2>2. QED
    BY <2>1, SameQueue DEF EmailInv
<1>5. Arrived' = Arrived
  BY <1>2, <1>3, <1>4 DEF EmailStep, HandlerWork
<1>6. QED
  BY <1>1, <1>5 DEF EmailStep, gatewayVars, Flow!vars, Flow!redisVars, Flow!serviceVars,
     Flow!executionVars, Flow!historyVars

\* A step in which neither service changes is a stutter of the composition.
LEMMA NothingHappens ==
    ASSUME UNCHANGED emailFlowVars
    PROVE  UNCHANGED Flow!flowVars
<1>1. UNCHANGED <<Arrived, Owed, Mailed, Dropped, posted>>
  BY DEF emailFlowVars, vars, brokerVars, historyVars, Arrived, Owed, Mailed, Dropped
<1>2. QED
  BY <1>1 DEF emailFlowVars, gatewayVars, Flow!flowVars, Flow!channelVars, Flow!vars,
     Flow!redisVars, Flow!serviceVars, Flow!executionVars, Flow!historyVars

\* What the flow calls its channel is the Channel that email-service is shown
\* to be.
LEMMA SameChannel ==
    /\ \A m : Chan!Enqueue(m) <=> Flow!Chan!Enqueue(m)
    /\ \A m, s : Chan!Tell(m, s) <=> Flow!Chan!Tell(m, s)
    /\ [Chan!Next]_(Chan!channelVars) => [Flow!Chan!Next]_(Flow!Chan!channelVars)
<1>1. Arrived \cap Messages = Arrived /\ (Arrived \cap Messages)' = Arrived'
  BY DEF Arrived
<1>2. /\ \A m : Chan!Enqueue(m) <=> Flow!Chan!Enqueue(m)
      /\ \A m : Chan!GiveUp(m) <=> Flow!Chan!GiveUp(m)
      /\ \A m : Chan!Settle(m) <=> Flow!Chan!Settle(m)
      /\ \A ms : Chan!Send(ms) <=> Flow!Chan!Send(ms)
      /\ \A m, s : Chan!Tell(m, s) <=> Flow!Chan!Tell(m, s)
      /\ UNCHANGED Chan!channelVars => UNCHANGED Flow!Chan!channelVars
  BY <1>1 DEF Chan!Enqueue, Chan!GiveUp, Chan!Settle, Chan!Send, Chan!Tell,
     Chan!channelVars, Flow!Chan!Enqueue, Flow!Chan!GiveUp, Flow!Chan!Settle,
     Flow!Chan!Send, Flow!Chan!Tell, Flow!Chan!channelVars
<1>3. QED
  BY <1>2 DEF Chan!Next, Chan!Step, Flow!Chan!Next, Flow!Chan!Step

\* A report, as the gateway sees it, if it does.
LEMMA ReportIsStatusStep ==
    ASSUME EmailInv, NEW m \in Messages, ReportStep(m)
    PROVE  \/ \E s \in Flow!Terminal : Flow!StatusStep(m, s)
           \/ UNCHANGED Flow!flowVars
<1>1. ReportDelivered(m) \/ ReportFailed(m) \/ ReportCaught(m)
  BY DEF ReportStep
<1>2. ASSUME NEW s \in Flow!Terminal, Flow!PostChannelStatus(m, s), Chan!Tell(m, s)
      PROVE  Flow!StatusStep(m, s)
  BY <1>2, SameChannel DEF Flow!StatusStep
<1>3. CASE ReportDelivered(m) /\ PostArrives(m, "delivered")
           /\ Flow!PostChannelStatus(m, "delivered")
  BY <1>1, <1>2, <1>3, ReportTells DEF Flow!Terminal
<1>4. CASE PostArrives(m, "failed") /\ Flow!PostChannelStatus(m, "failed")
  BY <1>1, <1>2, <1>4, ReportTells DEF Flow!Terminal
<1>5. CASE UNCHANGED posted /\ UNCHANGED gatewayVars
  <2>1. UNCHANGED Chan!channelVars
    BY <1>1, <1>5, ReportTells
  <2>2. QED
    BY <1>5, <2>1 DEF Chan!channelVars, gatewayVars, Flow!flowVars, Flow!channelVars,
       Flow!vars, Flow!redisVars, Flow!serviceVars, Flow!executionVars, Flow!historyVars
<1>6. QED
  BY <1>3, <1>4, <1>5 DEF ReportStep, Heard, PostLost

\* api-gateway keeps its specification in front of email-service.
THEOREM EmailFlowContainsTheGateway == EmailFlowSpec => Flow!Spec
<1>1. EmailFlowInit => Flow!Init
  BY DEF EmailFlowInit
<1>2. FlowWorkInv /\ [EmailFlowNext]_emailFlowVars => [Flow!Next]_(Flow!vars)
  <2> SUFFICES ASSUME FlowWorkInv, [EmailFlowNext]_emailFlowVars
               PROVE  [Flow!Next]_(Flow!vars)
    OBVIOUS
  <2>1. ASSUME NEW m \in Messages, PublishStep(m) PROVE Flow!Next
    BY <2>1 DEF PublishStep, Flow!Next, Flow!Execution
  <2>2. ASSUME NEW m \in Messages, ReportStep(m) PROVE [Flow!Next]_(Flow!vars)
    BY <2>2, ReportIsStatusStep DEF FlowWorkInv, Flow!StatusStep, Flow!Next, Flow!flowVars
  <2>3. CASE GatewayStep
    BY <2>3 DEF GatewayStep, Flow!GatewayStep, Flow!Next, Flow!Execution
  <2>4. CASE EmailStep
    BY <2>4, EmailStepIsQuiet DEF FlowWorkInv
  <2>5. CASE UNCHANGED emailFlowVars
    BY <2>5, NothingHappens DEF Flow!flowVars
  <2>6. QED
    BY <2>1, <2>2, <2>3, <2>4, <2>5 DEF EmailFlowNext
<1>3. QED
  BY <1>1, <1>2, FlowWorkInvariant, PTL DEF EmailFlowSpec, Flow!Spec

\* The client's answer is what becomes of its notification, over lost
\* connections, crashes, timeouts and whatever correlation ids clients choose.
THEOREM AnswersReachTheMailbox ==
    ASSUME GatewayConstants
    PROVE  EmailFlowSpec => []EmailMatchesAnswer
<1>1. Flow!Spec => []Flow!ResponsesAreHonest
  BY Flow!HonestResponses DEF GatewayConstants
<1>2. FlowWorkInv /\ Flow!ResponsesAreHonest => EmailMatchesAnswer
  <2> SUFFICES ASSUME FlowWorkInv, Flow!ResponsesAreHonest, NEW m \in Messages
               PROVE  /\ response[m] \in {"400", "404"} => broker[m] = "absent" /\ emails[m] = 0
                      /\ response[m] = "202" => m \in Owed \cup Dropped \cup Mailed
    BY DEF EmailMatchesAnswer
  <2>1. response[m] \in {"400", "404"} => broker[m] = "absent"
    BY DEF Flow!ResponsesAreHonest, Arrived
  <2>2. response[m] = "202" => broker[m] \in BrokerStates \ {"absent"}
    BY DEF Flow!ResponsesAreHonest, Arrived, FlowWorkInv, EmailInv, TypeOK
  <2>3. broker[m] = "acked" => m \in Mailed
    BY DEF FlowWorkInv, EmailInv, Sending, AckedWasSent, Mailed
  <2>4. QED
    BY <2>1, <2>2, <2>3, AbsentIsUnmailed DEF BrokerStates, Owed, Dropped
<1>3. QED
  BY <1>1, <1>2, EmailFlowContainsTheGateway, FlowWorkInvariant, PTL

\* An opt-out that everybody knew of when the notification was requested keeps
\* it from the mailbox, unless the user's record came by gRPC.
THEOREM OptOutsReachTheMailbox ==
    ASSUME GatewayConstants
    PROVE  EmailFlowSpec => []OptOutsNotMailed
<1>1. Flow!Spec => []Flow!OptOutsHonoured
  BY Flow!OptOuts DEF GatewayConstants
<1>2. FlowWorkInv /\ Flow!OptOutsHonoured => OptOutsNotMailed
  BY AbsentIsUnmailed DEF Flow!OptOutsHonoured, OptOutsNotMailed, Arrived
<1>3. QED
  BY <1>1, <1>2, EmailFlowContainsTheGateway, FlowWorkInvariant, PTL

\* With correlation ids of their own, only messages that arrived are mailed.
LEMMA MailedArrived ==
    ASSUME OwnCorrelations, FlowWorkInv
    PROVE  Mailed \subseteq Arrived
BY AbsentIsUnmailed DEF OwnCorrelations, FlowWorkInv, EmailInv, TypeOK, Mailed, Arrived

\* api-gateway in front of email-service is NotificationFlow, where no two
\* messages share a correlation id (else a message counts as sent once another
\* one with its id was).
THEOREM EmailFlowIsNotificationFlow ==
    ASSUME GatewayConstants, OwnCorrelations
    PROVE  EmailFlowSpec => Flow!FlowSafety
<1>1. EmailFlowInit => Flow!FlowInit
  BY DEF EmailFlowInit, Init, Flow!FlowInit, Flow!Chan!Init, Arrived, Owed, Mailed, Dropped
<1>2. ASSUME FlowWorkInv, FlowWorkInv', NEW m \in Messages, PublishStep(m)
      PROVE  Flow!PublishStep(m)
  <2>1. CASE Arrive(m) /\ Flow!Publish(m)
    <3>1. Flow!Chan!Enqueue(m)
      BY <1>2, <2>1, ArriveRefines, SameChannel DEF FlowWorkInv
    <3>2. m \in Arrived'
      BY <2>1, <3>1 DEF Flow!Chan!Enqueue
    <3>3. QED
      BY <2>1, <3>1, <3>2 DEF Flow!PublishStep
  <2>2. CASE m \notin Arrived /\ UNCHANGED vars /\ Flow!Publish(m)
    <3>1. UNCHANGED <<Arrived, Owed, Mailed, Dropped, posted>>
      BY <2>2 DEF vars, brokerVars, historyVars, Arrived, Owed, Mailed, Dropped
    <3>2. QED
      BY <2>2, <3>1 DEF Flow!PublishStep, Flow!channelVars
  <2>3. QED
    BY <1>2, <2>1, <2>2 DEF PublishStep
<1>3. ASSUME FlowWorkInv, NEW m \in Messages, ReportStep(m)
      PROVE  [Flow!FlowNext]_(Flow!flowVars)
  BY <1>3, ReportIsStatusStep DEF FlowWorkInv, Flow!FlowNext
<1>4. FlowWorkInv => Mailed \subseteq Arrived
  BY MailedArrived
<1>5. FlowWorkInv' => (Mailed \subseteq Arrived)'
  BY <1>4, PTL
<1>6. ASSUME FlowWorkInv, FlowWorkInv', EmailStep
      PROVE  [Flow!FlowNext]_(Flow!flowVars)
  <2>1. Arrived' = Arrived /\ UNCHANGED posted /\ UNCHANGED Flow!vars
    BY <1>6, EmailStepIsQuiet DEF FlowWorkInv
  <2>2. [Next]_vars
    BY <1>6 DEF EmailStep, Next, HandlerStep
  <2>3. [Flow!Chan!Next]_(Flow!Chan!channelVars)
    BY <1>6, <2>2, StepRefines, SameChannel DEF FlowWorkInv
  <2>4. Owed \subseteq Arrived \cap Messages
    BY DEF Owed, Arrived
  <2>5. Mailed' \subseteq Arrived \cap Messages
    BY <1>6, <2>1, <1>5 DEF Arrived
  <2>6. QED
    BY <2>1, <2>3, <2>4, <2>5, Flow!ServiceStepsAllowed DEF GatewayConstants
<1>7. FlowWorkInv /\ FlowWorkInv' /\ [EmailFlowNext]_emailFlowVars
        => [Flow!FlowNext]_(Flow!flowVars)
  BY <1>2, <1>3, <1>6, NothingHappens DEF EmailFlowNext, GatewayStep, Flow!FlowNext
<1>8. QED
  BY <1>1, <1>7, FlowWorkInvariant, PTL DEF EmailFlowSpec, Flow!FlowSafety
=============================================================================
