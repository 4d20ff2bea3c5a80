--------------------------- MODULE Gateway_proofs ---------------------------
(***************************************************************************)
(* For any number of requests, keys and edits: a request that comes after  *)
(* the success of another one with its key is rejected, the answers of the *)
(* gateway tell the truth about what was published, keys are taken only by *)
(* what was published, and an opt-out that everybody knows of is honoured. *)
(*                                                                         *)
(* The properties speak of finished requests.  The induction needs what    *)
(* the execution has done at each point on its way (Published,             *)
(* PreferencesChecked), why the key of a late request is still there when  *)
(* the request gets to ask for it (LateFindsKey), and that an opt-out      *)
(* stays known to everybody until the request ends (NoStaysKnown).         *)
(***************************************************************************)
EXTENDS Gateway, TLAPS

\* The points of an execution before and after its publish.
Before == {"idle", "check", "lookup", "askGrpc", "fillGrpc", "askRest", "fillRest",
           "preferences", "publish"}
After == {"setKey", "setPending"}

Published ==
    \A r \in Requests :
        /\ pc[r] \in Before => r \notin published
        /\ pc[r] \in After => r \in published

PreferencesChecked ==
    \A r \in Requests :
        /\ pc[r] = "idle" => seen[r]["user"] = Absent
        /\ pc[r] = "publish" => seen[r]["user"] \in AllowedEdits \cup {Bare}

NoStaysKnown ==
    \A r \in optedOut :
        /\ pc[r] # "done" => UserSaysNo
        /\ seen[r]["user"] \notin AllowedEdits

LateFindsKey ==
    /\ keyed \subseteq idempotency
    /\ \A r \in late : pc[r] # "done" => pc[r] = "check" /\ KeyOf[r] \in keyed

CoreInv ==
    /\ TypeOK
    /\ Published
    /\ PreferencesChecked
    /\ LateFindsKey
    /\ LateDuplicatesRejected
    /\ ResponsesAreHonest
    /\ KeysTakenByPublished

OptOutInv == NoStaysKnown /\ OptOutsHonoured

GatewayInv == CoreInv /\ OptOutInv

-----------------------------------------------------------------------------
\* Nothing has arrived yet, and Redis is empty.
LEMMA CoreInitially == Init => CoreInv
<1> SUFFICES ASSUME Init PROVE CoreInv
  OBVIOUS
<1>1. TypeOK
  <2>1. 0 \in Edits
    BY GatewayAssumption DEF Edits
  <2>2. QED
    BY <2>1 DEF Init, TypeOK, Records, Phases, Values
<1>2. Published /\ PreferencesChecked /\ LateFindsKey
  BY DEF Init, Published, PreferencesChecked, LateFindsKey, Before, After, Records
<1>3. /\ LateDuplicatesRejected /\ ResponsesAreHonest
      /\ KeysTakenByPublished
  BY DEF Init, LateDuplicatesRejected, ResponsesAreHonest, KeysTakenByPublished
<1>4. QED
  BY <1>1, <1>2, <1>3 DEF CoreInv

\* What a lookup sees keeps the type of seen.
LEMMA SeenTyped ==
    ASSUME TypeOK, NEW r \in Requests, NEW value \in Values, See(r, value)
    PROVE  seen' \in [Requests -> [Records -> Values]]
<1>1. seen[r] \in [Records -> Values]
  BY DEF TypeOK
<1>2. [seen[r] EXCEPT ![looking[r]] = value] \in [Records -> Values]
  BY <1>1
<1>3. seen' = [seen EXCEPT ![r] = [seen[r] EXCEPT ![looking[r]] = value]]
  BY DEF See, TypeOK
<1>4. QED
  BY <1>2, <1>3 DEF TypeOK

\* It changes the user record of that execution, if it is about that record.
LEMMA SeenUser ==
    ASSUME TypeOK, NEW r \in Requests, NEW value \in Values, See(r, value),
           NEW q \in Requests
    PROVE  seen'[q]["user"] = IF q = r /\ looking[r] = "user" THEN value
                                                            ELSE seen[q]["user"]
<1>1. seen[r] \in [Records -> Values] /\ "user" \in Records
  BY DEF TypeOK, Records
<1>2. seen' = [seen EXCEPT ![r] = [seen[r] EXCEPT ![looking[r]] = value]]
  BY DEF See, TypeOK
<1>3. seen'[q] = IF q = r THEN [seen[r] EXCEPT ![looking[r]] = value] ELSE seen[q]
  BY <1>2 DEF TypeOK
<1>4. QED
  BY <1>1, <1>3

\* What a lookup takes from Redis or a service is a record, or no record.
LEMMA ValuesSeen ==
    ASSUME TypeOK, NEW r \in Requests
    PROVE  cache[looking[r]] \in Values /\ RestRecord(r) \in Values /\ Bare \in Values
<1>1. looking[r] \in Records
  BY DEF TypeOK
<1>2. QED
  BY <1>1, GatewayAssumption DEF TypeOK, RestRecord, Values, Edits

\* The steps before the publish.
LEMMA EarlySteps ==
    ASSUME CoreInv, NEW r \in Requests,
           Arrive(r) \/ CheckIdempotency(r) \/ ReadCache(r) \/ Fetch(r) \/ FillCache(r)
             \/ CheckPreferences(r)
    PROVE  CoreInv'
<1> USE DEF CoreInv, redisVars, serviceVars, historyVars, Go, Respond, Filled, KeyTaken,
            Pending
<1>1. CASE Arrive(r)
  <2>1. TypeOK'
    BY <1>1 DEF Arrive, TypeOK, Phases
  <2>2. (Published /\ PreferencesChecked)'
    BY <1>1 DEF Arrive, TypeOK, Published, PreferencesChecked, Before, After
  <2>3. (LateFindsKey /\ LateDuplicatesRejected)'
    BY <1>1 DEF Arrive, TypeOK, Published, LateFindsKey, LateDuplicatesRejected, Before
  <2>4. (ResponsesAreHonest /\ KeysTakenByPublished)'
    BY <1>1 DEF Arrive, ResponsesAreHonest, KeysTakenByPublished
  <2>5. QED
    BY <2>1, <2>2, <2>3, <2>4
<1>2. CASE CheckIdempotency(r)
  <2> USE <1>2 DEF CheckIdempotency, IsDuplicate, GoOn
  <2>1. TypeOK'
    BY DEF TypeOK, Phases
  <2>2. (Published /\ PreferencesChecked)'
    BY DEF TypeOK, Published, PreferencesChecked, Before, After
  <2>3. (LateFindsKey /\ LateDuplicatesRejected)'
    BY DEF TypeOK, Published, LateFindsKey, LateDuplicatesRejected, Before
  <2>4. (ResponsesAreHonest /\ KeysTakenByPublished)'
    BY DEF TypeOK, Published, Before, ResponsesAreHonest, KeysTakenByPublished
  <2>5. QED
    BY <2>1, <2>2, <2>3, <2>4
<1>3. CASE ReadCache(r) \/ Fetch(r) \/ FillCache(r)
  <2>1. TypeOK'
    <3>1. looking[r] \in Records /\ seen[r] \in [Records -> Values]
      BY DEF TypeOK
    <3>2. cache[looking[r]] \in Values /\ RestRecord(r) \in Values /\ Bare \in Values
      BY ValuesSeen
    <3>3. looking' \in [Requests -> Records]
      BY <1>3 DEF ReadCache, Fetch, FillCache, NextLookup, TypeOK, Records
    <3>4. seen' \in [Requests -> [Records -> Values]]
      BY <1>3, <3>2, SeenTyped DEF ReadCache, Fetch, FillCache, TypeOK
    <3>5. cache' \in [Records -> Values]
      BY <1>3, <3>1 DEF ReadCache, Fetch, FillCache, TypeOK
    <3>6. /\ pc' \in [Requests -> Phases]
          /\ response' \in [Requests -> {"none", "202", "400", "404", "500"}]
          /\ \A q \in Requests : pc'[q] = "done" <=> response'[q] # "none"
      BY <1>3, ZenonT(40) DEF ReadCache, Fetch, FillCache, NextLookup, TypeOK, Phases
    <3>7. QED
      BY <1>3, <3>3, <3>4, <3>5, <3>6 DEF ReadCache, Fetch, FillCache, TypeOK
  <2> USE <1>3 DEF ReadCache, Fetch, FillCache, NextLookup, See
  <2>2. (Published /\ PreferencesChecked)'
    BY DEF TypeOK, Published, PreferencesChecked, Before, After
  <2>3. (LateFindsKey /\ LateDuplicatesRejected)'
    BY DEF TypeOK, LateFindsKey, LateDuplicatesRejected
  <2>4. (ResponsesAreHonest /\ KeysTakenByPublished)'
    BY DEF TypeOK, Published, Before, ResponsesAreHonest, KeysTakenByPublished
  <2>5. QED
    BY <2>1, <2>2, <2>3, <2>4
<1>4. CASE CheckPreferences(r)
  <2> USE <1>4 DEF CheckPreferences, ChannelAllowed
  <2>1. TypeOK'
    BY DEF TypeOK, Phases
  <2>2. (Published /\ PreferencesChecked)'
    BY DEF TypeOK, Published, PreferencesChecked, Before, After
  <2>3. (LateFindsKey /\ LateDuplicatesRejected)'
    BY DEF TypeOK, LateFindsKey, LateDuplicatesRejected
  <2>4. (ResponsesAreHonest /\ KeysTakenByPublished)'
    BY DEF TypeOK, Published, Before, ResponsesAreHonest, KeysTakenByPublished
  <2>5. QED
    BY <2>1, <2>2, <2>3, <2>4
<1>5. QED
  BY <1>1, <1>2, <1>3, <1>4

\* The publish and the two writes that follow it, and failures of Redis.
LEMMA LateSteps ==
    ASSUME CoreInv, NEW r \in Requests,
           Publish(r) \/ SetIdempotency(r) \/ SetPending(r) \/ RedisFails(r)
    PROVE  CoreInv'
<1> USE DEF CoreInv, redisVars, serviceVars, historyVars, Go, Respond, Filled, KeyTaken,
            Pending
<1>1. CASE Publish(r)
  <2> USE <1>1 DEF Publish, PublishFails
  <2>1. TypeOK'
    BY DEF TypeOK, Phases
  <2>2. (Published /\ PreferencesChecked)'
    BY DEF TypeOK, Published, PreferencesChecked, Before, After
  <2>3. (LateFindsKey /\ LateDuplicatesRejected)'
    BY DEF TypeOK, LateFindsKey, LateDuplicatesRejected
  <2>4. (ResponsesAreHonest /\ KeysTakenByPublished)'
    BY DEF TypeOK, PreferencesChecked, ResponsesAreHonest, KeysTakenByPublished
  <2>5. QED
    BY <2>1, <2>2, <2>3, <2>4
<1>2. CASE SetIdempotency(r)
  <2> USE <1>2 DEF SetIdempotency
  <2>1. TypeOK'
    BY DEF TypeOK, Phases, Keys
  <2>2. (Published /\ PreferencesChecked)'
    BY DEF TypeOK, Published, PreferencesChecked, Before, After
  <2>3. (LateFindsKey /\ LateDuplicatesRejected)'
    BY DEF TypeOK, LateFindsKey, LateDuplicatesRejected
  <2>4. (ResponsesAreHonest /\ KeysTakenByPublished)'
    BY DEF TypeOK, Published, After, ResponsesAreHonest, KeysTakenByPublished
  <2>5. QED
    BY <2>1, <2>2, <2>3, <2>4
<1>3. CASE SetPending(r)
  <2> USE <1>3 DEF SetPending
  <2>1. TypeOK'
    BY DEF TypeOK, Phases, Keys, Ids
  <2>2. (Published /\ PreferencesChecked)'
    BY DEF TypeOK, Published, PreferencesChecked, Before, After
  <2>3. (LateFindsKey /\ LateDuplicatesRejected)'
    BY DEF TypeOK, LateFindsKey, LateDuplicatesRejected
  <2>4. (ResponsesAreHonest /\ KeysTakenByPublished)'
    BY DEF TypeOK, Published, After, ResponsesAreHonest, KeysTakenByPublished
  <2>5. QED
    BY <2>1, <2>2, <2>3, <2>4
<1>4. CASE RedisFails(r)
  <2> USE <1>4 DEF RedisFails
  <2>1. TypeOK'
    <3>1. Filled(r) \in [Records -> Values]
      BY DEF TypeOK
    <3>2. Pending(r) \in [Ids -> {"none", "pending"} \cup Terminal]
      BY DEF TypeOK
    <3>3. KeyTaken(r) \subseteq Keys
      BY DEF TypeOK, Keys
    <3>4. /\ idempotency' \subseteq Keys
          /\ cache' \in [Records -> Values]
          /\ status' \in [Ids -> {"none", "pending"} \cup Terminal]
      <4> USE <3>1, <3>2, <3>3 DEF TypeOK
      <4> HIDE DEF Filled, Pending, KeyTaken
      <4>1. QED
        OBVIOUS
    <3>5. /\ pc' \in [Requests -> Phases]
          /\ response' \in [Requests -> {"none", "202", "400", "404", "500"}]
          /\ \A q \in Requests : pc'[q] = "done" <=> response'[q] # "none"
      <4>1. pc[r] # "done" /\ (Go(r, "askRest") \/ Respond(r, "404") \/ Respond(r, "500"))
        OBVIOUS
      <4>2. CASE Go(r, "askRest")
        BY <4>1, <4>2 DEF TypeOK, Phases
      <4>3. CASE Respond(r, "404") \/ Respond(r, "500")
        BY <4>1, <4>3 DEF TypeOK, Phases
      <4>4. QED
        BY <4>1, <4>2, <4>3
    <3>6. QED
      BY <3>4, <3>5 DEF TypeOK
  <2>2. (Published /\ PreferencesChecked)'
    BY DEF TypeOK, Published, PreferencesChecked, Before, After
  <2>3. (LateFindsKey /\ LateDuplicatesRejected)'
    BY DEF TypeOK, LateFindsKey, LateDuplicatesRejected
  <2>4. (ResponsesAreHonest /\ KeysTakenByPublished)'
    BY DEF TypeOK, Published, Before, After, ResponsesAreHonest, KeysTakenByPublished
  <2>5. QED
    BY <2>1, <2>2, <2>3, <2>4
<1>5. QED
  BY <1>1, <1>2, <1>3, <1>4

\* The steps of the other services, of Redis's clock, and of nobody.
LEMMA OtherSteps ==
    ASSUME CoreInv,
           \/ \E r \in Requests, s \in Terminal :
                 PostChannelStatus(r, s) \/ PostStatus(r, s)
           \/ \E k \in Keys : KeyExpires(k)
           \/ \E k \in Records : CacheExpires(k)
           \/ Edit
           \/ UNCHANGED vars
    PROVE  CoreInv'
<1> USE DEF CoreInv, redisVars, serviceVars, executionVars, historyVars
<1>1. ASSUME NEW r \in Requests, NEW s \in Terminal,
             PostChannelStatus(r, s) \/ PostStatus(r, s)
      PROVE  CoreInv'
  <2> USE <1>1 DEF PostChannelStatus, PostStatus
  <2>1. TypeOK'
    BY DEF TypeOK, StatusDtoDecorated
  <2>2. (Published /\ PreferencesChecked /\ LateFindsKey)'
    BY DEF Published, PreferencesChecked, LateFindsKey
  <2>3. (/\ LateDuplicatesRejected /\ ResponsesAreHonest
         /\ KeysTakenByPublished)'
    BY DEF LateDuplicatesRejected, ResponsesAreHonest, KeysTakenByPublished
  <2>4. QED
    BY <2>1, <2>2, <2>3
<1>2. ASSUME NEW k \in Keys, KeyExpires(k)
      PROVE  CoreInv'
  <2> USE <1>2 DEF KeyExpires
  <2>1. TypeOK'
    BY DEF TypeOK
  <2>2. (Published /\ PreferencesChecked /\ LateFindsKey)'
    <3>1. (Published /\ PreferencesChecked)'
      BY DEF Published, PreferencesChecked
    <3>2. (keyed \subseteq idempotency)'
      BY DEF LateFindsKey
    <3>3. ASSUME NEW r \in late'
          PROVE  (pc[r] # "done" => pc[r] = "check" /\ KeyOf[r] \in keyed)'
      BY <3>3 DEF LateFindsKey
    <3>4. QED
      BY <3>1, <3>2, <3>3 DEF LateFindsKey
  <2>3. (/\ LateDuplicatesRejected /\ ResponsesAreHonest
         /\ KeysTakenByPublished)'
    BY DEF LateDuplicatesRejected, ResponsesAreHonest, KeysTakenByPublished
  <2>4. QED
    BY <2>1, <2>2, <2>3
<1>3. CASE Edit \/ \E k \in Records : CacheExpires(k)
  <2>1. TypeOK'
    <3>1. ASSUME NEW k \in Records, CacheExpires(k)
          PROVE  TypeOK'
      BY <3>1 DEF CacheExpires, TypeOK, Values
    <3>2. CASE Edit
      <4>1. source + 1 \in Edits
        BY <3>2, GatewayAssumption DEF Edit, TypeOK, Edits
      <4>2. optedOut' \subseteq Requests
        BY <3>2 DEF Edit, TypeOK
      <4>3. QED
        BY <3>2, <4>1, <4>2 DEF Edit, TypeOK
    <3>3. QED
      BY <1>3, <3>1, <3>2
  <2>2. QED
    BY <1>3, <2>1 DEF CacheExpires, Edit, Published, PreferencesChecked, LateFindsKey,
                LateDuplicatesRejected, ResponsesAreHonest, KeysTakenByPublished
<1>4. CASE UNCHANGED vars
  BY <1>4 DEF vars, TypeOK, Published, PreferencesChecked, LateFindsKey,
              LateDuplicatesRejected, ResponsesAreHonest, KeysTakenByPublished
<1>5. QED
  BY <1>1, <1>2, <1>3, <1>4

-----------------------------------------------------------------------------
\* An execution never makes user, cache or a filling execution forget the
\* opt-out: what it fetches is the record of user-service, what it fills in
\* was fetched, and a record without preferences is no permission.
LEMMA SaysNoStays ==
    ASSUME CoreInv, UserSaysNo, NEW r \in Requests, Arrive(r) \/ Execution(r)
    PROVE  UserSaysNo'
<1> USE GatewayAssumption DEF CoreInv, TypeOK, UserSaysNo, Filling, Records, Edits, Values,
                              redisVars, serviceVars, Go, Respond, Filled
<1>1. CASE \/ Arrive(r) \/ CheckIdempotency(r) \/ CheckPreferences(r)
           \/ Publish(r) \/ SetIdempotency(r) \/ SetPending(r)
  BY <1>1 DEF Arrive, CheckIdempotency, GoOn, CheckPreferences, Publish, PublishFails,
              SetIdempotency, SetPending
<1>2. CASE ReadCache(r)
  BY <1>2 DEF ReadCache, NextLookup, See
<1>3. CASE Fetch(r)
  <2>1. UNCHANGED <<source, cache, looking>>
    BY <1>3 DEF Fetch
  <2>2. ASSUME NEW q \in Requests, Filling(q)'
        PROVE  seen'[q]["user"] \notin AllowedEdits
    <3>1. CASE q # r
      <4>1. Filling(q) /\ seen'[q] = seen[q]
        BY <1>3, <3>1, <2>2 DEF Fetch, See
      <4>2. QED
        BY <4>1
    <3>2. CASE q = r
      <4>1. looking[r] = "user" /\ (See(r, Bare) \/ See(r, RestRecord(r)))
        BY <1>3, <3>2, <2>2 DEF Fetch
      <4>2. QED
        BY <3>2, <4>1, SeenUser, ValuesSeen, ZenonT(40) DEF RestRecord
    <3>3. QED
      BY <3>1, <3>2
  <2>3. QED
    BY <2>1, <2>2
<1>4. CASE FillCache(r)
  BY <1>4 DEF FillCache, NextLookup
<1>5. CASE RedisFails(r)
  BY <1>5 DEF RedisFails
<1>6. QED
  BY <1>1, <1>2, <1>3, <1>4, <1>5 DEF Execution

\* What an execution sees is no permission while nobody knows of one.
LEMMA SeesNo ==
    ASSUME CoreInv, NoStaysKnown, NEW r \in Requests, Execution(r),
           NEW q \in optedOut
    PROVE  seen'[q]["user"] \notin AllowedEdits
<1>1. /\ TypeOK /\ q \in Requests
      /\ seen[q]["user"] \notin AllowedEdits
      /\ pc[q] # "done" => UserSaysNo
  BY DEF CoreInv, TypeOK, NoStaysKnown
<1>2. CASE UNCHANGED seen
  BY <1>1, <1>2
<1>3. ASSUME NEW value \in Values, See(r, value), pc[r] # "done",
             looking[r] = "user" /\ UserSaysNo => value \notin AllowedEdits
      PROVE  seen'[q]["user"] \notin AllowedEdits
  BY <1>1, <1>3, SeenUser
<1>4. CASE ReadCache(r)
  <2>1. \/ UNCHANGED seen
        \/ See(r, cache[looking[r]]) /\ pc[r] # "done"
    BY <1>4 DEF ReadCache
  <2>2. QED
    BY <1>1, <1>2, <1>3, <2>1, ValuesSeen DEF UserSaysNo
<1>5. CASE Fetch(r)
  <2>1. \/ UNCHANGED seen
        \/ See(r, Bare) /\ pc[r] # "done"
        \/ See(r, RestRecord(r)) /\ pc[r] # "done"
    BY <1>5 DEF Fetch
  <2>2. Bare \notin AllowedEdits
    BY GatewayAssumption
  <2>3. looking[r] = "user" /\ UserSaysNo => RestRecord(r) \notin AllowedEdits
    BY DEF RestRecord, UserSaysNo
  <2>4. Bare \in Values /\ RestRecord(r) \in Values
    BY <1>1, ValuesSeen
  <2>5. QED
    BY <1>2, <1>3, <2>1, <2>2, <2>3, <2>4
<1>6. QED
  BY <1>2, <1>4, <1>5
  DEF Execution, CheckIdempotency, FillCache, CheckPreferences, Publish, SetIdempotency,
      SetPending, RedisFails

\* Every step keeps what is known of opt-outs, and honours them.
LEMMA OptOutSteps ==
    ASSUME GatewayInv, [Next]_vars
    PROVE  OptOutInv'
<1> USE DEF GatewayInv, OptOutInv
<1>1. ASSUME NEW r \in Requests, Arrive(r)
      PROVE  OptOutInv'
  <2>1. UserSaysNo => UserSaysNo'
    BY <1>1, SaysNoStays
  <2>2. /\ optedOut' = IF UserSaysNo THEN optedOut \cup {r} ELSE optedOut
        /\ pc' = [pc EXCEPT ![r] = "check"] /\ pc[r] = "idle"
        /\ UNCHANGED <<seen, published>>
    BY <1>1 DEF Arrive, Go, serviceVars
  <2>3. r \notin published /\ seen[r]["user"] = Absent /\ Absent \notin AllowedEdits
    BY <2>2, GatewayAssumption DEF CoreInv, Published, PreferencesChecked, Before
  <2>4. NoStaysKnown'
    BY <2>1, <2>2, <2>3 DEF NoStaysKnown, CoreInv, TypeOK
  <2>5. OptOutsHonoured'
    BY <2>2, <2>3 DEF OptOutsHonoured
  <2>6. QED
    BY <2>4, <2>5
<1>2. ASSUME NEW r \in Requests, Execution(r)
      PROVE  OptOutInv'
  <2> USE <1>2
  <2>1. UserSaysNo => UserSaysNo'
    BY SaysNoStays DEF GatewayInv
  <2>2. optedOut' = optedOut
    BY DEF Execution, CheckIdempotency, ReadCache, Fetch, FillCache, CheckPreferences,
           Publish, SetIdempotency, SetPending, RedisFails, historyVars
  <2>3. \A q \in Requests : pc'[q] # "done" => pc[q] # "done"
    BY DEF Execution, CheckIdempotency, GoOn, ReadCache, NextLookup, Fetch, FillCache,
           CheckPreferences, Publish, PublishFails, SetIdempotency, SetPending, RedisFails,
           Go, Respond, CoreInv, TypeOK
  <2>4. optedOut \subseteq Requests
    BY DEF CoreInv, TypeOK
  <2>5. NoStaysKnown'
    BY <2>1, <2>2, <2>3, <2>4, SeesNo DEF NoStaysKnown
  <2>6. ASSUME NEW q \in optedOut, q \in published'
        PROVE  seen'[q]["user"] = Bare
    <3>1. CASE Publish(r) /\ q = r
      BY <3>1, <2>6 DEF Publish, CoreInv, PreferencesChecked, NoStaysKnown, TypeOK
    <3>2. CASE ~(Publish(r) /\ q = r)
      <4>1. q \in published
        BY <3>2, <2>6
        DEF Execution, CheckIdempotency, ReadCache, Fetch, FillCache, CheckPreferences,
            Publish, PublishFails, SetIdempotency, SetPending, RedisFails, serviceVars
      <4>2. q \in Requests /\ pc[q] \notin Before
        BY <4>1, <2>4 DEF CoreInv, Published
      <4>3. seen'[q] = seen[q]
        BY <4>2
        DEF Execution, CheckIdempotency, ReadCache, Fetch, FillCache, CheckPreferences, See,
            Publish, SetIdempotency, SetPending, RedisFails, Before, CoreInv, TypeOK
      <4>4. QED
        BY <4>1, <4>3 DEF OptOutsHonoured
    <3>3. QED
      BY <3>1, <3>2
  <2>7. OptOutsHonoured'
    BY <2>2, <2>6 DEF OptOutsHonoured
  <2>8. QED
    BY <2>5, <2>7
<1>3. CASE Edit
  <2> USE <1>3 DEF Edit, redisVars, executionVars
  <2>1. NoStaysKnown'
    BY DEF NoStaysKnown, UserSaysNo, Filling
  <2>2. OptOutsHonoured'
    BY DEF OptOutsHonoured
  <2>3. QED
    BY <2>1, <2>2
<1>4. ASSUME NEW k \in Records, CacheExpires(k)
      PROVE  OptOutInv'
  <2> USE <1>4 DEF CacheExpires, serviceVars, executionVars, historyVars
  <2>1. UserSaysNo => UserSaysNo'
    BY GatewayAssumption DEF UserSaysNo, Filling, CoreInv, TypeOK, Records
  <2>2. QED
    BY <2>1 DEF NoStaysKnown, OptOutsHonoured
<1>5. CASE \/ UNCHANGED vars
           \/ \E k \in Keys : KeyExpires(k)
           \/ \E r \in Requests, s \in Terminal :
                 PostChannelStatus(r, s) \/ PostStatus(r, s)
  BY <1>5 DEF vars, redisVars, serviceVars, executionVars, historyVars, KeyExpires,
              PostChannelStatus, PostStatus, NoStaysKnown, UserSaysNo, Filling,
              OptOutsHonoured
<1>6. QED
  BY <1>1, <1>2, <1>3, <1>4, <1>5 DEF Next

-----------------------------------------------------------------------------
\* Every reachable state of the gateway satisfies GatewayInv.
THEOREM GatewayInvariant == Spec => []GatewayInv
<1>1. Init => GatewayInv
  BY CoreInitially DEF GatewayInv, OptOutInv, Init, NoStaysKnown, OptOutsHonoured
<1>2. GatewayInv /\ [Next]_vars => GatewayInv'
  BY EarlySteps, LateSteps, OtherSteps, OptOutSteps DEF Next, Execution, GatewayInv
<1>3. QED
  BY <1>1, <1>2, PTL DEF Spec

\* sendNotification keeps every variable in its type, and answers exactly when
\* it ends.
THEOREM TypeCorrect == Spec => []TypeOK
BY GatewayInvariant, PTL DEF GatewayInv, CoreInv

\* A request that arrives after another one with its key was answered with
\* success, before the key expires, is never published
\* (notification.service.ts:38-43, 105).
THEOREM LateDuplicates == Spec => []LateDuplicatesRejected
BY GatewayInvariant, PTL DEF GatewayInv, CoreInv

\* The answers 202, 400 and 404 say truly whether the message was published
\* (notification.service.ts:39-133).
THEOREM HonestResponses == Spec => []ResponsesAreHonest
BY GatewayInvariant, PTL DEF GatewayInv, CoreInv

\* A request that was not published leaves its idempotency key free
\* (notification.service.ts:94-105).
THEOREM FreeKeys == Spec => []KeysTakenByPublished
BY GatewayInvariant, PTL DEF GatewayInv, CoreInv

\* A request that arrives when user-service, the cache and everybody about to
\* fill it know of the opt-out is not published, but for records without
\* preferences (notification.service.ts:46-57, 136-178, 213-218).
THEOREM OptOuts == Spec => []OptOutsHonoured
BY GatewayInvariant, PTL DEF GatewayInv, OptOutInv
=============================================================================
