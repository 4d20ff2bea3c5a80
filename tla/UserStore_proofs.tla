-------------------------- MODULE UserStore_proofs --------------------------
(***************************************************************************)
(* Proofs about UserStore, for any number of requests, any passwords and   *)
(* any tokens.                                                             *)
(***************************************************************************)
EXTENDS UserStore, TLAPS

\* Only the password of the one stored registration was accepted.
AcceptedIsStored ==
    /\ user = None => accepted = {}
    /\ user # None => accepted \subseteq {user.password}

\* An update in progress holds the row's value of every field that it does
\* not set, except those that changed since it read the row.
HoldsTheRest ==
    \A r \in Requests :
        pc[r] \in {"loading", "writing"} =>
            /\ user # None
            /\ \A f \in Fields \ (sets[r] \cup overtaken[r]) :
                  mine[r].settings[f] = user.settings[f]

\* Until two requests overlap, one is in progress, and its view is current.
AloneIsCurrent ==
    ~overlapped =>
        /\ \A r, o \in Requests : pc[r] # "idle" /\ pc[o] # "idle" => r = o
        /\ \A r \in Requests : /\ overtaken[r] = {}
                               /\ pc[r] = "writing" => loaded[r] = user.settings

IInv ==
    /\ TypeOK
    /\ AcceptedIsStored
    /\ HoldsTheRest
    /\ AloneIsCurrent
    /\ SettingsAsAsked

-----------------------------------------------------------------------------
\* The columns consist of fields.
LEMMA FieldsAre ==
    /\ Fields = {"email_enabled", "push_enabled", "fcm_token"}
    /\ \A column \in Columns : column \subseteq Fields
    BY DEF Fields, Columns, Preferences

\* A change sets some of the fields, each to a value that it can have.
LEMMA ChangeType ==
    ASSUME NEW change \in Changes
    PROVE  /\ DOMAIN change \subseteq Fields
           /\ \A f \in DOMAIN change : change[f] \in BOOLEAN \cup Tokens
<1>1. ASSUME NEW F \in SUBSET Preferences, change \in [F -> BOOLEAN]
      PROVE  /\ DOMAIN change \subseteq Fields
             /\ \A f \in DOMAIN change : change[f] \in BOOLEAN \cup Tokens
    <2>1. DOMAIN change = F /\ F \subseteq Fields
        BY <1>1, FieldsAre DEF Preferences
    <2> QED
        BY <1>1, <2>1
<1>2. CASE change \in [{"fcm_token"} -> Tokens]
    BY <1>2, FieldsAre
<1> QED
    BY <1>1, <1>2, Zenon DEF Changes

\* What an update saves is a setting for every field.
LEMMA WithType ==
    ASSUME NEW settings \in Settings, NEW change \in Changes
    PROVE  With(settings, change) \in Settings
    BY ChangeType DEF With, Settings

\* What an UPDATE stores are settings.
LEMMA StoredType ==
    ASSUME TypeOK, user # None, NEW r \in Requests, mine[r] # None
    PROVE  Stored(r) \in Settings
<1>1. user.settings \in Settings /\ mine[r].settings \in Settings
    BY DEF TypeOK, User
<1> QED
    BY <1>1 DEF Stored, Settings

\* Where entity and selected row agree, it makes no difference which is kept.
LEMMA StoredIsMine ==
    ASSUME NEW r \in Requests, loaded[r] = user.settings, NEW f \in Fields
    PROVE  Stored(r)[f] = mine[r].settings[f]
<1>1. Stored(r)[f] = IF f \in Updated(r) THEN mine[r].settings[f] ELSE user.settings[f]
    BY DEF Stored
<1>2. CASE f \notin Updated(r)
    <2>1. PICK column \in Columns : f \in column
        BY DEF Fields
    <2>2. ~Differs(r, column)
        BY <1>2, <2>1 DEF Updated
    <2> QED
        BY <1>1, <1>2, <2>1, <2>2 DEF Differs
<1> QED
    BY <1>1, <1>2

\* There is no row, and nothing in progress.
LEMMA InitIsGood == Init => IInv
<1> SUFFICES ASSUME Init PROVE IInv
    OBVIOUS
<1>1. NoSettings \in Settings
    BY DEF NoSettings, Settings
<1>2. TypeOK
    BY <1>1 DEF Init, TypeOK
<1>3. AcceptedIsStored /\ HoldsTheRest /\ AloneIsCurrent /\ SettingsAsAsked
    BY DEF Init, AcceptedIsStored, HoldsTheRest, AloneIsCurrent, SettingsAsAsked
<1> QED
    BY <1>2, <1>3 DEF IInv

\* The step that starts a request, shared by registrations and updates.
LEMMA StartIsGood ==
    ASSUME IInv, NEW r \in Requests, NEW phase \in {"hashing", "loading"},
           NEW entity \in User, NEW fields \in SUBSET Fields,
           Start(r, phase, entity, fields),
           phase = "loading" =>
              /\ user # None
              /\ \A f \in Fields \ fields : entity.settings[f] = user.settings[f]
    PROVE  IInv'
<1> USE DEF IInv, Start
<1>1. TypeOK'
    BY UserAssumption DEF TypeOK
<1>2. AcceptedIsStored'
    BY DEF AcceptedIsStored
<1>3. HoldsTheRest'
    BY DEF HoldsTheRest, TypeOK
<1>4. AloneIsCurrent'
    BY DEF AloneIsCurrent, TypeOK
<1>5. SettingsAsAsked'
    BY DEF SettingsAsAsked
<1> QED
    BY <1>1, <1>2, <1>3, <1>4, <1>5

\* register up to its INSERT writes nothing.
LEMMA BeginRegisterIsGood ==
    ASSUME IInv, NEW r \in Requests, NEW password \in Passwords,
           NEW choice \in Choices, NEW token \in Tokens \cup {Unset},
           BeginRegister(r, password, choice, token)
    PROVE  IInv'
<1>1. Registered(password, choice, token) \in User
    BY FieldsAre DEF Registered, NoSettings, User, Settings
<1> QED
    BY <1>1, StartIsGood DEF BeginRegister

\* An update begins with what it has just read, and with what it is asked for.
LEMMA BeginUpdateIsGood ==
    ASSUME IInv, NEW r \in Requests, NEW change \in Changes,
           BeginUpdate(r, change)
    PROVE  IInv'
<1> DEFINE entity == [user EXCEPT !.settings = With(user.settings, change)]
<1>1. user \in User /\ user.settings \in Settings
    BY DEF BeginUpdate, IInv, TypeOK, User
<1>2. entity \in User /\ entity.settings = With(user.settings, change)
    BY <1>1, WithType DEF User
<1>3. DOMAIN change \in SUBSET Fields
    BY ChangeType
<1>4. \A f \in Fields \ DOMAIN change : entity.settings[f] = user.settings[f]
    BY <1>2 DEF With
<1>5. Start(r, "loading", entity, DOMAIN change) /\ user # None
    BY DEF BeginUpdate
<1> HIDE DEF entity
<1> QED
    BY <1>2, <1>3, <1>4, <1>5, StartIsGood

\* Only the INSERT that makes the row accepts a password.
LEMMA InsertIsGood ==
    ASSUME IInv, NEW r \in Requests, Insert(r)
    PROVE  IInv'
<1> USE DEF IInv, Insert, End, EmailIsFree
<1>1. mine[r] \in User /\ mine[r].password \in Passwords /\ mine[r].settings \in Settings
    BY DEF TypeOK, User
<1>2. TypeOK'
    BY <1>1 DEF TypeOK
<1>3. AcceptedIsStored'
    BY <1>1, UserAssumption DEF AcceptedIsStored
<1>4. HoldsTheRest'
    BY <1>1, UserAssumption DEF HoldsTheRest, TypeOK
<1>5. AloneIsCurrent'
    BY DEF AloneIsCurrent, HoldsTheRest, TypeOK
<1>6. SettingsAsAsked'
    BY DEF SettingsAsAsked
<1> QED
    BY <1>2, <1>3, <1>4, <1>5, <1>6

\* The SELECT of save sees the row as it is now.
LEMMA LoadIsGood ==
    ASSUME IInv, NEW r \in Requests, Load(r)
    PROVE  IInv'
<1> USE DEF IInv, Load, historyVars
<1>1. user \in User /\ user.settings \in Settings
    BY DEF HoldsTheRest, TypeOK, User
<1>2. TypeOK'
    BY <1>1, UserAssumption DEF TypeOK
<1>3. AcceptedIsStored' /\ SettingsAsAsked'
    BY DEF AcceptedIsStored, SettingsAsAsked
<1>4. HoldsTheRest'
    BY DEF HoldsTheRest, TypeOK
<1>5. AloneIsCurrent'
    BY DEF AloneIsCurrent, TypeOK
<1> QED
    BY <1>2, <1>3, <1>4, <1>5

\* The UPDATE of save changes the fields asked for, and puts back what the
\* request has been overtaken in.
LEMMA WriteIsGood ==
    ASSUME IInv, NEW r \in Requests, Write(r)
    PROVE  IInv'
<1> USE DEF IInv, Write, End
<1>1. /\ user # None /\ user \in User /\ user.settings \in Settings
      /\ mine[r] # None /\ mine[r].settings \in Settings
    BY DEF HoldsTheRest, TypeOK, User
<1>2. /\ Stored(r) \in Settings
      /\ user' \in User /\ user'.settings = Stored(r)
      /\ user'.password = user.password
    BY <1>1, StoredType DEF User
<1>3. user' # None
    BY <1>2, UserAssumption
<1>4. TypeOK'
    <2>1. wanted' \in Settings
        BY <1>1 DEF TypeOK, Settings
    <2>2. overtaken' \in [Requests -> SUBSET Fields]
        BY DEF TypeOK
    <2> QED
        BY <1>2, <2>1, <2>2 DEF TypeOK
<1>5. AcceptedIsStored'
    BY <1>1, <1>2, <1>3 DEF AcceptedIsStored
<1>6. HoldsTheRest'
    <2> SUFFICES ASSUME NEW o \in Requests, pc'[o] \in {"loading", "writing"},
                        NEW f \in Fields \ (sets'[o] \cup overtaken'[o])
                 PROVE  mine'[o].settings[f] = user'.settings[f]
        BY <1>3 DEF HoldsTheRest
    <2>1. o # r /\ pc[o] = pc'[o] /\ mine'[o] = mine[o] /\ sets'[o] = sets[o]
        BY DEF TypeOK
    <2>2. f \notin overtaken[o] /\ Stored(r)[f] = user.settings[f]
        BY <2>1
    <2> QED
        BY <1>2, <2>1, <2>2 DEF HoldsTheRest
<1>7. AloneIsCurrent'
    BY DEF AloneIsCurrent, TypeOK
<1>8. SettingsAsAsked'
    <2> SUFFICES ASSUME ~overlapped PROVE Stored(r) = wanted'
        BY <1>2 DEF SettingsAsAsked
    <2>1. loaded[r] = user.settings /\ overtaken[r] = {} /\ user.settings = wanted
        BY <1>1 DEF AloneIsCurrent, SettingsAsAsked
    <2>2. \A f \in Fields : Stored(r)[f] = mine[r].settings[f]
        BY <2>1, StoredIsMine
    <2>3. \A f \in Fields \ sets[r] : mine[r].settings[f] = wanted[f]
        BY <2>1 DEF HoldsTheRest
    <2>4. \A f \in Fields : Stored(r)[f] = wanted'[f]
        BY <2>2, <2>3
    <2> QED
        BY <2>4, <1>2, <1>4 DEF TypeOK, Settings
<1> QED
    BY <1>4, <1>5, <1>6, <1>7, <1>8

\* A request that ends early leaves the row alone.
LEMMA AbortIsGood ==
    ASSUME IInv, NEW r \in Requests, Abort(r)
    PROVE  IInv'
<1> USE DEF IInv, Abort, End
<1>1. TypeOK'
    BY DEF TypeOK
<1>2. AcceptedIsStored' /\ SettingsAsAsked'
    BY DEF AcceptedIsStored, SettingsAsAsked
<1>3. HoldsTheRest'
    BY DEF HoldsTheRest, TypeOK
<1>4. AloneIsCurrent'
    BY DEF AloneIsCurrent, TypeOK
<1> QED
    BY <1>1, <1>2, <1>3, <1>4

\* Every step keeps the invariant.
LEMMA NextIsGood == IInv /\ [Next]_vars => IInv'
<1> SUFFICES ASSUME IInv, [Next]_vars PROVE IInv'
    OBVIOUS
<1>1. CASE Next
    <2> USE <1>1
    <2> PICK r \in Requests :
          \/ \E password \in Passwords, choice \in Choices,
                token \in Tokens \cup {Unset} :
                   BeginRegister(r, password, choice, token)
          \/ \E change \in Changes : BeginUpdate(r, change)
          \/ Insert(r) \/ Load(r) \/ Write(r) \/ Abort(r)
        BY DEF Next
    <2> QED
        BY BeginRegisterIsGood, BeginUpdateIsGood, InsertIsGood, LoadIsGood,
           WriteIsGood, AbortIsGood
<1>2. CASE UNCHANGED vars
    BY <1>2 DEF vars, requestVars, historyVars, IInv, TypeOK, AcceptedIsStored,
                HoldsTheRest, AloneIsCurrent, SettingsAsAsked
<1> QED
    BY <1>1, <1>2

-----------------------------------------------------------------------------
\* The inductive invariant holds in every reachable state.
THEOREM UserInvariant == Spec => []IInv
    BY InitIsGood, NextIsGood, PTL DEF Spec

\* The variables keep their types, and a request its entity while it runs.
THEOREM TypeCorrect == Spec => []TypeOK
<1>1. IInv => TypeOK
    BY DEF IInv
<1> QED
    BY <1>1, UserInvariant, PTL

\* Whoever was told that the registration succeeded can log in
\* (auth.service.ts:19-33).
THEOREM RegisteredUsers == Spec => []RegisteredCanLogIn
<1>1. IInv => RegisteredCanLogIn
    BY DEF IInv, AcceptedIsStored, RegisteredCanLogIn, LogsIn
<1> QED
    BY <1>1, UserInvariant, PTL

\* Requests that never overlap leave the settings they asked for
\* (users.service.ts:25-51).
THEOREM SequentialSettings == Spec => []SettingsAsAsked
<1>1. IInv => SettingsAsAsked
    BY DEF IInv
<1> QED
    BY <1>1, UserInvariant, PTL

\* An update puts back only what changed since it read the row
\* (users.service.ts:26-38, 45-51).
THEOREM StaleSettings == Spec => OnlyStaleSettingsRevert
<1> DEFINE Excused ==
        \A f \in Fields :
            user # None /\ user'.settings[f] # user.settings[f]
            => \E r \in Requests : /\ pc[r] = "writing"
                                   /\ pc'[r] = "idle"
                                   /\ f \in sets[r] \cup overtaken[r]
<1>1. ASSUME IInv, Next PROVE Excused
    <2> SUFFICES ASSUME NEW f \in Fields, user # None,
                        user'.settings[f] # user.settings[f]
                 PROVE  \E r \in Requests : /\ pc[r] = "writing"
                                            /\ pc'[r] = "idle"
                                            /\ f \in sets[r] \cup overtaken[r]
        OBVIOUS
    <2>1. PICK r \in Requests : Write(r)
        BY <1>1 DEF Next, BeginRegister, BeginUpdate, Start, Insert, EmailIsFree,
                    Load, Abort
    <2>2. pc[r] = "writing" /\ pc'[r] = "idle"
        BY <1>1, <2>1 DEF Write, End, IInv, TypeOK
    <2>3. user'.settings = Stored(r)
        BY <1>1, <2>1 DEF Write, IInv, TypeOK, User
    <2>4. mine[r].settings[f] # user.settings[f]
        BY <2>3 DEF Stored
    <2> QED
        BY <1>1, <2>2, <2>4 DEF IInv, HoldsTheRest
<1>2. IInv /\ [Next]_vars => [Excused]_vars
    BY <1>1
<1> QED
    BY <1>2, UserInvariant, PTL DEF Spec, OnlyStaleSettingsRevert

-----------------------------------------------------------------------------
(***************************************************************************)
(* RegistrationChoiceHolds is false: a choice not to use a channel is      *)
(* disregarded.  This is the only way in which it is false.                *)
(***************************************************************************)

\* A preference has a value, in the row or in an entity that will be saved,
\* only when some request asked for one, or the request that holds it does.
ValuesAreAsked ==
    \A f \in Preferences :
        /\ user # None /\ user.settings[f] # Unset => wanted[f] # Unset
        /\ \A r \in Requests :
              pc[r] # "idle" =>
                 /\ f \in sets[r] => mine[r].settings[f] # Unset
                 /\ mine[r].settings[f] # Unset =>
                       pc[r] # "hashing" /\ (f \in sets[r] \/ wanted[f] # Unset)

\* A preference that an update asks for is on or off.
LEMMA AskedIsSet ==
    ASSUME Unset \notin BOOLEAN, NEW change \in Changes,
           NEW f \in Preferences, f \in DOMAIN change
    PROVE  change[f] # Unset
<1>1. CASE \E F \in SUBSET Preferences : change \in [F -> BOOLEAN]
    BY <1>1
<1>2. CASE change \in [{"fcm_token"} -> Tokens]
    BY <1>2 DEF Preferences
<1> QED
    BY <1>1, <1>2 DEF Changes

\* Registrations set no preference, and updates only those they ask for.
LEMMA StartAsks ==
    ASSUME ValuesAreAsked, NEW r \in Requests, TypeOK, NEW phase, NEW entity, NEW fields,
           Start(r, phase, entity, fields),
           \A f \in Preferences :
              /\ f \in fields => entity.settings[f] # Unset
              /\ entity.settings[f] # Unset =>
                    phase # "hashing" /\ (f \in fields \/ wanted[f] # Unset)
    PROVE  ValuesAreAsked'
    BY DEF ValuesAreAsked, Start, TypeOK

\* A step keeps the values those that were asked for.
LEMMA NextAsks ==
    ASSUME Unset \notin BOOLEAN, IInv, ValuesAreAsked, [Next]_vars
    PROVE  ValuesAreAsked'
<1> USE DEF IInv
<1>1. Preferences \subseteq Fields /\ "fcm_token" \notin Preferences
    BY FieldsAre DEF Preferences
<1>2. ASSUME NEW r \in Requests, NEW password \in Passwords, NEW choice \in Choices,
             NEW token \in Tokens \cup {Unset}, BeginRegister(r, password, choice, token)
      PROVE  ValuesAreAsked'
    <2>1. \A f \in Preferences : Registered(password, choice, token).settings[f] = Unset
        BY <1>1 DEF Registered, NoSettings
    <2> QED
        BY <1>2, <2>1, StartAsks DEF BeginRegister
<1>3. ASSUME NEW r \in Requests, NEW change \in Changes, BeginUpdate(r, change)
      PROVE  ValuesAreAsked'
    <2> DEFINE entity == [user EXCEPT !.settings = With(user.settings, change)]
    <2>1. entity.settings = With(user.settings, change) /\ user # None
        BY <1>3 DEF BeginUpdate, TypeOK, User
    <2>2. \A f \in Preferences :
             /\ f \in DOMAIN change => entity.settings[f] # Unset
             /\ entity.settings[f] # Unset => f \in DOMAIN change \/ wanted[f] # Unset
        BY <1>1, <2>1, AskedIsSet DEF With, ValuesAreAsked
    <2>3. Start(r, "loading", entity, DOMAIN change)
        BY <1>3 DEF BeginUpdate
    <2> HIDE DEF entity
    <2> QED
        BY <2>2, <2>3, StartAsks
<1>4. ASSUME NEW r \in Requests, End(r)
      PROVE  \A o \in Requests :
                pc'[o] # "idle" => /\ pc'[o] = pc[o] /\ mine'[o] = mine[o]
                                   /\ sets'[o] = sets[o]
    BY <1>4 DEF End, TypeOK
<1>5. ASSUME NEW r \in Requests, Insert(r) PROVE ValuesAreAsked'
    <2>1. \A f \in Preferences : mine[r].settings[f] = Unset
        BY <1>5 DEF Insert, ValuesAreAsked
    <2>2. user = None => \A o \in Requests : pc[o] \in {"idle", "hashing"}
        BY DEF HoldsTheRest, TypeOK
    <2> QED
        BY <1>4, <1>5, <2>1, <2>2 DEF Insert, EmailIsFree, ValuesAreAsked
<1>6. ASSUME NEW r \in Requests, Load(r) PROVE ValuesAreAsked'
    BY <1>6 DEF Load, historyVars, ValuesAreAsked, TypeOK
<1>7. ASSUME NEW r \in Requests, Write(r) PROVE ValuesAreAsked'
    <2>1. user # None /\ user'.settings = Stored(r)
        BY <1>7 DEF Write, HoldsTheRest, TypeOK, User
    <2>2. \A f \in Preferences :
             /\ wanted'[f] = IF f \in sets[r] THEN mine[r].settings[f] ELSE wanted[f]
             /\ Stored(r)[f] \in {mine[r].settings[f], user.settings[f]}
        BY <1>1, <1>7 DEF Write, Stored
    <2>3. \A f \in Preferences : wanted[f] # Unset => wanted'[f] # Unset
        BY <1>7, <2>2 DEF Write, ValuesAreAsked
    <2>4. \A f \in Preferences : Stored(r)[f] # Unset => wanted'[f] # Unset
        BY <1>7, <2>1, <2>2 DEF Write, ValuesAreAsked
    <2>5. ASSUME NEW o \in Requests, pc'[o] # "idle"
          PROVE  pc'[o] = pc[o] /\ mine'[o] = mine[o] /\ sets'[o] = sets[o]
        BY <1>4, <1>7, <2>5 DEF Write
    <2>6. ASSUME NEW f \in Preferences, user'.settings[f] # Unset
          PROVE  wanted'[f] # Unset
        BY <2>1, <2>4, <2>6
    <2>7. ASSUME NEW f \in Preferences, NEW o \in Requests, pc'[o] # "idle"
          PROVE  /\ f \in sets'[o] => mine'[o].settings[f] # Unset
                 /\ mine'[o].settings[f] # Unset =>
                       pc'[o] # "hashing" /\ (f \in sets'[o] \/ wanted'[f] # Unset)
        <3>1. pc[o] # "idle"
            BY <2>5, <2>7
        <3>2. /\ f \in sets[o] => mine[o].settings[f] # Unset
              /\ mine[o].settings[f] # Unset =>
                    pc[o] # "hashing" /\ (f \in sets[o] \/ wanted[f] # Unset)
            BY <3>1 DEF ValuesAreAsked
        <3> QED
            BY <2>3, <2>5, <2>7, <3>2
    <2> QED
        BY <2>6, <2>7 DEF ValuesAreAsked
<1>8. ASSUME NEW r \in Requests, Abort(r) PROVE ValuesAreAsked'
    BY <1>4, <1>8 DEF Abort, ValuesAreAsked
<1>9. CASE UNCHANGED vars
    BY <1>9 DEF vars, requestVars, historyVars, ValuesAreAsked
<1> QED
    BY <1>2, <1>3, <1>5, <1>6, <1>7, <1>8, <1>9 DEF Next

\* Until some request sets the preference of a channel, the gateway uses the
\* channel, whatever was chosen at registration (users.service.ts:32-38,
\* notification.service.ts:213-218).
THEOREM NothingAskedNothingRefused ==
    ASSUME Unset \notin BOOLEAN
    PROVE  Spec => [](\A channel \in Channels :
                         user # None /\ wanted[EnabledKey(channel)] = Unset
                         => IsChannelAllowed(channel))
<1>1. Init => ValuesAreAsked
    BY DEF Init, ValuesAreAsked
<1>2. IInv /\ ValuesAreAsked /\ [Next]_vars => ValuesAreAsked'
    BY NextAsks
<1>3. ValuesAreAsked =>
         \A channel \in Channels :
            user # None /\ wanted[EnabledKey(channel)] = Unset
            => IsChannelAllowed(channel)
    BY DEF ValuesAreAsked, EnabledKey, IsChannelAllowed, Preferences
<1> QED
    BY <1>1, <1>2, <1>3, UserInvariant, PTL DEF Spec

\* So a choice to use the channels does hold (register.dto.ts:6-10).
THEOREM ConsentHolds ==
    ASSUME Unset \notin BOOLEAN,
           \A choice \in Choices, channel \in Channels : choice[channel] = TRUE
    PROVE  Spec => []RegistrationChoiceHolds
<1> DEFINE Used == \A channel \in Channels :
                      user # None /\ wanted[EnabledKey(channel)] = Unset
                      => IsChannelAllowed(channel)
<1>1. Spec => []Used
    BY NothingAskedNothingRefused
<1>2. IInv /\ Used => RegistrationChoiceHolds
    BY DEF IInv, TypeOK, User, RegistrationChoiceHolds, IsChannelAllowed
<1> QED
    BY <1>1, <1>2, UserInvariant, PTL
=============================================================================
