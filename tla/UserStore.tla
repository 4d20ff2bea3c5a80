----------------------------- MODULE UserStore -----------------------------
(***************************************************************************)
(* user-service: the row of `users' for one e-mail address, which register *)
(* (auth.service.ts) inserts and updatePreferences and updatePushToken     *)
(* (users.service.ts) change, in concurrent requests.  Both updates load   *)
(* the whole entity, change a part of it and save the whole entity.        *)
(*                                                                         *)
(* PostgreSQL and TypeORM are external.  Of TypeORM, Repository.save of an *)
(* entity that has an id first selects the row again, and then updates     *)
(* only the columns in which entity and row differ; `preferences' is one   *)
(* jsonb column.  A registration's own choice is stored in it under other  *)
(* keys (email, push), which no later request changes; api-gateway, which  *)
(* the preferences are for, reads those of the updates.                    *)
(***************************************************************************)
CONSTANTS
    Requests,       \* slots for requests in progress
    Passwords,
    Tokens,         \* FCM tokens
    Choices,        \* what a registration may choose
    Unset,          \* a key that `preferences' lacks, or fcm_token = null
    None

Channels == {"email", "push"}
Preferences == {"email_enabled", "push_enabled"}
Columns == {Preferences, {"fcm_token"}}
Fields == UNION Columns

Settings == [Fields -> BOOLEAN \cup Tokens \cup {Unset}]
User == [password : Passwords, choice : Choices, settings : Settings]

\* What an update request asks for: values for some fields.
Changes == (UNION {[F -> BOOLEAN] : F \in SUBSET Preferences})
           \cup [{"fcm_token"} -> Tokens]

ASSUME UserAssumption ==
    /\ Choices \subseteq [Channels -> BOOLEAN]
    /\ None \notin User \cup Settings

VARIABLES
    user,           \* the row
    pc,             \* where each request stands
    mine,           \* the entity a request works on
    loaded,         \* the settings of the row that its save has selected
    \* History variables
    sets,           \* the fields a request asks to set
    overtaken,      \* the fields that changed since the request read the row
    accepted,       \* the passwords of the registrations answered with 201
    wanted,         \* the values that the requests asked for, written last
    overlapped      \* two requests were in progress at a time

requestVars == <<pc, mine, loaded, sets>>
historyVars == <<overtaken, accepted, wanted, overlapped>>
vars == <<user, requestVars, historyVars>>

TypeOK ==
    /\ user \in User \cup {None}
    /\ pc \in [Requests -> {"idle", "hashing", "loading", "writing"}]
    /\ mine \in [Requests -> User \cup {None}]
    /\ loaded \in [Requests -> Settings \cup {None}]
    /\ sets \in [Requests -> SUBSET Fields]
    /\ overtaken \in [Requests -> SUBSET Fields]
    /\ accepted \subseteq Passwords
    /\ wanted \in Settings
    /\ overlapped \in BOOLEAN
    /\ \A r \in Requests :
          /\ pc[r] = "idle" <=> mine[r] = None
          /\ pc[r] = "writing" <=> loaded[r] # None

NoSettings == [f \in Fields |-> Unset]

Init ==
    /\ user = None
    /\ pc = [r \in Requests |-> "idle"]
    /\ mine = [r \in Requests |-> None]
    /\ loaded = [r \in Requests |-> None]
    /\ sets = [r \in Requests |-> {}]
    /\ overtaken = [r \in Requests |-> {}]
    /\ accepted = {}
    /\ wanted = NoSettings
    /\ overlapped = FALSE

-----------------------------------------------------------------------------
Start(r, phase, entity, fields) ==
    /\ pc[r] = "idle"
    /\ pc' = [pc EXCEPT ![r] = phase]
    /\ mine' = [mine EXCEPT ![r] = entity]
    /\ sets' = [sets EXCEPT ![r] = fields]
    /\ overlapped' = (overlapped \/ \E o \in Requests : pc[o] # "idle")
    /\ UNCHANGED <<user, loaded, overtaken, accepted, wanted>>

BugKeepsLoaded(r) ==
    /\ pc' = [pc EXCEPT ![r] = "idle"]
    /\ mine' = [mine EXCEPT ![r] = None]
    /\ UNCHANGED <<loaded, sets>>
End(r) ==
    /\ pc' = [pc EXCEPT ![r] = "idle"]
    /\ mine' = [mine EXCEPT ![r] = None]
    /\ loaded' = [loaded EXCEPT ![r] = None]
    /\ sets' = [sets EXCEPT ![r] = {}]

\* register up to its INSERT: no row has the address yet (else: 400).
Registered(password, choice, token) ==
    [password |-> password, choice |-> choice,
     settings |-> [NoSettings EXCEPT !["fcm_token"] = token]]

BeginRegister(r, password, choice, token) ==
    /\ user = None
    /\ Start(r, "hashing", Registered(password, choice, token), {})

\* INSERT, once the password is hashed.  The unique index on email refuses it
\* (500) when another registration was faster.
BugNoUniqueIndex == TRUE
EmailIsFree == user = None

Insert(r) ==
    /\ pc[r] = "hashing"
    /\ IF EmailIsFree
       THEN /\ user' = mine[r]
            /\ wanted' = mine[r].settings
            /\ accepted' = accepted \cup {mine[r].password}
       ELSE UNCHANGED <<user, accepted, wanted>>
    /\ End(r)
    /\ UNCHANGED <<overtaken, overlapped>>

\* updatePreferences and updatePushToken up to save: the entity as it was
\* read, and over it what the request asks for.
BugDropsTheOthers(settings, change) ==
    [f \in Fields |-> IF f \in DOMAIN change THEN change[f]
                      ELSE IF DOMAIN change \subseteq Preferences /\ f \in Preferences
                      THEN Unset ELSE settings[f]]
With(settings, change) ==
    [f \in Fields |-> IF f \in DOMAIN change THEN change[f] ELSE settings[f]]

BeginUpdate(r, change) ==
    /\ user # None
    /\ Start(r, "loading", [user EXCEPT !.settings = With(user.settings, change)],
             DOMAIN change)

\* save: SELECT ...
Load(r) ==
    /\ pc[r] = "loading"
    /\ loaded' = [loaded EXCEPT ![r] = user.settings]
    /\ pc' = [pc EXCEPT ![r] = "writing"]
    /\ UNCHANGED <<user, mine, sets, historyVars>>

\* ... and UPDATE of the columns that differ.
BugTokenNotCompared(r, column) ==
    column = Preferences /\ \E f \in column : mine[r].settings[f] # loaded[r][f]
Differs(r, column) == \E f \in column : mine[r].settings[f] # loaded[r][f]

Updated(r) == UNION {column \in Columns : Differs(r, column)}

Stored(r) ==
    [f \in Fields |-> IF f \in Updated(r) THEN mine[r].settings[f]
                                          ELSE user.settings[f]]

Write(r) ==
    /\ pc[r] = "writing"
    /\ user' = [user EXCEPT !.settings = Stored(r)]
    /\ wanted' = [f \in Fields |-> IF f \in sets[r] THEN mine[r].settings[f]
                                                    ELSE wanted[f]]
    /\ overtaken' = [o \in Requests |->
                        IF o = r \/ pc[o] = "idle" THEN {}
                        ELSE overtaken[o] \cup
                             {f \in Fields : Stored(r)[f] # user.settings[f]}]
    /\ End(r)
    /\ UNCHANGED <<accepted, overlapped>>

\* A statement fails, or the process does.
Abort(r) ==
    /\ pc[r] # "idle"
    /\ End(r)
    /\ overtaken' = [overtaken EXCEPT ![r] = {}]
    /\ UNCHANGED <<user, accepted, wanted, overlapped>>

Next ==
    \E r \in Requests :
        \/ \E password \in Passwords, choice \in Choices, token \in Tokens \cup {Unset} :
              BeginRegister(r, password, choice, token)
        \/ \E change \in Changes : BeginUpdate(r, change)
        \/ Insert(r) \/ Load(r) \/ Write(r) \/ Abort(r)

Spec == Init /\ [][Next]_vars

-----------------------------------------------------------------------------
\* isChannelAllowed of api-gateway (notification.service.ts), on the row as the
\* REST endpoint returns it.
EnabledKey(channel) == IF channel = "email" THEN "email_enabled" ELSE "push_enabled"
IsChannelAllowed(channel) == user.settings[EnabledKey(channel)] # FALSE

\* login (auth.service.ts:44-53): the password is compared with the row's.
LogsIn(password) == user # None /\ user.password = password

\* Whoever was told that the registration succeeded can log in, although two
\* registrations of an address may both find it free before one is stored
\* (auth.service.ts:19-33).
RegisteredCanLogIn == \A password \in accepted : LogsIn(password)

\* When no two requests ever overlapped, each setting is the one asked for
\* last: an update of one preference keeps the other and the token, and an
\* update of the token keeps the preferences (users.service.ts:32-38, 50-51).
SettingsAsAsked ==
    ~overlapped /\ user # None => user.settings = wanted

\* An update changes a setting it was not asked to change only when another
\* request has changed that setting since the row was read: then it puts the
\* old value back (users.service.ts:26-38, 45-51).
OnlyStaleSettingsRevert ==
    [][\A f \in Fields :
          user # None /\ user'.settings[f] # user.settings[f]
          => \E r \in Requests : /\ pc[r] = "writing"
                                 /\ pc'[r] = "idle"
                                 /\ f \in sets[r] \cup overtaken[r]]_vars

\* register.dto.ts:6 and :10, "Enable email notifications", "Enable push
\* notifications": until the user changes the setting of a channel, the choice
\* made at registration decides whether the gateway uses it.
RegistrationChoiceHolds ==
    \A channel \in Channels :
        user # None /\ wanted[EnabledKey(channel)] = Unset
        => IsChannelAllowed(channel) = user.choice[channel]
=============================================================================
