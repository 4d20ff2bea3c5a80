--------------------------- MODULE TemplateStore ---------------------------
(***************************************************************************)
(* template-service: createTemplate and updateTemplate of TemplateService  *)
(* (services/template.service.ts) for one (name, language), called by      *)
(* concurrent requests.  The row of `templates' and the records of         *)
(* `template_versions' are written by separate statements, in no common    *)
(* transaction, and a request may be cut off between any two of them.      *)
(*                                                                         *)
(* PostgreSQL and TypeORM are external.  Of TypeORM, Repository.save of an *)
(* entity that has an id first selects the row again, and then updates     *)
(* only the columns in which entity and row differed.                      *)
(***************************************************************************)
EXTENDS Naturals

CONSTANTS
    Writers,        \* slots for requests in progress
    Subjects,
    Bodies,
    Omitted,        \* a field that the update request leaves out
    None,
    MaxVersion      \* bound: no update starts from this version

ASSUME StoreAssumption ==
    /\ MaxVersion \in Nat \ {0}
    /\ Omitted \notin Subjects \cup Bodies
    /\ None \notin [subject : Subjects, body : Bodies]
    /\ None \notin [subject : Subjects, body : Bodies, version : 1..MaxVersion]

VARIABLES
    row,            \* the row of templates
    records,        \* template_versions: the content recorded for a version
    pc,             \* where each request stands
    mine,           \* the entity a request works on
    loaded,         \* the row that its save has selected
    \* History variables
    texts,          \* the content the row last had under each version
    overlapped,     \* two requests were in progress at a time
    cutOff          \* a request ended between its two writes

tables == <<row, records>>
requestVars == <<pc, mine, loaded>>
historyVars == <<texts, overlapped, cutOff>>
vars == <<tables, requestVars, historyVars>>

Versions == 1..MaxVersion
Content == [subject : Subjects, body : Bodies]
Template == [subject : Subjects, body : Bodies, version : Versions]
Columns == {"subject", "body", "version"}

ContentOf(template) == [subject |-> template.subject, body |-> template.body]

TypeOK ==
    /\ row \in Template \cup {None}
    /\ records \in [Versions -> Content \cup {None}]
    /\ pc \in [Writers -> {"idle", "inserting", "loading", "writing", "recording"}]
    /\ mine \in [Writers -> Template \cup {None}]
    /\ loaded \in [Writers -> Template \cup {None}]
    /\ texts \in [Versions -> Content \cup {None}]
    /\ overlapped \in BOOLEAN
    /\ cutOff \in BOOLEAN
    /\ \A w \in Writers :
          /\ pc[w] = "idle" <=> mine[w] = None
          /\ pc[w] = "writing" <=> loaded[w] # None

Init ==
    /\ row = None
    /\ records = [v \in Versions |-> None]
    /\ pc = [w \in Writers |-> "idle"]
    /\ mine = [w \in Writers |-> None]
    /\ loaded = [w \in Writers |-> None]
    /\ texts = [v \in Versions |-> None]
    /\ overlapped = FALSE
    /\ cutOff = FALSE

-----------------------------------------------------------------------------
Phase(w, phase) == pc' = [pc EXCEPT ![w] = phase]

\* A request starts, with the entity it will save.
Start(w, phase, template) ==
    /\ Phase(w, phase)
    /\ mine' = [mine EXCEPT ![w] = template]
    /\ overlapped' = (overlapped \/ \E o \in Writers : pc[o] # "idle")
    /\ UNCHANGED <<tables, loaded, texts, cutOff>>

BugKeepsEntity(w) == Phase(w, "idle") /\ UNCHANGED <<mine, loaded>>
End(w) ==
    /\ Phase(w, "idle")
    /\ mine' = [mine EXCEPT ![w] = None]
    /\ loaded' = [loaded EXCEPT ![w] = None]

Store(template) ==
    /\ row' = template
    /\ texts' = [texts EXCEPT ![template.version] = ContentOf(template)]

\* createTemplate up to its save.  (If findOne finds the row: 409, no change.)
InitialVersion == 1
BeginCreate(w, s, b) ==
    /\ pc[w] = "idle"
    /\ row = None
    /\ Start(w, "inserting",
             [subject |-> s, body |-> b, version |-> InitialVersion])

\* INSERT, which the unique index refuses when another request was faster.
Insert(w) ==
    /\ pc[w] = "inserting"
    /\ \/ row = None /\ Store(mine[w]) /\ Phase(w, "recording")
          /\ UNCHANGED <<mine, loaded>>
       \/ row # None /\ End(w) /\ UNCHANGED <<row, texts>>
    /\ UNCHANGED <<records, overlapped, cutOff>>

\* updateTemplate up to its save: findOne, and the new entity.  A field that
\* is left out differs from what is stored, but keeps it (??).
Chosen(dto, stored) == IF dto = Omitted THEN stored ELSE dto

BugSameVersion(template) == template.version
NewVersion(template) == template.version + 1

BeginUpdate(w, s, b) ==
    /\ pc[w] = "idle"
    /\ row # None
    /\ row.version < MaxVersion
    /\ row.subject # s \/ row.body # b
    /\ Start(w, "loading", [subject |-> Chosen(s, row.subject),
                            body |-> Chosen(b, row.body),
                            version |-> NewVersion(row)])

\* templateRepository.save: SELECT ...
Load(w) ==
    /\ pc[w] = "loading"
    /\ loaded' = [loaded EXCEPT ![w] = row]
    /\ Phase(w, "writing")
    /\ UNCHANGED <<tables, mine, historyVars>>

\* ... and UPDATE of the columns that differ.
Changed(w) == {column \in Columns : mine[w][column] # loaded[w][column]}

Write(w) ==
    /\ pc[w] = "writing"
    /\ Store([column \in Columns |->
                 IF column \in Changed(w) THEN mine[w][column] ELSE row[column]])
    /\ Phase(w, "recording")
    /\ loaded' = [loaded EXCEPT ![w] = None]
    /\ UNCHANGED <<records, mine, overlapped, cutOff>>

\* versionRepository.save: INSERT, which the unique index refuses (500) when
\* another request has recorded this version.
BugRecordsFirstVersion(w) == InitialVersion
RecordedVersion(w) == mine[w].version

Record(w) ==
    /\ pc[w] = "recording"
    /\ records' = IF records[RecordedVersion(w)] = None
                  THEN [records EXCEPT ![RecordedVersion(w)] = ContentOf(mine[w])]
                  ELSE records
    /\ End(w)
    /\ UNCHANGED <<row, historyVars>>

\* The request ends early: a statement fails, or the process does.
Abort(w) ==
    /\ pc[w] # "idle"
    /\ End(w)
    /\ cutOff' = (cutOff \/ pc[w] = "recording")
    /\ UNCHANGED <<tables, texts, overlapped>>

Next ==
    \E w \in Writers :
        \/ \E s \in Subjects, b \in Bodies : BeginCreate(w, s, b)
        \/ \E s \in Subjects \cup {Omitted}, b \in Bodies \cup {Omitted} :
              BeginUpdate(w, s, b)
        \/ Insert(w) \/ Load(w) \/ Write(w) \/ Record(w) \/ Abort(w)

Spec == Init /\ [][Next]_vars

-----------------------------------------------------------------------------
ToBeRecorded(v) == \E w \in Writers : pc[w] = "recording" /\ mine[w].version = v

\* Every version the row ever had gets a record, however requests overlap,
\* also when the version goes back because an update saved what it had read
\* long ago; only a request cut off between its two writes leaves a gap
\* (template.service.ts:74-88).
EveryVersionHasARecord ==
    ~cutOff => \A v \in Versions :
        texts[v] # None => records[v] # None \/ ToBeRecorded(v)

\* Requests that come one after another leave the whole history: the record
\* of each version is the content the row had with it (template.service.ts:53-90).
SequentialHistory ==
    ~overlapped /\ ~cutOff => \A v \in Versions :
        records[v] = texts[v] \/ ToBeRecorded(v)
=============================================================================
