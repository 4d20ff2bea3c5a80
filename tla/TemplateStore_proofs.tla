------------------------ MODULE TemplateStore_proofs ------------------------
(***************************************************************************)
(* However many requests change a template at a time, every version its    *)
(* row ever had gets a record, unless a request is cut off between its two *)
(* writes.  An update may write without touching the version column; then  *)
(* the row's version is an old acquaintance (RowIsKnown), which has or     *)
(* will have its record already.  Requests that do not overlap leave the   *)
(* whole history: each finds the row as the last one left it.              *)
(***************************************************************************)
EXTENDS TemplateStore, TLAPS

\* The row's version is among those whose text was noted, and an update is
\* only on its way when there is a row.
RowIsKnown ==
    /\ row # None => texts[row.version] # None
    /\ \A w \in Writers : pc[w] \in {"loading", "writing"} => row # None

StoreInv == TypeOK /\ RowIsKnown /\ EveryVersionHasARecord

\* The content of a template is a content, and neither is None.
LEMMA ContentTyped ==
    \A template \in Template :
        /\ template # None
        /\ ContentOf(template) \in Content
        /\ ContentOf(template) # None
BY StoreAssumption DEF Template, Content, ContentOf, Versions

\* Storing a template keeps row and texts in their types and makes it known.
LEMMA Stored ==
    ASSUME TypeOK, NEW template \in Template, Store(template)
    PROVE  /\ row' \in Template
           /\ texts' \in [Versions -> Content \cup {None}]
           /\ texts'[template.version] # None
           /\ row' # None
           /\ \A v \in Versions : v # template.version => texts'[v] = texts[v]
<1>1. template.version \in Versions
  BY DEF Template
<1>2. QED
  BY <1>1, ContentTyped DEF Store, TypeOK

\* Both tables are empty.
LEMMA StoreInitially == Init => StoreInv
BY DEF Init, StoreInv, TypeOK, RowIsKnown, EveryVersionHasARecord

\* The beginnings of the two operations write nothing.
LEMMA Beginnings ==
    ASSUME StoreInv, NEW w \in Writers,
           \/ \E s \in Subjects, b \in Bodies : BeginCreate(w, s, b)
           \/ \E s \in Subjects \cup {Omitted}, b \in Bodies \cup {Omitted} :
                 BeginUpdate(w, s, b)
    PROVE  StoreInv'
<1>1. PICK phase \in {"inserting", "loading"}, template \in Template :
         /\ pc[w] = "idle"
         /\ Start(w, phase, template)
         /\ phase = "loading" => row # None
  <2>1. CASE \E s \in Subjects, b \in Bodies : BeginCreate(w, s, b)
    <3>1. 1 \in Versions
      BY StoreAssumption DEF Versions
    <3>2. QED
      BY <2>1, <3>1 DEF BeginCreate, InitialVersion, Template
  <2>2. ASSUME NEW s \in Subjects \cup {Omitted}, NEW b \in Bodies \cup {Omitted},
               BeginUpdate(w, s, b)
        PROVE  \E template \in Template :
                  pc[w] = "idle" /\ Start(w, "loading", template) /\ row # None
    <3> DEFINE template == [subject |-> Chosen(s, row.subject),
                            body |-> Chosen(b, row.body),
                            version |-> NewVersion(row)]
    <3>1. row \in Template
      BY <2>2 DEF BeginUpdate, StoreInv, TypeOK
    <3>2. NewVersion(row) \in Versions
      BY <2>2, <3>1, StoreAssumption DEF BeginUpdate, NewVersion, Template, Versions
    <3>3. Chosen(s, row.subject) \in Subjects /\ Chosen(b, row.body) \in Bodies
      BY <3>1 DEF Chosen, Template
    <3>4. template \in Template
      BY <3>2, <3>3 DEF Template
    <3>5. QED
      BY <2>2, <3>4 DEF BeginUpdate
  <2>3. QED
    BY <2>1, <2>2
<1>2. TypeOK'
  BY <1>1, ContentTyped DEF StoreInv, TypeOK, Start, Phase, tables
<1>3. RowIsKnown'
  BY <1>1 DEF StoreInv, TypeOK, RowIsKnown, Start, Phase, tables
<1>4. EveryVersionHasARecord'
  BY <1>1 DEF StoreInv, TypeOK, EveryVersionHasARecord, ToBeRecorded, Start, Phase, tables
<1>5. QED
  BY <1>2, <1>3, <1>4 DEF StoreInv

\* INSERT of the row, or its refusal.
LEMMA Inserting ==
    ASSUME StoreInv, NEW w \in Writers, Insert(w)
    PROVE  StoreInv'
<1> USE DEF StoreInv
<1>1. mine[w] \in Template
  BY DEF Insert, TypeOK
<1>2. CASE row = None /\ Store(mine[w])
  <2>0. /\ Phase(w, "recording")
        /\ UNCHANGED <<records, mine, loaded, overlapped, cutOff>>
    BY <1>2 DEF Insert
  <2>1. TypeOK'
    BY <1>1, <1>2, <2>0, Stored DEF Insert, TypeOK, Phase
  <2>2. RowIsKnown'
    BY <1>1, <1>2, <2>0, Stored DEF Insert, TypeOK, RowIsKnown, Phase, Store
  <2>3. EveryVersionHasARecord'
    BY <1>1, <1>2, <2>0, Stored
       DEF Insert, TypeOK, EveryVersionHasARecord, ToBeRecorded, Phase
  <2>4. QED
    BY <2>1, <2>2, <2>3
<1>3. CASE row # None /\ End(w)
  <2>0. UNCHANGED <<tables, texts, overlapped, cutOff>>
    BY <1>3 DEF Insert, tables
  <2>1. TypeOK'
    BY <1>3, <2>0 DEF TypeOK, End, Phase, tables
  <2>2. (RowIsKnown /\ EveryVersionHasARecord)'
    BY <1>3, <2>0 DEF Insert, TypeOK, RowIsKnown, EveryVersionHasARecord, ToBeRecorded,
                      End, Phase, tables
  <2>3. QED
    BY <2>1, <2>2
<1>4. QED
  BY <1>2, <1>3 DEF Insert

\* TypeORM's SELECT and UPDATE.
LEMMA Saving ==
    ASSUME StoreInv, NEW w \in Writers, Load(w) \/ Write(w)
    PROVE  StoreInv'
<1> USE DEF StoreInv
<1>1. CASE Load(w)
  <2>1. row \in Template /\ row # None
    BY <1>1, ContentTyped DEF Load, RowIsKnown, TypeOK
  <2>2. TypeOK'
    BY <1>1, <2>1 DEF Load, TypeOK, Phase, tables, historyVars
  <2>3. (RowIsKnown /\ EveryVersionHasARecord)'
    BY <1>1 DEF Load, TypeOK, RowIsKnown, EveryVersionHasARecord, ToBeRecorded,
                Phase, tables, historyVars
  <2>4. QED
    BY <2>2, <2>3
<1>2. CASE Write(w)
  <2> DEFINE written == [column \in Columns |->
                 IF column \in Changed(w) THEN mine[w][column] ELSE row[column]]
  <2>1. row \in Template /\ mine[w] \in Template
    BY <1>2 DEF Write, RowIsKnown, TypeOK
  <2>2. /\ written \in Template
        /\ written.version \in {mine[w].version, row.version}
    BY <2>1 DEF Template, Columns
  <2>3. Store(written)
    BY <1>2 DEF Write
  <2>4. TypeOK'
    BY <1>2, <2>2, <2>3, Stored DEF Write, TypeOK, Phase
  <2>5. RowIsKnown'
    BY <1>2, <2>2, <2>3, Stored DEF Write, TypeOK, RowIsKnown, Phase, Store
  <2>6. EveryVersionHasARecord'
    <3> SUFFICES ASSUME ~cutOff, NEW v \in Versions, texts'[v] # None
                 PROVE  records[v] # None \/ ToBeRecorded(v)'
      BY <1>2 DEF Write, EveryVersionHasARecord
    <3>1. CASE v = mine[w].version
      BY <1>2, <3>1 DEF Write, TypeOK, ToBeRecorded, Phase
    <3>2. CASE v # mine[w].version
      <4>1. texts[v] # None
        BY <2>1, <2>2, <2>3, <3>2, Stored, ContentTyped DEF RowIsKnown
      <4>2. QED
        BY <1>2, <4>1 DEF Write, TypeOK, EveryVersionHasARecord, ToBeRecorded, Phase
    <3>3. QED
      BY <3>1, <3>2
  <2>7. QED
    BY <2>4, <2>5, <2>6
<1>3. QED
  BY <1>1, <1>2

\* The version record, and requests that end before it.
LEMMA Endings ==
    ASSUME StoreInv, NEW w \in Writers, Record(w) \/ Abort(w)
    PROVE  StoreInv'
<1> USE DEF StoreInv
<1>1. CASE Record(w)
  <2>1. mine[w] \in Template /\ mine[w].version \in Versions
    BY <1>1 DEF Record, TypeOK, Template
  <2>2. /\ records' \in [Versions -> Content \cup {None}]
        /\ records'[mine[w].version] # None
        /\ \A v \in Versions : records[v] # None => records'[v] # None
    BY <1>1, <2>1, ContentTyped DEF Record, RecordedVersion, TypeOK
  <2>3. TypeOK'
    BY <1>1, <2>2 DEF Record, TypeOK, End, Phase, historyVars
  <2>4. RowIsKnown'
    BY <1>1 DEF Record, TypeOK, RowIsKnown, End, Phase, historyVars
  <2>5. EveryVersionHasARecord'
    BY <1>1, <2>2 DEF Record, TypeOK, EveryVersionHasARecord, ToBeRecorded,
                      End, Phase, historyVars
  <2>6. QED
    BY <2>3, <2>4, <2>5
<1>2. CASE Abort(w)
  <2>1. TypeOK'
    BY <1>2 DEF Abort, TypeOK, End, Phase, tables
  <2>2. (RowIsKnown /\ EveryVersionHasARecord)'
    BY <1>2, ZenonT(40) DEF Abort, TypeOK, RowIsKnown, EveryVersionHasARecord, ToBeRecorded,
                End, Phase, tables
  <2>3. QED
    BY <2>1, <2>2
<1>3. QED
  BY <1>1, <1>2

-----------------------------------------------------------------------------
\* Every reachable state of the store satisfies StoreInv.
THEOREM StoreInvariant == Spec => []StoreInv
<1>1. ASSUME StoreInv, UNCHANGED vars PROVE StoreInv'
  BY <1>1 DEF StoreInv, TypeOK, RowIsKnown, EveryVersionHasARecord, ToBeRecorded,
              vars, tables, requestVars, historyVars
<1>2. StoreInv /\ [Next]_vars => StoreInv'
  BY <1>1, Beginnings, Inserting, Saving, Endings DEF Next
<1>3. QED
  BY <1>2, StoreInitially, PTL DEF Spec

\* The tables and requests of template-service keep their types.
THEOREM TypeCorrect == Spec => []TypeOK
BY StoreInvariant, PTL DEF StoreInv

\* Every version the row ever had is recorded in the end, unless a request was
\* cut off between its two writes (template.service.ts:74-88).
THEOREM VersionsRecorded == Spec => []EveryVersionHasARecord
BY StoreInvariant, PTL DEF StoreInv

-----------------------------------------------------------------------------
(* Requests that never overlap.                                            *)

\* The row's version is the highest ever written, with the row's content
\* noted for it, and only versions that were written are recorded.
LatestVersion ==
    /\ row # None => texts[row.version] = ContentOf(row)
    /\ \A v \in Versions : texts[v] # None => row # None /\ v <= row.version
    /\ \A v \in Versions : records[v] # None => texts[v] # None

\* There is one request at a time; its view of the row is current, it writes
\* the next version, and records what it wrote under a version not yet recorded.
AloneInProgress ==
    \A w \in Writers : pc[w] # "idle" =>
        /\ \A o \in Writers : pc[o] # "idle" => o = w
        /\ pc[w] = "inserting" => row = None
        /\ pc[w] = "writing" => loaded[w] = row
        /\ pc[w] \in {"loading", "writing"} => mine[w].version = row.version + 1
        /\ pc[w] = "recording" => row = mine[w] /\ records[mine[w].version] = None

HistoryInv ==
    /\ ~overlapped => LatestVersion /\ AloneInProgress
    /\ SequentialHistory

\* Both tables are empty and nothing is in progress.
LEMMA HistoryInitially == Init => HistoryInv
BY DEF Init, HistoryInv, LatestVersion, AloneInProgress, SequentialHistory

\* A request that begins alone has a current view.
LEMMA HistoryBegins ==
    ASSUME StoreInv, HistoryInv, NEW w \in Writers,
           \/ \E s \in Subjects, b \in Bodies : BeginCreate(w, s, b)
           \/ \E s \in Subjects \cup {Omitted}, b \in Bodies \cup {Omitted} :
                 BeginUpdate(w, s, b)
    PROVE  HistoryInv'
<1>1. PICK phase, template :
         /\ phase \in {"inserting", "loading"}
         /\ pc[w] = "idle"
         /\ Start(w, phase, template)
         /\ phase = "inserting" => row = None
         /\ phase = "loading" => template.version = row.version + 1
  <2>1. ASSUME NEW s \in Subjects, NEW b \in Bodies, BeginCreate(w, s, b)
        PROVE  \E template : pc[w] = "idle" /\ row = None /\ Start(w, "inserting", template)
    BY <2>1 DEF BeginCreate
  <2>2. ASSUME NEW s \in Subjects \cup {Omitted}, NEW b \in Bodies \cup {Omitted},
               BeginUpdate(w, s, b)
        PROVE  \E template : /\ pc[w] = "idle" /\ Start(w, "loading", template)
                             /\ template.version = row.version + 1
    <3> DEFINE template == [subject |-> Chosen(s, row.subject),
                            body |-> Chosen(b, row.body),
                            version |-> NewVersion(row)]
    <3>1. template.version = row.version + 1
      BY DEF NewVersion
    <3>2. QED
      BY <2>2, <3>1 DEF BeginUpdate
  <2>3. QED
    BY <2>1, <2>2
<1>2. ASSUME ~overlapped' PROVE LatestVersion' /\ AloneInProgress'
  BY <1>1, <1>2 DEF StoreInv, TypeOK, HistoryInv, LatestVersion, AloneInProgress,
                    Start, Phase, tables
<1>3. SequentialHistory'
  BY <1>1 DEF StoreInv, TypeOK, HistoryInv, SequentialHistory, ToBeRecorded, Start,
              Phase, tables
<1>4. QED
  BY <1>2, <1>3 DEF HistoryInv

\* A request that stores what it is about to record, under a version that
\* follows all the others, keeps the history.
LEMMA HistoryGrows ==
    ASSUME StoreInv, HistoryInv, NEW w \in Writers, pc[w] \in {"inserting", "writing"},
           mine[w] \in Template, Phase(w, "recording"),
           ~overlapped => /\ Store(mine[w])
                          /\ \A v \in Versions : texts[v] # None => v < mine[w].version,
           UNCHANGED <<records, mine, overlapped, cutOff>>
    PROVE  HistoryInv'
<1>1. CASE overlapped
  BY <1>1 DEF HistoryInv, SequentialHistory
<1>2. CASE ~overlapped
  <2>1. mine[w].version \in Versions /\ mine[w].version \in Nat
    BY DEF Template, Versions
  <2>2. records[mine[w].version] = None
    BY <1>2, <2>1 DEF HistoryInv, LatestVersion
  <2>3. /\ row' = mine[w] /\ row' # None
        /\ texts'[mine[w].version] = ContentOf(mine[w])
        /\ texts'[mine[w].version] # None
        /\ \A v \in Versions : v # mine[w].version => texts'[v] = texts[v]
    BY <1>2, <2>1, ContentTyped DEF Store, StoreInv, TypeOK
  <2>4. LatestVersion'
    BY <1>2, <2>1, <2>3 DEF HistoryInv, LatestVersion, Versions
  <2>5. AloneInProgress'
    BY <1>2, <2>2, <2>3 DEF HistoryInv, AloneInProgress, StoreInv, TypeOK, Phase
  <2>6. SequentialHistory'
    BY <1>2, <2>1, <2>3 DEF HistoryInv, SequentialHistory, ToBeRecorded, StoreInv,
       TypeOK, Phase
  <2>7. QED
    BY <2>4, <2>5, <2>6 DEF HistoryInv
<1>3. QED
  BY <1>1, <1>2 DEF StoreInv, TypeOK

\* INSERT of the row or its refusal, TypeORM's SELECT and its UPDATE.
LEMMA HistorySaved ==
    ASSUME StoreInv, HistoryInv, NEW w \in Writers, Insert(w) \/ Load(w) \/ Write(w)
    PROVE  HistoryInv'
<1>1. CASE Insert(w)
  <2>1. mine[w] \in Template /\ pc[w] = "inserting"
    BY <1>1 DEF Insert, StoreInv, TypeOK
  <2>2. CASE row = None /\ Store(mine[w])
    BY <1>1, <2>1, <2>2, HistoryGrows DEF Insert, HistoryInv, LatestVersion
  <2>3. CASE row # None /\ End(w)
    <3>1. UNCHANGED <<row, records, texts, overlapped, cutOff>>
      BY <1>1, <2>3 DEF Insert
    <3>2. ~overlapped' => LatestVersion' /\ AloneInProgress'
      BY <2>1, <2>3, <3>1 DEF HistoryInv, LatestVersion, AloneInProgress, StoreInv, TypeOK,
                              End, Phase
    <3>3. SequentialHistory'
      BY <2>1, <2>3, <3>1 DEF HistoryInv, SequentialHistory, ToBeRecorded, StoreInv, TypeOK,
                              End, Phase
    <3>4. QED
      BY <3>2, <3>3 DEF HistoryInv
  <2>4. QED
    BY <1>1, <2>2, <2>3 DEF Insert
<1>2. CASE Load(w)
  <2>1. ~overlapped' => LatestVersion' /\ AloneInProgress'
    BY <1>2 DEF Load, HistoryInv, LatestVersion, AloneInProgress, StoreInv, TypeOK,
                Phase, tables, historyVars
  <2>2. SequentialHistory'
    BY <1>2 DEF Load, HistoryInv, SequentialHistory, ToBeRecorded, StoreInv, TypeOK,
                Phase, tables, historyVars
  <2>3. QED
    BY <2>1, <2>2 DEF HistoryInv
<1>3. CASE Write(w)
  <2>1. mine[w] \in Template /\ row \in Template /\ pc[w] = "writing"
    BY <1>3 DEF Write, StoreInv, TypeOK, RowIsKnown
  <2>2. ASSUME ~overlapped
        PROVE  /\ Store(mine[w])
               /\ \A v \in Versions : texts[v] # None => v < mine[w].version
    <3>1. loaded[w] = row /\ mine[w].version = row.version + 1
      BY <2>1, <2>2 DEF HistoryInv, AloneInProgress
    <3>2. [column \in Columns |->
              IF column \in Changed(w) THEN mine[w][column] ELSE row[column]]
            = [column \in Columns |-> mine[w][column]]
      BY <3>1 DEF Changed
    <3>3. [column \in Columns |-> mine[w][column]] = mine[w]
      BY <2>1 DEF Template, Columns
    <3>4. row.version \in Nat
      BY <2>1 DEF Template, Versions
    <3>5. \A v \in Versions : texts[v] # None => v < mine[w].version
      BY <2>2, <3>1, <3>4 DEF HistoryInv, LatestVersion, Versions
    <3>6. QED
      BY <1>3, <3>2, <3>3, <3>5 DEF Write
  <2>3. QED
    BY <1>3, <2>1, <2>2, HistoryGrows DEF Write
<1>4. QED
  BY <1>1, <1>2, <1>3

\* The version record completes the history; a request that ends before it
\* leaves the history as it was, or counts as cut off.
LEMMA HistoryEnds ==
    ASSUME StoreInv, HistoryInv, NEW w \in Writers, Record(w) \/ Abort(w)
    PROVE  HistoryInv'
<1>1. CASE Record(w)
  <2>1. mine[w].version \in Versions /\ pc[w] = "recording" /\ ContentOf(mine[w]) # None
    BY <1>1, ContentTyped DEF Record, StoreInv, TypeOK, Template
  <2>2. UNCHANGED <<row, texts, overlapped, cutOff>> /\ End(w)
    BY <1>1 DEF Record, historyVars
  <2>3. CASE overlapped
    BY <2>2, <2>3 DEF HistoryInv, SequentialHistory
  <2>4. CASE ~overlapped
    <3>1. row = mine[w] /\ texts[mine[w].version] = ContentOf(mine[w])
      BY <2>1, <2>4, ContentTyped, <1>1
         DEF HistoryInv, AloneInProgress, LatestVersion, StoreInv, TypeOK, Record
    <3>2. records' = [records EXCEPT ![mine[w].version] = ContentOf(mine[w])]
      BY <1>1, <2>1, <2>4 DEF Record, RecordedVersion, HistoryInv, AloneInProgress
    <3>3. LatestVersion'
      BY <2>1, <2>2, <2>4, <3>1, <3>2 DEF HistoryInv, LatestVersion, StoreInv, TypeOK
    <3>4. AloneInProgress'
      BY <2>1, <2>2, <2>4 DEF HistoryInv, AloneInProgress, StoreInv, TypeOK, End, Phase
    <3>5. SequentialHistory'
      BY <2>1, <2>2, <2>4, <3>1, <3>2
         DEF HistoryInv, SequentialHistory, ToBeRecorded, StoreInv, TypeOK, End, Phase
    <3>6. QED
      BY <3>3, <3>4, <3>5 DEF HistoryInv
  <2>5. QED
    BY <2>3, <2>4
<1>2. CASE Abort(w)
  <2>1. ~overlapped' => LatestVersion' /\ AloneInProgress'
    BY <1>2 DEF Abort, HistoryInv, LatestVersion, AloneInProgress, StoreInv, TypeOK,
                End, Phase, tables
  <2>2. SequentialHistory'
    BY <1>2 DEF Abort, HistoryInv, SequentialHistory, ToBeRecorded, StoreInv, TypeOK,
                End, Phase, tables
  <2>3. QED
    BY <2>1, <2>2 DEF HistoryInv
<1>3. QED
  BY <1>1, <1>2

\* Requests that come one after another leave the whole history, version by
\* version with the text the row had (template.service.ts:53-90).
THEOREM WholeHistory == Spec => []SequentialHistory
<1>1. ASSUME HistoryInv, UNCHANGED vars PROVE HistoryInv'
  BY <1>1 DEF HistoryInv, LatestVersion, AloneInProgress, SequentialHistory, ToBeRecorded,
              vars, tables, requestVars, historyVars
<1>2. StoreInv /\ HistoryInv /\ [Next]_vars => HistoryInv'
  BY <1>1, HistoryBegins, HistorySaved, HistoryEnds DEF Next
<1>3. Spec => []HistoryInv
  BY <1>2, HistoryInitially, StoreInvariant, PTL DEF Spec
<1>4. QED
  BY <1>3, PTL DEF HistoryInv
=============================================================================
