---------------------------- MODULE StoreProofs ----------------------------
(***************************************************************************)
(* What a version in the table stands for, and what a process that opened  *)
(* the file may rely on, for any modules, migrations, earlier files and    *)
(* processes; and that packages stay whole on their way to the trash and   *)
(* back, for any packages, pages and threads.                              *)
(***************************************************************************)
EXTENDS SchemaVersions, PackageStore, TLAPS

Opener == [pc : {"closed", "versions", "migrate", "open", "failed"},
           owner : Owners \cup {NoOwner}, todo : SUBSET UNION {DOMAIN Migrations[m] : m \in Owners}]

TablesOK ==
    /\ DOMAIN tables = Owners
    /\ \A m \in Owners :
        /\ tables[m] \subseteq Columns[m]
        /\ \A t \in Created[m] : t \cap tables[m] # {} =>
              \A c \in t \ tables[m] : \E i \in DOMAIN Migrations[m] : c \in Added(m, i)

(* A process past its CREATE TABLEs has all its tables to work on.         *)
HasTable(o) ==
    /\ openers[o].owner \in Owners
    /\ \A t \in Created[openers[o].owner] : t \cap tables[openers[o].owner] # {}

(* A migration that a process does not have before it any more is applied, *)
(* or it was hidden.                                                       *)
Settled(o) ==
    LET m == openers[o].owner
    IN  /\ openers[o].todo \subseteq DOMAIN Migrations[m]
        /\ m \notin hidden =>
              \A i \in DOMAIN Migrations[m] \ openers[o].todo : Added(m, i) \subseteq tables[m]

OpenersOK ==
    /\ openers \in [Openers -> Opener]
    /\ \A o \in Openers :
        /\ openers[o].pc # "closed" => HasTable(o)
        /\ openers[o].pc \in {"migrate", "open"} => Settled(o)
        /\ openers[o].pc = "open" =>
              openers[o].todo = {} /\ Indexed[openers[o].owner] \subseteq tables[openers[o].owner]

SchemaInv == TablesOK /\ OpenersOK /\ RecordedIsApplied

-----------------------------------------------------------------------------
(* Tables only gain columns of their schema, and with them keep what every *)
(* process already relies on.                                              *)
Grows ==
    /\ DOMAIN tables' = Owners
    /\ \A m \in Owners :
        /\ tables[m] \subseteq tables'[m] /\ tables'[m] \subseteq Columns[m]
        /\ \A t \in Created[m] :
              t \cap tables'[m] # {} => t \cap tables[m] # {} \/ t \subseteq tables'[m]

LEMMA TablesStayOK ==
  ASSUME TablesOK, Grows PROVE TablesOK'
<1> SUFFICES ASSUME NEW m \in Owners, NEW t \in Created[m], t \cap tables'[m] # {},
                    NEW c \in t \ tables'[m]
             PROVE  \E i \in DOMAIN Migrations[m] : c \in Added(m, i)
  BY DEF TablesOK, Grows, Added
<1>1. t \cap tables[m] # {} /\ c \in t \ tables[m]
  BY DEF Grows
<1> QED BY <1>1 DEF TablesOK

(* A process that does not move keeps its table, what it settled and, if   *)
(* it has the file open, its indexes.                                      *)
LEMMA OpenersStayOK ==
  ASSUME OpenersOK, TablesOK, Grows, hidden \subseteq hidden', NEW o \in Openers,
         openers'[o] = openers[o]
  PROVE  /\ openers'[o] \in Opener
         /\ openers'[o].pc # "closed" => HasTable(o)'
         /\ openers'[o].pc \in {"migrate", "open"} => Settled(o)'
         /\ openers'[o].pc = "open" =>
               openers'[o].todo = {} /\ Indexed[openers'[o].owner] \subseteq tables'[openers'[o].owner]
<1> DEFINE m == openers[o].owner
<1>1. openers[o] \in Opener
  BY DEF OpenersOK
<1>2. openers[o].pc # "closed" => HasTable(o)
  BY DEF OpenersOK
<1>3. HasTable(o) => HasTable(o)' /\ tables[m] \subseteq tables'[m]
  BY DEF HasTable, Grows
<1>4. openers[o].pc \in {"migrate", "open"} => Settled(o)
  BY DEF OpenersOK
<1>5. HasTable(o) /\ Settled(o) => Settled(o)'
  BY <1>3 DEF Settled, Added
<1>6. openers[o].pc = "open" => openers[o].todo = {} /\ Indexed[m] \subseteq tables[m]
  BY DEF OpenersOK
<1> QED BY <1>1, <1>2, <1>3, <1>4, <1>5, <1>6

LEMMA InitInv == SchemaInit => SchemaInv
<1> SUFFICES ASSUME SchemaInit PROVE SchemaInv
  OBVIOUS
<1>1. PICK f \in OldFiles : tables = f.tables /\ versions = f.versions
  BY DEF SchemaInit
<1>2. TablesOK
  BY <1>1, SchemaAssumption DEF TablesOK
<1>3. OpenersOK
  BY DEF SchemaInit, NotOpen, OpenersOK, Opener
<1>4. RecordedIsApplied
  BY <1>1, SchemaAssumption DEF RecordedIsApplied, IsRecorded
<1> QED BY <1>2, <1>3, <1>4 DEF SchemaInv

\* Creating any of a module's missing tables.
LEMMA CreationGrows ==
  ASSUME TablesOK, NEW m \in Owners, NEW S, S \subseteq MissingTables(m),
         tables' = [tables EXCEPT ![m] = tables[m] \cup UNION S]
  PROVE  Grows /\ tables'[m] = tables[m] \cup UNION S
<1>1. DOMAIN tables' = Owners /\ tables'[m] = tables[m] \cup UNION S
      /\ \A n \in Owners \ {m} : tables'[n] = tables[n]
  BY DEF TablesOK
<1>2. S \subseteq Created[m] /\ UNION S \subseteq Columns[m]
  BY SchemaAssumption DEF MissingTables
<1>3. tables'[m] \subseteq Columns[m]
  BY <1>1, <1>2 DEF TablesOK
<1>4. ASSUME NEW t \in Created[m], t \cap tables'[m] # {}, t \cap tables[m] = {}
      PROVE  t \subseteq tables'[m]
  <2>1. PICK u \in S : t \cap u # {}
    BY <1>1, <1>4
  <2>2. t = u
    BY <1>2, <2>1, SchemaAssumption
  <2> QED BY <1>1, <2>1, <2>2
<1>5. \A n \in Owners : tables[n] \subseteq tables'[n] /\ tables'[n] \subseteq Columns[n]
  BY <1>1, <1>3 DEF TablesOK
<1> QED BY <1>1, <1>4, <1>5 DEF Grows

LEMMA StepInv == SchemaInv /\ [SchemaNext]_schemaVars => SchemaInv'
<1> SUFFICES ASSUME SchemaInv, [SchemaNext]_schemaVars PROVE SchemaInv'
  OBVIOUS
<1> USE DEF SchemaInv
<1>1. ASSUME NEW o \in Openers, NEW m \in Owners, CreateTables(o, m) PROVE SchemaInv'
  <2>1. /\ tables' = [tables EXCEPT ![m] = tables[m] \cup UNION MissingTables(m)]
        /\ openers' = [openers EXCEPT ![o] = [pc |-> "versions", owner |-> m, todo |-> {}]]
        /\ versions' = versions /\ hidden' = hidden
    BY <1>1 DEF CreateTables
  <2>2. MissingTables(m) \subseteq Created[m]
    BY DEF MissingTables
  <2>3. Grows /\ tables'[m] = tables[m] \cup UNION MissingTables(m)
    BY <2>1, <2>2, CreationGrows DEF TablesOK
  <2>4. TablesOK'
    BY <2>3, TablesStayOK
  <2>5. openers'[o] = [pc |-> "versions", owner |-> m, todo |-> {}] /\ openers' \in [Openers -> Opener]
    BY <2>1 DEF OpenersOK, Opener
  <2>6. \A p \in Openers \ {o} : openers'[p] = openers[p]
    BY <2>1 DEF OpenersOK
  <2>7. HasTable(o)'
    <3>1. ASSUME NEW t \in Created[m] PROVE t \cap tables'[m] # {}
      <4>1. CASE t \in MissingTables(m)
        BY <2>3, <4>1, SchemaAssumption
      <4>2. CASE t \notin MissingTables(m)
        BY <2>3, <4>2 DEF MissingTables
      <4> QED BY <4>1, <4>2
    <3> QED BY <2>5, <3>1 DEF HasTable
  <2>8. OpenersOK'
    BY <2>1, <2>3, <2>5, <2>6, <2>7, OpenersStayOK DEF OpenersOK
  <2>9. RecordedIsApplied'
    BY <2>1, <2>3 DEF RecordedIsApplied, IsRecorded, Added, Grows
  <2> QED BY <2>4, <2>8, <2>9
<1>7. ASSUME NEW o \in Openers, NEW m \in Owners, DieCreating(o, m) PROVE SchemaInv'
  <2>1. PICK t \in MissingTables(m) : tables' = [tables EXCEPT ![m] = tables[m] \cup t]
    BY <1>7 DEF DieCreating
  <2>2. {t} \subseteq MissingTables(m) /\ UNION {t} = t
    OBVIOUS
  <2>3. Grows
    <3> DEFINE S == {t}
    <3>1. tables' = [tables EXCEPT ![m] = tables[m] \cup UNION S]
      BY <2>1, <2>2
    <3>2. S \subseteq MissingTables(m)
      BY <2>2
    <3>3. TablesOK
      OBVIOUS
    <3> HIDE DEF S
    <3>4. Grows /\ tables'[m] = tables[m] \cup UNION S
      BY <3>1, <3>2, <3>3, CreationGrows
    <3> QED BY <3>4
  <2>4. versions' = versions /\ hidden' = hidden /\ openers' = openers
    BY <1>7 DEF DieCreating
  <2>5. TablesOK'
    BY <2>3, TablesStayOK
  <2>6. OpenersOK'
    BY <2>3, <2>4, OpenersStayOK DEF OpenersOK
  <2>7. RecordedIsApplied'
    BY <2>3, <2>4 DEF RecordedIsApplied, IsRecorded, Added, Grows
  <2> QED BY <2>5, <2>6, <2>7
<1>2. ASSUME NEW o \in Openers, ReadVersion(o) PROVE SchemaInv'
  <2> DEFINE m == openers[o].owner
  <2>1. /\ openers[o].pc = "versions" /\ openers[o] \in Opener /\ HasTable(o)
        /\ openers' = [openers EXCEPT ![o].pc = "migrate", ![o].todo = Pending(m)]
        /\ tables' = tables /\ versions' = versions /\ hidden \subseteq hidden'
    BY <1>2 DEF ReadVersion, GoesOn, OpenersOK
  <2>2. m \in Owners /\ Pending(m) \subseteq DOMAIN Migrations[m]
    BY <2>1 DEF HasTable, Pending
  <2>3. openers'[o] = [pc |-> "migrate", owner |-> m, todo |-> Pending(m)]
    BY <2>1 DEF OpenersOK, Opener
  <2>4. Pending(m) \in SUBSET UNION {DOMAIN Migrations[n] : n \in Owners}
    BY <2>2
  <2>5. openers' \in [Openers -> Opener] /\ \A p \in Openers \ {o} : openers'[p] = openers[p]
    BY <2>1, <2>2, <2>3, <2>4 DEF OpenersOK, Opener
  <2>6. Grows
    BY <2>1 DEF Grows, TablesOK
  <2>7. m \notin hidden' => \A i \in DOMAIN Migrations[m] \ Pending(m) : Added(m, i) \subseteq tables[m]
    <3> SUFFICES ASSUME m \notin hidden', NEW i \in DOMAIN Migrations[m] \ Pending(m)
                 PROVE  Added(m, i) \subseteq tables[m]
      OBVIOUS
    <3>1. IsRecorded(m, i) \/ Added(m, i) \subseteq tables[m]
      BY <1>2 DEF ReadVersion
    <3> QED BY <3>1, <2>2 DEF RecordedIsApplied
  <2>8. Settled(o)' /\ HasTable(o)'
    <3>1. openers'[o].owner = m /\ openers'[o].todo = Pending(m)
      BY <2>3
    <3>2. HasTable(o)'
      BY <2>1, <2>2, <3>1 DEF HasTable
    <3>3. Settled(o)'
      BY <2>1, <2>2, <2>7, <3>1 DEF Settled, Added
    <3> QED BY <3>2, <3>3
  <2>9. OpenersOK'
    <3>1. openers'[o].pc = "migrate"
      BY <2>3
    <3> QED BY <2>1, <2>5, <2>6, <2>8, <3>1, OpenersStayOK DEF OpenersOK
  <2>10. RecordedIsApplied' /\ TablesOK'
    BY <2>1 DEF RecordedIsApplied, IsRecorded, Added, TablesOK
  <2> QED BY <2>9, <2>10
<1>3. ASSUME NEW o \in Openers, Migrate(o) PROVE SchemaInv'
  <2> DEFINE m == openers[o].owner
  <2>1. PICK i \in openers[o].todo :
          /\ tables' = [tables EXCEPT ![m] = tables[m] \cup Added(m, i)]
          /\ versions' = versions \cup {Migrations[m][i][1]}
          /\ openers' = [openers EXCEPT ![o].pc = "migrate", ![o].todo = openers[o].todo \ {i}]
    BY <1>3 DEF Migrate, GoesOn
  <2>2. openers[o].pc = "migrate" /\ openers[o] \in Opener /\ HasTable(o) /\ Settled(o) /\ hidden' = hidden
    BY <1>3 DEF Migrate, OpenersOK
  <2>3. m \in Owners /\ i \in DOMAIN Migrations[m]
    BY <2>2 DEF HasTable, Settled
  <2>4. Added(m, i) \subseteq Columns[m] /\ tables[m] \subseteq Columns[m]
    BY <2>3, SchemaAssumption DEF TablesOK
  <2>5. Grows /\ tables'[m] = tables[m] \cup Added(m, i)
    <3>1. DOMAIN tables' = Owners /\ tables'[m] = tables[m] \cup Added(m, i)
          /\ \A n \in Owners \ {m} : tables'[n] = tables[n]
      BY <2>1, <2>3 DEF TablesOK
    <3>2. \A n \in Owners : tables[n] \subseteq tables'[n] /\ tables'[n] \subseteq Columns[n]
      BY <3>1, <2>4 DEF TablesOK
    <3>3. \A t \in Created[m] : t \cap tables[m] # {}
      BY <2>2 DEF HasTable
    <3> QED BY <3>1, <3>2, <3>3 DEF Grows
  <2>6. TablesOK'
    BY <2>5, TablesStayOK
  <2>7. openers'[o] = [pc |-> "migrate", owner |-> m, todo |-> openers[o].todo \ {i}]
    BY <2>1, <2>2 DEF OpenersOK, Opener
  <2>8. openers' \in [Openers -> Opener] /\ \A p \in Openers \ {o} : openers'[p] = openers[p]
    BY <2>1, <2>2, <2>7 DEF OpenersOK, Opener
  <2>9. HasTable(o)'
    <3>1. openers'[o].owner = m
      BY <2>7
    <3>2. \A t \in Created[m] : t \cap tables'[m] # {}
      BY <2>2, <2>5 DEF HasTable
    <3> QED BY <2>3, <3>1, <3>2 DEF HasTable
  <2>10. Settled(o)'
    BY <2>2, <2>3, <2>5, <2>7 DEF Settled, Added
  <2>11. OpenersOK'
    BY <2>2, <2>5, <2>7, <2>8, <2>9, <2>10, OpenersStayOK DEF OpenersOK
  <2>12. RecordedIsApplied'
    <3> SUFFICES ASSUME NEW n \in Owners, NEW k \in DOMAIN Migrations[n],
                        Migrations[n][k][1] \in versions'
                 PROVE  Added(n, k) \subseteq tables'[n]
      BY DEF RecordedIsApplied, IsRecorded, Added
    <3>1. CASE Migrations[n][k][1] = Migrations[m][i][1]
      <4>1. n = m /\ k = i
        BY <3>1, <2>3, SchemaAssumption
      <4> QED BY <4>1, <2>5
    <3>2. CASE Migrations[n][k][1] # Migrations[m][i][1]
      <4>1. IsRecorded(n, k)
        BY <3>2, <2>1 DEF IsRecorded
      <4>2. tables[n] \subseteq tables'[n]
        BY <2>5 DEF Grows
      <4> QED BY <4>1, <4>2 DEF RecordedIsApplied
    <3> QED BY <3>1, <3>2
  <2> QED BY <2>6, <2>11, <2>12
<1>4. ASSUME NEW o \in Openers, CreateIndexes(o) PROVE SchemaInv'
  <2> DEFINE m == openers[o].owner
  <2>1. /\ openers[o].pc = "migrate" /\ openers[o].todo = {} /\ openers[o] \in Opener
        /\ HasTable(o) /\ Settled(o)
        /\ tables' = tables /\ versions' = versions /\ hidden' = hidden
    BY <1>4 DEF CreateIndexes, OpenersOK
  <2>2. \/ Indexed[m] \subseteq tables[m] /\ openers' = [openers EXCEPT ![o].pc = "open", ![o].todo = {}]
        \/ openers' = [openers EXCEPT ![o].pc = "failed", ![o].todo = {}]
    BY <1>4 DEF CreateIndexes, GoesOn
  <2>3. \/ Indexed[m] \subseteq tables[m] /\ openers'[o] = [pc |-> "open", owner |-> m, todo |-> {}]
        \/ openers'[o] = [pc |-> "failed", owner |-> m, todo |-> {}]
    BY <2>1, <2>2 DEF OpenersOK, Opener
  <2>4. openers' \in [Openers -> Opener] /\ \A p \in Openers \ {o} : openers'[p] = openers[p]
    BY <2>1, <2>2, <2>3 DEF OpenersOK, Opener
  <2>5. Grows
    BY <2>1 DEF Grows, TablesOK
  <2>6. HasTable(o)' /\ Settled(o)'
    BY <2>1, <2>3 DEF HasTable, Settled, Added
  <2>7. OpenersOK'
    BY <2>1, <2>3, <2>4, <2>5, <2>6, OpenersStayOK DEF OpenersOK
  <2>8. RecordedIsApplied' /\ TablesOK'
    BY <2>1 DEF RecordedIsApplied, IsRecorded, Added, TablesOK
  <2> QED BY <2>7, <2>8
<1>5. ASSUME NEW o \in Openers, Close(o) PROVE SchemaInv'
  <2>1. /\ openers' = [openers EXCEPT ![o] = NotOpen]
        /\ tables' = tables /\ versions' = versions /\ hidden' = hidden
    BY <1>5 DEF Close
  <2>2. Grows
    BY <2>1 DEF Grows, TablesOK
  <2>3. openers'[o] = NotOpen /\ \A p \in Openers \ {o} : openers'[p] = openers[p]
    BY <2>1 DEF OpenersOK
  <2>4. openers' \in [Openers -> Opener]
    BY <2>1 DEF OpenersOK, Opener, NotOpen
  <2>5. OpenersOK'
    BY <2>1, <2>2, <2>3, <2>4, OpenersStayOK DEF OpenersOK, NotOpen
  <2>6. RecordedIsApplied' /\ TablesOK'
    BY <2>1 DEF RecordedIsApplied, IsRecorded, Added, TablesOK
  <2> QED BY <2>5, <2>6
<1>6. CASE UNCHANGED schemaVars
  BY <1>6 DEF schemaVars, TablesOK, OpenersOK, RecordedIsApplied, IsRecorded, Added, HasTable, Settled
<1> QED BY <1>1, <1>2, <1>3, <1>4, <1>5, <1>6, <1>7 DEF SchemaNext

LEMMA InvHolds == SchemaSpec => []SchemaInv
  BY InitInv, StepInv, PTL DEF SchemaSpec

-----------------------------------------------------------------------------
\* A version in _schema_meta means that the columns of its migration are there,
\* whichever processes migrate at once and wherever they die (db.py:86-105).
THEOREM VersionsAreApplied == SchemaSpec => []RecordedIsApplied
<1>1. SchemaInv => RecordedIsApplied
  BY DEF SchemaInv
<1> QED BY <1>1, InvHolds, PTL

\* A process that connect gave the file to finds every column of its schema, unless
\* another module's higher version hid a migration, and in any case those of its
\* indexes (db.py:38-53).
THEOREM OpenFilesAreCurrent == SchemaSpec => []OpenIsCurrent
<1>1. SchemaInv => OpenIsCurrent
  <2> SUFFICES ASSUME SchemaInv, NEW o \in Openers, openers[o].pc = "open"
               PROVE  /\ openers[o].owner \notin hidden =>
                            tables[openers[o].owner] = Columns[openers[o].owner]
                      /\ Indexed[openers[o].owner] \subseteq tables[openers[o].owner]
    BY DEF OpenIsCurrent
  <2>1. HasTable(o) /\ Settled(o) /\ openers[o].todo = {}
        /\ Indexed[openers[o].owner] \subseteq tables[openers[o].owner]
    BY DEF SchemaInv, OpenersOK
  <2>2. ASSUME openers[o].owner \notin hidden
        PROVE  tables[openers[o].owner] = Columns[openers[o].owner]
    <3> DEFINE m == openers[o].owner
    <3>1. m \in Owners /\ \A t \in Created[m] : t \cap tables[m] # {}
      BY <2>1 DEF HasTable
    <3>2. \A i \in DOMAIN Migrations[m] : Added(m, i) \subseteq tables[m]
      BY <2>1, <2>2 DEF Settled
    <3>3. tables[m] \subseteq Columns[m]
      BY <3>1 DEF SchemaInv, TablesOK
    <3>4. ASSUME NEW c \in Columns[m], c \notin tables[m]
          PROVE  \E i \in DOMAIN Migrations[m] : c \in Added(m, i)
      <4>1. CASE c \in UNION Created[m]
        <5>1. PICK t \in Created[m] : c \in t
          BY <4>1
        <5> QED BY <3>1, <3>4, <5>1 DEF SchemaInv, TablesOK
      <4>2. CASE c \notin UNION Created[m]
        BY <3>1, <4>2, SchemaAssumption
      <4> QED BY <4>1, <4>2
    <3> QED BY <3>2, <3>3, <3>4
  <2> QED BY <2>1, <2>2
<1> QED BY <1>1, InvHolds, PTL

-----------------------------------------------------------------------------
(* What another module's version hides.                                    *)

Overtaken(m, i) == OvertakenIn(m, i, versions)

(* A migration that is behind a recorded one of its module, or behind what *)
(* a process still has to apply, is recorded or overtaken.                 *)
OrderInv ==
    /\ \A v \in versions : \E m \in Owners : \E i \in DOMAIN Migrations[m] : v = VersionOf(m, i)
    /\ \A m \in Owners : \A i, k \in DOMAIN Migrations[m] :
          i < k /\ IsRecorded(m, k) => IsRecorded(m, i) \/ Overtaken(m, i)
    /\ \A o \in Openers : openers[o].pc = "migrate" =>
          \A i \in DOMAIN Migrations[openers[o].owner] \ openers[o].todo :
              IsRecorded(openers[o].owner, i) \/ Overtaken(openers[o].owner, i)
    /\ HighestIsNeverHidden

LEMMA OvertakenLasts ==
  ASSUME versions \subseteq versions'
  PROVE  \A m, i : /\ IsRecorded(m, i) => IsRecorded(m, i)'
                   /\ Overtaken(m, i) => Overtaken(m, i)'
BY DEF IsRecorded, Overtaken, OvertakenIn

LEMMA OrderStep == SchemaInv /\ OrderInv /\ [SchemaNext]_schemaVars => OrderInv'
<1> SUFFICES ASSUME SchemaInv, OrderInv, [SchemaNext]_schemaVars PROVE OrderInv'
  OBVIOUS
<1>1. openers \in [Openers -> Opener]
  BY DEF SchemaInv, OpenersOK
<1>2. ASSUME UNCHANGED <<versions, hidden>>, NEW o \in Openers,
             \A p \in Openers \ {o} : openers'[p] = openers[p],
             openers'[o].pc = "migrate" =>
                openers[o].pc = "migrate" /\ openers'[o].owner = openers[o].owner
                                          /\ openers'[o].todo = openers[o].todo
      PROVE  OrderInv'
  <2>1. \A m, i : (IsRecorded(m, i)' <=> IsRecorded(m, i)) /\ (Overtaken(m, i)' <=> Overtaken(m, i))
    BY <1>2 DEF IsRecorded, Overtaken
  <2>2. HighestIsNeverHidden'
    BY <1>2 DEF OrderInv, HighestIsNeverHidden
  <2> QED BY <1>2, <2>1, <2>2 DEF OrderInv
<1>3. ASSUME NEW o \in Openers, NEW m \in Owners, CreateTables(o, m) PROVE OrderInv'
  BY <1>1, <1>2, <1>3 DEF CreateTables
<1>9. ASSUME NEW o \in Openers, NEW m \in Owners, DieCreating(o, m) PROVE OrderInv'
  BY <1>1, <1>2, <1>9 DEF DieCreating
<1>4. ASSUME NEW o \in Openers, ReadVersion(o) PROVE OrderInv'
  <2> DEFINE m == openers[o].owner
  <2>1. m \in Owners /\ UNCHANGED versions
    BY <1>4 DEF ReadVersion, SchemaInv, OpenersOK, HasTable
  <2>2. ASSUME NEW i \in DOMAIN Migrations[m] \ Pending(m)
        PROVE  IsRecorded(m, i) \/ Overtaken(m, i)
    <3>1. PICK v \in versions : ~ (v < VersionOf(m, i))
      BY <2>2 DEF Pending, VersionOf
    <3>2. PICK n \in Owners : \E k \in DOMAIN Migrations[n] : v = VersionOf(n, k)
      BY DEF OrderInv
    <3>3. PICK k \in DOMAIN Migrations[n] : v = VersionOf(n, k)
      BY <3>2
    <3>4. v \in Nat /\ VersionOf(m, i) \in Nat
      BY <2>1, <2>2, <3>3, VersionAssumption
    <3>5. CASE v = VersionOf(m, i)
      BY <3>5 DEF IsRecorded, VersionOf
    <3>6. CASE v > VersionOf(m, i) /\ n # m
      BY <2>1, <3>3, <3>6 DEF Overtaken, OvertakenIn
    <3>7. CASE v > VersionOf(m, i) /\ n = m
      <4>1. i < k
        <5>1. i \in Nat /\ k \in Nat
          BY <2>1, <2>2, <3>3, <3>7, VersionAssumption
        <5>2. k < i => VersionOf(m, k) < VersionOf(m, i)
          BY <2>1, <2>2, <3>3, <3>7, VersionAssumption
        <5> QED BY <3>3, <3>4, <3>7, <5>1, <5>2
      <4> QED BY <2>1, <2>2, <3>3, <3>7, <4>1 DEF OrderInv, IsRecorded, VersionOf
    <3> QED BY <3>1, <3>4, <3>5, <3>6, <3>7
  <2>3. /\ openers'[o].todo = Pending(m) /\ openers'[o].owner = m
        /\ \A p \in Openers \ {o} : openers'[p] = openers[p]
    BY <1>1, <1>4 DEF ReadVersion, GoesOn, Opener
  <2>4. \A n, i : (IsRecorded(n, i)' <=> IsRecorded(n, i)) /\ (Overtaken(n, i)' <=> Overtaken(n, i))
    BY <2>1 DEF IsRecorded, Overtaken
  <2>5. HighestIsNeverHidden'
    <3>1. \A n \in hidden : \E i \in DOMAIN Migrations[n] : OvertakenIn(n, i, versions)
      BY DEF OrderInv, HighestIsNeverHidden
    <3>2. \A n \in hidden' \ hidden : \E i \in DOMAIN Migrations[n] : Overtaken(n, i)
      BY <1>4, <2>2 DEF ReadVersion
    <3> QED BY <2>1, <3>1, <3>2 DEF HighestIsNeverHidden, Overtaken
  <2>6. \A p \in Openers : openers'[p].pc = "migrate" =>
          \A i \in DOMAIN Migrations[openers'[p].owner] \ openers'[p].todo :
              IsRecorded(openers'[p].owner, i) \/ Overtaken(openers'[p].owner, i)
    BY <2>2, <2>3 DEF OrderInv
  <2> HIDE DEF m
  <2> QED BY <2>1, <2>4, <2>5, <2>6 DEF OrderInv
<1>5. ASSUME NEW o \in Openers, Migrate(o) PROVE OrderInv'
  <2>m. PICK m \in Owners : m = openers[o].owner
    BY <1>5 DEF Migrate, SchemaInv, OpenersOK, HasTable
  <2>1. PICK i \in openers[o].todo :
          /\ IsNext(o, i) /\ versions' = versions \cup {VersionOf(m, i)}
          /\ GoesOn(o, "migrate", openers[o].todo \ {i})
    BY <1>5, <2>m DEF Migrate, VersionOf
  <2>2. m \in Owners /\ i \in DOMAIN Migrations[m] /\ openers[o].pc = "migrate" /\ hidden' = hidden
    BY <1>5, <2>m, <2>1 DEF Migrate, SchemaInv, OpenersOK, HasTable, Settled
  <2>3. \A n, k : /\ IsRecorded(n, k) => IsRecorded(n, k)'
                  /\ Overtaken(n, k) => Overtaken(n, k)'
    BY <2>1, OvertakenLasts
  <2>4. /\ openers'[o].todo = openers[o].todo \ {i} /\ openers'[o].owner = m
        /\ \A p \in Openers \ {o} : openers'[p] = openers[p]
    BY <1>1, <2>m, <2>1 DEF GoesOn, Opener
  <2>5. \A v \in versions' : \E n \in Owners : \E k \in DOMAIN Migrations[n] : v = VersionOf(n, k)
    BY <2>1, <2>2 DEF OrderInv
  <2>6. ASSUME NEW n \in Owners, NEW k \in DOMAIN Migrations[n], NEW l \in DOMAIN Migrations[n],
               k < l, IsRecorded(n, l)'
        PROVE  IsRecorded(n, k)' \/ Overtaken(n, k)'
    <3>1. CASE IsRecorded(n, l)
      BY <2>3, <2>6, <3>1 DEF OrderInv
    <3>2. CASE ~ IsRecorded(n, l)
      <4>1. VersionOf(n, l) = VersionOf(m, i)
        BY <2>1, <2>6, <3>2 DEF IsRecorded, VersionOf
      <4>2. n = m /\ l = i
        BY <2>2, <4>1, SchemaAssumption DEF VersionOf
      <4>3. k \notin openers[o].todo
        <5>1. k \in Nat /\ l \in Nat
          BY VersionAssumption
        <5> QED BY <2>1, <2>6, <4>2, <5>1 DEF IsNext
      <4> QED BY <2>m, <2>2, <2>3, <4>2, <4>3 DEF OrderInv
    <3> QED BY <3>1, <3>2
  <2>7. ASSUME NEW p \in Openers, openers'[p].pc = "migrate", NEW n, n = openers'[p].owner
        PROVE  \A k \in DOMAIN Migrations[n] \ openers'[p].todo :
                   IsRecorded(n, k)' \/ Overtaken(n, k)'
    <3>1. CASE p = o
      <4>1. n = m /\ openers'[p].todo = openers[o].todo \ {i}
        BY <2>4, <2>7, <3>1
      <4>2. IsRecorded(m, i)'
        BY <2>1 DEF IsRecorded, VersionOf
      <4>3. \A k \in DOMAIN Migrations[m] \ openers[o].todo : IsRecorded(m, k)' \/ Overtaken(m, k)'
        BY <2>m, <2>2, <2>3 DEF OrderInv
      <4> QED BY <4>1, <4>2, <4>3
    <3>2. CASE p # o
      BY <2>3, <2>4, <2>7, <3>2 DEF OrderInv
    <3> QED BY <3>1, <3>2
  <2>8. HighestIsNeverHidden'
    BY <2>2, <2>3 DEF OrderInv, HighestIsNeverHidden, Overtaken
  <2> QED BY <2>5, <2>6, <2>7, <2>8 DEF OrderInv
<1>6. ASSUME NEW o \in Openers, CreateIndexes(o) PROVE OrderInv'
  BY <1>1, <1>2, <1>6 DEF CreateIndexes, GoesOn, Opener
<1>7. ASSUME NEW o \in Openers, Close(o) PROVE OrderInv'
  BY <1>1, <1>2, <1>7 DEF Close, NotOpen
<1>8. CASE UNCHANGED schemaVars
  BY <1>8 DEF schemaVars, OrderInv, IsRecorded, Overtaken, HighestIsNeverHidden
<1> QED BY <1>3, <1>4, <1>5, <1>6, <1>7, <1>8, <1>9 DEF SchemaNext

LEMMA OrderInit == SchemaInit => OrderInv
<1> SUFFICES ASSUME SchemaInit PROVE OrderInv
  OBVIOUS
<1>1. PICK f \in OldFiles : versions = f.versions
  BY DEF SchemaInit
<1> QED BY <1>1, VersionAssumption
        DEF SchemaInit, NotOpen, OrderInv, IsRecorded, VersionOf, Overtaken, HighestIsNeverHidden

\* A migration is taken for applied only below another module's version ("versions
\* are offset by 100 to avoid collisions", library.py): a version is never ahead of
\* its columns, who gets the file open can use it, and a module's own order of
\* migrations hides none of them.
THEOREM SchemasStayCurrent == SchemaSpec => []SchemasAreCurrent
<1>1. OrderInv => HighestIsNeverHidden
  BY DEF OrderInv
<1> QED BY <1>1, InvHolds, OrderInit, OrderStep, VersionsAreApplied, OpenFilesAreCurrent, PTL
        DEF SchemaSpec, SchemasAreCurrent

-----------------------------------------------------------------------------
(* The package store.  As long as nothing was raced and no build stopped,  *)
(* threads that build, delete or restore a package and jobs on it keep     *)
(* apart; each of them knows something of the directory that the others    *)
(* cannot change; and a directory without a manifest is being built.       *)

Labels == {"idle", "empty", "restore"} \cup Building \cup Staging \cup Deleting
Hand == [pc : Labels, post : Posts \cup {Gone}, body : Bodies \cup {Gone}]

StoreTypes ==
  /\ store \in [Posts -> Dir \cup {Gone}]
  /\ trash \in [Posts -> Dir \cup {Gone}]
  /\ hands \in [Hands -> Hand]
  /\ \A h \in Hands : hands[h].pc \in Building \cup Staging => hands[h].body \in Bodies

Apart(p) ==
  \A g, h \in Hands : g # h =>
    /\ At(g, p, Building) => ~ At(h, p, Building \cup Deleting \cup {"restore"})
    /\ At(g, p, Staging) => ~ At(h, p, Deleting)
    /\ mishaps = {} /\ At(g, p, Deleting) => ~ At(h, p, Deleting)

HandsKnow(p) ==
  \A h \in Hands :
    /\ At(h, p, Building \cup Staging) => store[p] # Gone
    /\ At(h, p, {"caption", "manifest"}) =>
          store[p].manifest = Gone \/ store[p].manifest.body = hands[h].body
    /\ At(h, p, Staging) => store[p].manifest # Gone /\ store[p].manifest.body = hands[h].body
    /\ At(h, p, {"move", "restore"}) => store[p] = Gone \/ trash[p] = Gone
    /\ mishaps = {} /\ At(h, p, Deleting) => store[p] # Gone

InMaking(p) ==
  \E h \in Hands : At(h, p, Building)
     /\ store[p].caption = IF hands[h].pc = "manifest" THEN hands[h].body ELSE Gone

DirsAreSound(p) ==
  /\ trash[p] # Gone => Whole(trash[p])
  /\ store[p] # Gone => Sound(store[p])
  /\ store[p] # Gone /\ store[p].manifest = Gone => InMaking(p)

Clean == mishaps \subseteq {"twice"}
Orderly(p) == Apart(p) /\ HandsKnow(p) /\ DirsAreSound(p)
StoreInv == StoreTypes /\ (Clean => \A p \in Posts : Orderly(p))

(* A step of one thread on one package.                                    *)
Acts(h, p) ==
  \/ StartBuild(h, p) \/ GuardBuild(h, p) \/ BuildCaption(h, p) \/ BuildManifest(h, p)
  \/ StartStage(h, p) \/ OpenTemp(h, p) \/ ReplaceManifest(h, p) \/ StageFails(h, p)
  \/ StartDelete(h, p) \/ MakeRoom(h, p) \/ MoveToTrash(h, p)
  \/ StartRestore(h, p) \/ Restore(h, p)

LEMMA EnsuredIsDir ==
  ASSUME StoreTypes, NEW p \in Posts PROVE EnsureDir(p) \in Dir
<1>1. NewDir \in Dir
  BY DEF NewDir, Dir
<1> QED BY <1>1 DEF StoreTypes, EnsureDir


(* What every such step has in common.                                     *)
Touches(h, p) ==
  /\ \E x \in Hand : /\ hands' = [hands EXCEPT ![h] = x]
                     /\ x.pc \in Building \cup Staging => x.body \in Bodies
                     /\ x.pc \in {"idle"} \/ x.post = p
  /\ hands[h].pc \in {"idle"} \/ hands[h].post = p
  /\ \E d \in Dir \cup {Gone} : store' = [store EXCEPT ![p] = d]
  /\ \E d \in Dir \cup {Gone} : trash' = [trash EXCEPT ![p] = d]
  /\ mishaps \subseteq mishaps'

LEMMA ActsTouch ==
  ASSUME StoreTypes, NEW h \in Hands, NEW p \in Posts, Acts(h, p) PROVE Touches(h, p)
<1> USE StoreAssumption DEF StoreTypes
<1> DEFINE Dirs == Dir \cup {Gone}
           At0(x) == /\ hands' = [hands EXCEPT ![h] = x] /\ x \in Hand
                     /\ x.pc \in Building \cup Staging => x.body \in Bodies
                     /\ x.pc \in {"idle"} \/ x.post = p
<1>a. /\ store[p] \in Dirs /\ trash[p] \in Dirs /\ EnsureDir(p) \in Dir
      /\ store = [store EXCEPT ![p] = store[p]] /\ trash = [trash EXCEPT ![p] = trash[p]]
  BY EnsuredIsDir
<1>b. Idle \in Hand /\ (Rests(h) => At0(Idle))
  BY DEF Idle, Hand, Labels, Rests, Building, Staging
<1>c. ASSUME NEW pc \in Labels \ {"idle"}, NEW b \in Bodies \cup {Gone}, Takes(h, p, pc, b),
             pc \in Building \cup Staging => b \in Bodies
      PROVE  At0([pc |-> pc, post |-> p, body |-> b]) /\ hands[h].pc \in {"idle"}
  BY <1>c DEF Takes, Hand
<1>d. ASSUME NEW pc \in Labels \ {"idle"}, Goes(h, pc), hands[h].post = p,
             hands[h].pc \in Building \cup Staging \/ pc \notin Building \cup Staging
      PROVE  At0([hands[h] EXCEPT !.pc = pc])
  BY <1>d DEF Goes, Hand
<1>e. ASSUME NEW pcs, NEW what, Meets(h, p, pcs, what) PROVE mishaps \subseteq mishaps'
  BY <1>e DEF Meets
<1> HIDE DEF Dirs, At0
<1>0. ASSUME NEW x, At0(x), NEW d \in Dirs, NEW e \in Dirs, store' = [store EXCEPT ![p] = d],
             trash' = [trash EXCEPT ![p] = e], mishaps \subseteq mishaps',
             hands[h].pc \in {"idle"} \/ hands[h].post = p
      PROVE  Touches(h, p)
  BY <1>0 DEF Dirs, At0, Touches
<1>1. CASE StartBuild(h, p)
  <2>1. PICK b \in Bodies : Takes(h, p, "guard", b)
    BY <1>1 DEF StartBuild
  <2> QED BY <1>1, <2>1, <1>a, <1>c, <1>e, <1>0 DEF StartBuild, Labels, Building, Dirs
<1>2. CASE GuardBuild(h, p)
  BY <1>2, <1>a, <1>b, <1>d, <1>0 DEF GuardBuild, At, Labels, Building
<1>3. CASE BuildCaption(h, p)
  <2>1. hands[h].post = p /\ hands[h].pc \in Building /\ hands[h].body \in Bodies
    BY <1>3 DEF BuildCaption, At, Building
  <2>2. [EnsureDir(p) EXCEPT !.caption = IF @ = Gone THEN hands[h].body ELSE @] \in Dirs
    BY <1>a, <2>1 DEF Dir, Dirs
  <2> QED BY <1>3, <2>1, <2>2, <1>a, <1>d, <1>0 DEF BuildCaption, Labels, Building
<1>4. CASE BuildManifest(h, p)
  <2>1. hands[h].post = p /\ hands[h].body \in Bodies
    BY <1>4 DEF BuildManifest, At, Building
  <2>2. [EnsureDir(p) EXCEPT !.manifest = IF @ = Gone
           THEN [status |-> "package_built", body |-> hands[h].body] ELSE @] \in Dirs
    BY <1>a, <2>1 DEF Dir, Dirs, Manifest
  <2> QED BY <1>4, <2>1, <2>2, <1>a, <1>b, <1>0 DEF BuildManifest
<1>5. CASE StartStage(h, p)
  <2>1. store[p].manifest.body \in Bodies
    BY <1>5, <1>a DEF StartStage, Dir, Dirs, Manifest
  <2> QED BY <1>5, <2>1, <1>a, <1>c, <1>e, <1>0 DEF StartStage, Labels, Staging
<1>6. CASE OpenTemp(h, p)
  <2>1. hands[h].post = p /\ hands[h].pc \in Staging
    BY <1>6 DEF OpenTemp, At, Staging
  <2>2. [EnsureDir(p) EXCEPT !.temps = @ \cup {h}] \in Dirs
    BY <1>a DEF Dir, Dirs
  <2> QED BY <1>6, <2>1, <2>2, <1>a, <1>d, <1>0 DEF OpenTemp, Labels, Staging
<1>7. CASE ReplaceManifest(h, p)
  <2>1. hands[h].post = p /\ hands[h].body \in Bodies
    BY <1>7 DEF ReplaceManifest, At, Staging
  <2> DEFINE m == [status |-> "drafted", body |-> hands[h].body]
             d == [[store[p] EXCEPT !.temps = @ \ {h}] EXCEPT !.manifest = m]
  <2>2. CASE store[p] # Gone /\ h \in store[p].temps
    <3>1. d \in Dirs
      BY <1>a, <2>1, <2>2 DEF Dir, Dirs, Manifest
    <3>2. store' = [store EXCEPT ![p] = d]
      BY <1>7, <2>2, <1>a DEF ReplaceManifest, Dir, Dirs
    <3> QED BY <1>7, <2>1, <3>1, <3>2, <1>a, <1>b, <1>0 DEF ReplaceManifest
  <2>3. CASE ~ (store[p] # Gone /\ h \in store[p].temps)
    BY <1>7, <2>1, <2>3, <1>a, <1>b, <1>0 DEF ReplaceManifest
  <2> QED BY <2>2, <2>3
<1>8. CASE StageFails(h, p)
  <2>1. hands[h].post = p
    BY <1>8 DEF StageFails, At
  <2>2. store[p] # Gone => [store[p] EXCEPT !.temps = @ \ {h}] \in Dirs
    BY <1>a DEF Dir, Dirs
  <2> QED BY <1>8, <2>1, <2>2, <1>a, <1>b, <1>0 DEF StageFails
<1>9. CASE StartDelete(h, p)
  BY <1>9, <1>a, <1>c, <1>e, <1>0 DEF StartDelete, Labels, Deleting, Building, Staging
<1>10. CASE MakeRoom(h, p)
  BY <1>10, <1>a, <1>d, <1>0 DEF MakeRoom, At, Labels, Deleting, Building, Staging, Dirs
<1>11. CASE MoveToTrash(h, p) \/ Restore(h, p)
  <2>1. hands[h].post = p /\ Rests(h) /\ mishaps' = mishaps
    BY <1>11 DEF MoveToTrash, Restore, At
  <2>2. \A a, b \in Dirs : a # Gone => Moved(a, b) \in Dirs
    BY DEF Moved, Dirs, Dir
  <2> QED BY <1>11, <2>1, <2>2, <1>a, <1>b, <1>0 DEF MoveToTrash, Restore, Dirs
<1>12. CASE StartRestore(h, p)
  BY <1>12, <1>a, <1>c, <1>0 DEF StartRestore, Labels, Building, Staging
<1> QED BY <1>1, <1>2, <1>3, <1>4, <1>5, <1>6, <1>7, <1>8, <1>9, <1>10, <1>11, <1>12 DEF Acts

LEMMA TypesStep ==
  ASSUME StoreTypes, NEW h \in Hands, NEW p \in Posts, Touches(h, p) PROVE StoreTypes'
BY DEF StoreTypes, Touches

(* The other packages see nothing of it.                                   *)
LEMMA ElsewhereOrderly ==
  ASSUME StoreTypes, NEW h \in Hands, NEW p \in Posts, Touches(h, p),
         NEW q \in Posts \ {p}, Orderly(q)
  PROVE  Orderly(q)'
<1>1. store'[q] = store[q] /\ trash'[q] = trash[q] /\ (mishaps' = {} => mishaps = {})
  BY DEF Touches, StoreTypes
<1>2. \A g \in Hands \ {h} : hands'[g] = hands[g]
  BY DEF Touches, StoreTypes
<1>3. /\ hands[h].pc \in {"idle"} \/ hands[h].post # q
      /\ hands'[h].pc \in {"idle"} \/ hands'[h].post # q
  BY DEF Touches, StoreTypes
<1>4. Apart(q)'
  <2>1. \A g \in Hands : hands'[g].post = q /\ hands'[g].pc \notin {"idle"} => hands'[g] = hands[g]
    BY <1>2, <1>3
  <2> QED BY <1>1, <2>1 DEF Orderly, Apart, At, Building, Staging, Deleting
<1>5. HandsKnow(q)'
  <2>1. \A g \in Hands : hands'[g].post = q /\ hands'[g].pc \notin {"idle"} => hands'[g] = hands[g]
    BY <1>2, <1>3
  <2> QED BY <1>1, <2>1 DEF Orderly, HandsKnow, At, Building, Staging, Deleting
<1>6. DirsAreSound(q)'
  <2>1. \A g \in Hands : hands[g].post = q /\ hands[g].pc \notin {"idle"} => hands'[g] = hands[g]
    BY <1>2, <1>3
  <2>2. InMaking(q) => InMaking(q)'
    BY <1>1, <2>1 DEF InMaking, At, Building
  <2> QED BY <1>1, <2>2 DEF Orderly, DirsAreSound, Sound, Whole
<1> QED BY <1>4, <1>5, <1>6 DEF Orderly

(* The manifest and the caption are of the same page as before.            *)
SamePage(d, e) ==
  /\ d = Gone <=> e = Gone
  /\ d.manifest = Gone <=> e.manifest = Gone
  /\ d.manifest # Gone => d.manifest.body = e.manifest.body
  /\ d.caption = e.caption /\ d.inner = e.inner

LEMMA BuildStepsOrderly ==
  ASSUME StoreTypes, NEW h \in Hands, NEW p \in Posts, Clean, Clean', Orderly(p), StoreTypes',
         StartBuild(h, p) \/ GuardBuild(h, p) \/ BuildCaption(h, p) \/ BuildManifest(h, p)
  PROVE  Orderly(p)'
<1> USE StoreAssumption
<1>0. /\ trash' = trash /\ (mishaps' = {} => mishaps = {})
      /\ \A g \in Hands \ {h} : hands'[g] = hands[g]
      /\ \A g \in Hands : At(g, p, Building) => store[p] # Gone
      /\ EnsureDir(p) \in Dir
      /\ store[p] \in Dir \cup {Gone} /\ store'[p] \in Dir
  <2>1. trash' = trash /\ (mishaps' = {} => mishaps = {})
    BY DEF StartBuild, GuardBuild, BuildCaption, BuildManifest, Meets
  <2>2. \A g \in Hands \ {h} : hands'[g] = hands[g]
    BY DEF StartBuild, GuardBuild, BuildCaption, BuildManifest, Takes, Goes, Rests, StoreTypes
  <2>3. \A g \in Hands : At(g, p, Building) => store[p] # Gone
    BY DEF Orderly, HandsKnow, At
  <2>4. EnsureDir(p) \in Dir /\ store[p] \in Dir \cup {Gone} /\ store'[p] \in Dir \cup {Gone}
    BY EnsuredIsDir DEF StoreTypes
  <2>5. CASE StartBuild(h, p)
    BY <2>1, <2>2, <2>3, <2>4, <2>5 DEF StartBuild, StoreTypes
  <2>6. CASE GuardBuild(h, p)
    BY <2>1, <2>2, <2>3, <2>4, <2>6 DEF GuardBuild, At, Building
  <2>7. CASE BuildCaption(h, p)
    <3>1. store'[p] = [EnsureDir(p) EXCEPT !.caption = IF @ = Gone THEN hands[h].body ELSE @]
      BY <2>7 DEF BuildCaption, StoreTypes
    <3>2. hands[h].body \in Bodies
      BY <2>7 DEF BuildCaption, At, Building, StoreTypes
    <3>3. store'[p] \in Dir
      BY <2>4, <3>1, <3>2 DEF Dir
    <3> QED BY <2>1, <2>2, <2>3, <2>4, <3>3
  <2>8. CASE BuildManifest(h, p)
    <3>1. store'[p] = [EnsureDir(p) EXCEPT !.manifest =
                          IF @ = Gone THEN [status |-> "package_built", body |-> hands[h].body] ELSE @]
      BY <2>8 DEF BuildManifest, StoreTypes
    <3>2. [status |-> "package_built", body |-> hands[h].body] \in Manifest
      BY <2>8 DEF BuildManifest, At, Building, StoreTypes, Manifest
    <3>3. store'[p] \in Dir
      BY <2>4, <3>1, <3>2 DEF Dir
    <3> QED BY <2>1, <2>2, <2>3, <2>4, <3>3
  <2> QED BY <2>5, <2>6, <2>7, <2>8
<1>1. CASE StartBuild(h, p)
  <2>1. PICK b \in Bodies : hands' = [hands EXCEPT ![h] = [pc |-> "guard", post |-> p, body |-> b]]
    BY <1>1 DEF StartBuild, Takes
  <2>2. ~ Others(h, p, Building \cup Deleting \cup {"restore"})
    BY <1>1 DEF StartBuild, Meets, Clean
  <2>3. hands[h].pc = "idle" /\ hands'[h] = [pc |-> "guard", post |-> p, body |-> b]
    BY <1>1, <2>1 DEF StartBuild, Takes, StoreTypes
  <2>4. store'[p] = EnsureDir(p)
    BY <1>1 DEF StartBuild, StoreTypes
  <2>5. Apart(p)'
    BY <1>0, <2>2, <2>3 DEF Orderly, Apart, Others, At, Building, Deleting, Staging
  <2>6. HandsKnow(p)'
    BY <1>0, <2>2, <2>3, <2>4 DEF Orderly, HandsKnow, Others, At, Building, Deleting, Staging, EnsureDir
  <2>7. DirsAreSound(p)'
    <3>1. store[p] # Gone /\ store[p].manifest = Gone => FALSE
      BY <2>2, <2>3 DEF Orderly, DirsAreSound, InMaking, Others, At, Building
    <3>2. store[p] = Gone => store'[p] = NewDir /\ InMaking(p)'
      BY <2>3, <2>4 DEF EnsureDir, NewDir, InMaking, At, Building
    <3> QED BY <1>0, <2>4, <3>1, <3>2 DEF Orderly, DirsAreSound, Sound, Whole, EnsureDir, NewDir
  <2> QED BY <2>5, <2>6, <2>7 DEF Orderly
<1>2. CASE GuardBuild(h, p)
  <2>1. /\ At(h, p, {"guard"}) /\ store' = store /\ mishaps' = mishaps
        /\ store[p] # Gone /\ EnsureDir(p) = store[p]
    BY <1>0, <1>2 DEF GuardBuild, At, Building, EnsureDir
  <2>2. CASE /\ store[p].manifest # Gone /\ store[p].manifest.body # hands[h].body
             /\ hands'[h] = Idle
    BY <1>0, <2>1, <2>2 DEF Orderly, Apart, HandsKnow, DirsAreSound, InMaking, At, Building,
                            Deleting, Staging, Idle, Whole, Sound
  <2>3. CASE /\ store[p].manifest = Gone \/ store[p].manifest.body = hands[h].body
             /\ hands'[h] = [hands[h] EXCEPT !.pc = "caption"]
    <3>1. hands'[h].pc = "caption" /\ hands'[h].post = p /\ hands'[h].body = hands[h].body
      BY <2>1, <2>3 DEF StoreTypes, Hand, At
    <3>2. Apart(p)'
      BY <1>0, <2>1, <3>1 DEF Orderly, Apart, At, Building, Deleting, Staging
    <3>4. HandsKnow(p)'
      BY <1>0, <2>1, <2>3, <3>1 DEF Orderly, HandsKnow, At, Building, Deleting, Staging
    <3>3. DirsAreSound(p)'
      <4>1. InMaking(p) => InMaking(p)'
        BY <1>0, <2>1, <3>1 DEF InMaking, At, Building
      <4> QED BY <1>0, <2>1, <4>1 DEF Orderly, DirsAreSound, Whole, Sound
    <3> QED BY <3>2, <3>3, <3>4 DEF Orderly
  <2> QED BY <1>2, <2>1, <2>2, <2>3 DEF GuardBuild, Rests, Goes, StoreTypes
<1>3. CASE BuildCaption(h, p)
  <2>1. /\ At(h, p, {"caption"}) /\ mishaps' = mishaps
        /\ store[p] # Gone /\ EnsureDir(p) = store[p]
        /\ hands[h].body \in Bodies
    BY <1>0, <1>3 DEF BuildCaption, At, Building, EnsureDir, StoreTypes
  <2>2. hands'[h].pc = "manifest" /\ hands'[h].post = p /\ hands'[h].body = hands[h].body
    BY <1>3, <2>1 DEF BuildCaption, Goes, StoreTypes, Hand, At
  <2>3. \A g \in Hands \ {h} : ~ At(g, p, Building)
    BY <2>1 DEF Orderly, Apart, At, Building
  <2>4. store[p].manifest = Gone => store[p].caption = Gone
    BY <2>1, <2>3 DEF Orderly, DirsAreSound, InMaking, At, Building
  <2>5. /\ store'[p].manifest = store[p].manifest /\ store'[p].inner = store[p].inner
        /\ store'[p].caption = IF store[p].caption = Gone THEN hands[h].body ELSE store[p].caption
    BY <1>0, <1>3, <2>1 DEF BuildCaption, StoreTypes, Dir
  <2>6. Apart(p)' /\ HandsKnow(p)'
    <3>1. Apart(p)'
      BY <1>0, <2>1, <2>2 DEF Orderly, Apart, At, Building, Deleting, Staging
    <3>2. \A g \in Hands \ {h} : ~ At(g, p, Building)'
      BY <1>0, <2>3 DEF At
    <3>3. store[p].manifest = Gone \/ store[p].manifest.body = hands[h].body
      BY <2>1 DEF Orderly, HandsKnow, At
    <3>4. HandsKnow(p)'
      BY <1>0, <2>1, <2>2, <2>5, <3>3 DEF Orderly, HandsKnow, At, Building, Deleting, Staging
    <3> QED BY <3>1, <3>4
  <2>7. Sound(store[p]) /\ (store[p].manifest # Gone => store[p].manifest.body \in Bodies)
    BY <1>0, <2>1 DEF Orderly, DirsAreSound, Dir, Manifest
  <2>8. store'[p].manifest = Gone => InMaking(p)'
    BY <2>1, <2>2, <2>4, <2>5 DEF InMaking, At, Building
  <2>9. DirsAreSound(p)'
    BY <1>0, <2>1, <2>5, <2>7, <2>8 DEF Orderly, DirsAreSound, Whole, Sound
  <2> QED BY <2>6, <2>9 DEF Orderly
<1>4. CASE BuildManifest(h, p)
  <2>1. /\ At(h, p, {"manifest"}) /\ mishaps' = mishaps
        /\ store[p] # Gone /\ EnsureDir(p) = store[p]
        /\ hands[h].body \in Bodies
    BY <1>0, <1>4 DEF BuildManifest, At, Building, EnsureDir, StoreTypes
  <2> DEFINE m == [status |-> "package_built", body |-> hands[h].body]
  <2>2. hands'[h] = Idle /\ m \in Manifest
    BY <1>4, <2>1 DEF BuildManifest, Rests, StoreTypes, Manifest
  <2>3. \A g \in Hands \ {h} : ~ At(g, p, Building)
    BY <2>1 DEF Orderly, Apart, At, Building
  <2>4. store[p].manifest = Gone => store[p].caption = hands[h].body
    BY <2>1, <2>3 DEF Orderly, DirsAreSound, InMaking, At, Building
  <2>5. /\ store'[p].caption = store[p].caption /\ store'[p].inner = store[p].inner
        /\ store'[p].manifest = IF store[p].manifest = Gone THEN m ELSE store[p].manifest
    BY <1>0, <1>4, <2>1 DEF BuildManifest, StoreTypes, Dir
  <2>6. Apart(p)'
    BY <1>0, <2>1, <2>2 DEF Orderly, Apart, At, Building, Deleting, Staging, Idle
  <2>7. HandsKnow(p)'
    BY <1>0, <2>1, <2>2, <2>3, <2>5 DEF Orderly, HandsKnow, At, Building, Deleting, Staging, Dir, Idle
  <2>8. DirsAreSound(p)'
    BY <1>0, <2>1, <2>2, <2>4, <2>5 DEF Orderly, DirsAreSound, Whole, Sound
  <2> QED BY <2>6, <2>7, <2>8 DEF Orderly
<1> QED BY <1>1, <1>2, <1>3, <1>4

LEMMA StageStepsOrderly ==
  ASSUME StoreTypes, NEW h \in Hands, NEW p \in Posts, Clean, Clean', Orderly(p), StoreTypes',
         StartStage(h, p) \/ OpenTemp(h, p) \/ ReplaceManifest(h, p) \/ StageFails(h, p)
  PROVE  Orderly(p)'
<1> USE StoreAssumption
<1>1. /\ trash' = trash /\ (mishaps' = {} => mishaps = {})
      /\ \A g \in Hands \ {h} : hands'[g] = hands[g]
  BY DEF StartStage, OpenTemp, ReplaceManifest, StageFails, Meets, Takes, Goes, Rests, StoreTypes
<1>2. \/ StartStage(h, p)
      \/ /\ At(h, p, Staging) /\ store[p] # Gone /\ store[p].manifest # Gone
         /\ store[p].manifest.body = hands[h].body
  BY DEF OpenTemp, ReplaceManifest, StageFails, At, Staging, Orderly, HandsKnow
<1>3. SamePage(store'[p], store[p]) /\ store[p] # Gone
  <2>1. CASE StartStage(h, p)
    BY <2>1 DEF StartStage, SamePage
  <2> SUFFICES ASSUME ~ StartStage(h, p) PROVE SamePage(store'[p], store[p]) /\ store[p] # Gone
    BY <2>1
  <2>2. store[p] \in Dir /\ EnsureDir(p) = store[p]
    BY <1>2 DEF StoreTypes, EnsureDir
  <2>3. CASE OpenTemp(h, p)
    <3>1. store'[p] = [store[p] EXCEPT !.temps = @ \cup {h}]
      BY <2>2, <2>3 DEF OpenTemp, StoreTypes
    <3> QED BY <2>2, <3>1 DEF SamePage, Dir, StoreTypes
  <2>4. CASE ReplaceManifest(h, p)
    <3> DEFINE m == [status |-> "drafted", body |-> hands[h].body]
    <3>1. \/ store'[p] = store[p]
          \/ store'[p] = [[store[p] EXCEPT !.temps = @ \ {h}] EXCEPT !.manifest = m]
      BY <2>2, <2>4 DEF ReplaceManifest, StoreTypes, Dir
    <3>2. m \in Manifest /\ m.body = store[p].manifest.body
      BY <1>2, <2>2 DEF Manifest, At, Staging, StoreTypes
    <3> QED BY <1>2, <2>2, <3>1, <3>2 DEF SamePage, Dir, StoreTypes
  <2>5. CASE StageFails(h, p)
    <3>1. store'[p] = [store[p] EXCEPT !.temps = @ \ {h}]
      BY <1>2, <2>2, <2>5 DEF StageFails, StoreTypes
    <3> QED BY <2>2, <3>1 DEF SamePage, Dir, StoreTypes
  <2> QED BY <2>3, <2>4, <2>5
<1>4. \/ hands'[h].pc = "idle" /\ At(h, p, Staging)
      \/ /\ hands'[h].post = p /\ hands'[h].pc \in Staging
         /\ store[p].manifest # Gone /\ hands'[h].body = store[p].manifest.body
         /\ \A g \in Hands \ {h} : ~ At(g, p, Deleting)
         /\ At(h, p, Staging) \/ hands[h].pc = "idle"
  <2>1. CASE StartStage(h, p)
    <3>1. ~ Others(h, p, Deleting)
      BY <2>1 DEF StartStage, Meets, Clean
    <3> QED BY <2>1, <3>1 DEF StartStage, Takes, StoreTypes, Others, Staging
  <2>2. CASE OpenTemp(h, p)
    <3>1. At(h, p, Staging)
      BY <2>2 DEF OpenTemp, At, Staging
    <3>2. hands'[h] = [hands[h] EXCEPT !.pc = "replace"]
      BY <2>2 DEF OpenTemp, Goes, StoreTypes
    <3>3. hands'[h].post = p /\ hands'[h].pc = "replace" /\ hands'[h].body = hands[h].body
      BY <3>1, <3>2 DEF StoreTypes, Hand, At
    <3>4. \A g \in Hands \ {h} : ~ At(g, p, Deleting)
      BY <3>1 DEF Orderly, Apart
    <3>5. store[p].manifest # Gone /\ store[p].manifest.body = hands[h].body
      BY <3>1 DEF Orderly, HandsKnow
    <3> QED BY <3>1, <3>3, <3>4, <3>5 DEF Staging
  <2>3. CASE ReplaceManifest(h, p) \/ StageFails(h, p)
    BY <2>3 DEF ReplaceManifest, StageFails, Rests, Idle, StoreTypes, At, Staging
  <2> QED BY <2>1, <2>2, <2>3
<1>5. Apart(p)'
  BY <1>1, <1>4 DEF Orderly, Apart, At, Building, Deleting, Staging
<1>6. HandsKnow(p)'
  BY <1>1, <1>3, <1>4 DEF Orderly, HandsKnow, SamePage, At, Building, Deleting, Staging
<1>7. DirsAreSound(p)'
  <2>1. InMaking(p) => InMaking(p)'
    BY <1>1, <1>3, <1>4 DEF InMaking, SamePage, At, Building, Staging
  <2> QED BY <1>1, <1>3, <2>1 DEF Orderly, DirsAreSound, SamePage, Whole, Sound
<1> QED BY <1>5, <1>6, <1>7 DEF Orderly

(* What is deleted is whole, and there is room for it.                     *)
LEMMA DeletedIsWhole ==
  ASSUME StoreTypes, NEW h \in Hands, NEW p \in Posts, Clean, Orderly(p), At(h, p, Deleting)
  PROVE  /\ \A g \in Hands : ~ At(g, p, Building \cup Staging)
         /\ store[p] # Gone => Whole(store[p])
<1>1. \A g \in Hands : ~ At(g, p, Building \cup Staging)
  BY DEF Orderly, Apart, At, Building, Staging, Deleting
<1> QED BY <1>1 DEF Orderly, DirsAreSound, InMaking, At, Whole

LEMMA DeleteStepsOrderly ==
  ASSUME StoreTypes, NEW h \in Hands, NEW p \in Posts, Clean, Clean', Orderly(p), StoreTypes',
         StartDelete(h, p) \/ MakeRoom(h, p) \/ MoveToTrash(h, p)
  PROVE  Orderly(p)'
<1>1. /\ mishaps' = {} => mishaps = {}
      /\ \A g \in Hands \ {h} : hands'[g] = hands[g]
  BY DEF StartDelete, MakeRoom, MoveToTrash, Meets, Takes, Goes, Rests, StoreTypes
<1>2. CASE StartDelete(h, p)
  <2>1. /\ hands[h].pc = "idle" /\ hands'[h].pc = "room" /\ hands'[h].post = p
        /\ store' = store /\ trash' = trash /\ store[p] # Gone
    BY <1>2 DEF StartDelete, Takes, StoreTypes
  <2>2. ~ Others(h, p, Building \cup Staging) /\ (mishaps' = {} => ~ Others(h, p, Deleting))
    BY <1>2 DEF StartDelete, Meets, Clean
  <2>3. Apart(p)'
    BY <1>1, <2>1, <2>2 DEF Orderly, Apart, Others, At, Building, Deleting, Staging
  <2>4. HandsKnow(p)'
    BY <1>1, <2>1 DEF Orderly, HandsKnow, At, Building, Deleting, Staging
  <2>5. DirsAreSound(p)'
    <3>1. InMaking(p) => InMaking(p)'
      BY <1>1, <2>1 DEF InMaking, At, Building
    <3> QED BY <2>1, <3>1 DEF Orderly, DirsAreSound, Whole, Sound
  <2> QED BY <2>3, <2>4, <2>5 DEF Orderly
<1>3. CASE MakeRoom(h, p)
  <2>1. /\ At(h, p, {"room"}) /\ hands'[h].pc = "move" /\ hands'[h].post = p
        /\ store' = store /\ trash'[p] = Gone
    BY <1>3 DEF MakeRoom, Goes, StoreTypes, Hand, At
  <2>2. At(h, p, Deleting)
    BY <2>1 DEF At, Deleting
  <2>3. Apart(p)'
    BY <1>1, <2>1 DEF Orderly, Apart, At, Building, Deleting, Staging
  <2>4. HandsKnow(p)'
    BY <1>1, <2>1 DEF Orderly, HandsKnow, At, Building, Deleting, Staging
  <2>5. DirsAreSound(p)'
    BY <2>1, <2>2, DeletedIsWhole DEF Orderly, DirsAreSound, Whole, Sound
  <2> QED BY <2>3, <2>4, <2>5 DEF Orderly
<1>4. CASE MoveToTrash(h, p)
  <2>1. At(h, p, {"move"}) /\ hands'[h].pc = "idle"
    BY <1>4 DEF MoveToTrash, Rests, Idle, StoreTypes
  <2>2. At(h, p, Deleting)
    BY <2>1 DEF At, Deleting
  <2>3. \/ store[p] = Gone /\ store' = store /\ trash' = trash
        \/ store'[p] = Gone /\ trash'[p] = store[p] /\ Whole(store[p])
    <3>1. store[p] # Gone => trash[p] = Gone
      BY <2>1 DEF Orderly, HandsKnow, At
    <3> QED BY <1>4, <2>2, <3>1, DeletedIsWhole DEF MoveToTrash, Moved, StoreTypes
  <2>4. store'[p] = Gone
    BY <2>3
  <2>5. Apart(p)'
    BY <1>1, <2>1 DEF Orderly, Apart, At, Building, Deleting, Staging
  <2>6. HandsKnow(p)'
    <3>1. \A g \in Hands : ~ At(g, p, Building \cup Staging)'
      BY <1>1, <2>1, <2>2, DeletedIsWhole DEF At, Building, Staging
    <3>2. mishaps' = {} => \A g \in Hands : ~ At(g, p, Deleting)'
      BY <1>1, <2>1, <2>2 DEF Orderly, Apart, At, Deleting
    <3> QED BY <2>4, <3>1, <3>2 DEF HandsKnow, At, Building, Staging
  <2>7. DirsAreSound(p)'
    BY <2>3, <2>4 DEF Orderly, DirsAreSound, Whole, Sound
  <2> QED BY <2>5, <2>6, <2>7 DEF Orderly
<1> QED BY <1>2, <1>3, <1>4

LEMMA RestoreStepsOrderly ==
  ASSUME StoreTypes, NEW h \in Hands, NEW p \in Posts, Clean, Clean', Orderly(p), StoreTypes',
         StartRestore(h, p) \/ Restore(h, p)
  PROVE  Orderly(p)'
<1>1. /\ mishaps' = mishaps
      /\ \A g \in Hands \ {h} : hands'[g] = hands[g]
  BY DEF StartRestore, Restore, Takes, Rests, StoreTypes
<1>2. CASE StartRestore(h, p)
  <2>1. /\ hands[h].pc = "idle" /\ hands'[h].pc = "restore" /\ hands'[h].post = p
        /\ store' = store /\ trash' = trash /\ store[p] = Gone
    BY <1>2 DEF StartRestore, Takes, StoreTypes
  <2>2. \A g \in Hands : ~ At(g, p, Building \cup Staging)
    BY <2>1 DEF Orderly, HandsKnow
  <2>3. Apart(p)'
    BY <1>1, <2>1, <2>2 DEF Orderly, Apart, At, Building, Deleting, Staging
  <2>4. HandsKnow(p)'
    BY <1>1, <2>1 DEF Orderly, HandsKnow, At, Building, Deleting, Staging
  <2>5. DirsAreSound(p)'
    BY <2>1 DEF Orderly, DirsAreSound, Whole, Sound
  <2> QED BY <2>3, <2>4, <2>5 DEF Orderly
<1>3. CASE Restore(h, p)
  <2>1. At(h, p, {"restore"}) /\ hands'[h].pc = "idle"
    BY <1>3 DEF Restore, Rests, Idle, StoreTypes
  <2>2. Apart(p)'
    BY <1>1, <2>1 DEF Orderly, Apart, At, Building, Deleting, Staging
  <2>3. CASE trash[p] = Gone
    <3>1. store' = store /\ trash' = trash
      BY <1>3, <2>3 DEF Restore
    <3>2. HandsKnow(p)'
      BY <1>1, <2>1, <3>1 DEF Orderly, HandsKnow, At, Building, Deleting, Staging
    <3>3. InMaking(p) => InMaking(p)'
      BY <1>1, <2>1, <3>1 DEF InMaking, At, Building
    <3>4. DirsAreSound(p)'
      BY <3>1, <3>3 DEF Orderly, DirsAreSound, Whole, Sound
    <3> QED BY <2>2, <3>2, <3>4 DEF Orderly
  <2>4. CASE trash[p] # Gone
    <3>1. store[p] = Gone
      BY <2>1, <2>4 DEF Orderly, HandsKnow, At
    <3>2. store'[p] = trash[p] /\ trash'[p] = Gone /\ Whole(trash[p])
      BY <1>3, <2>4, <3>1 DEF Restore, Moved, StoreTypes, Orderly, DirsAreSound
    <3>3. \A g \in Hands : ~ At(g, p, Building \cup Staging)
      BY <3>1 DEF Orderly, HandsKnow
    <3>4. \A g \in Hands : ~ At(g, p, Building \cup Staging)'
      BY <1>1, <2>1, <3>3 DEF At, Building, Staging
    <3>5. HandsKnow(p)' /\ DirsAreSound(p)'
      BY <2>4, <3>2, <3>4 DEF HandsKnow, DirsAreSound, Whole, At, Building, Staging
    <3> QED BY <2>2, <3>5 DEF Orderly
  <2> QED BY <2>3, <2>4
<1> QED BY <1>2, <1>3

LEMMA ActsOrderly ==
  ASSUME StoreInv, NEW h \in Hands, NEW p \in Posts, Acts(h, p) PROVE StoreInv'
<1>1. Touches(h, p) /\ StoreTypes'
  BY ActsTouch, TypesStep DEF StoreInv
<1>2. SUFFICES ASSUME Clean', NEW q \in Posts PROVE Orderly(q)'
  BY <1>1 DEF StoreInv
<1>3. Clean /\ Orderly(p) /\ Orderly(q)
  BY <1>1, <1>2 DEF Touches, Clean, StoreInv
<1>4. CASE q = p
  BY <1>1, <1>2, <1>3, <1>4, BuildStepsOrderly, StageStepsOrderly, DeleteStepsOrderly,
     RestoreStepsOrderly DEF Acts, StoreInv
<1>5. CASE q # p
  BY <1>1, <1>3, <1>5, ElsewhereOrderly DEF StoreInv
<1> QED BY <1>4, <1>5

(* What is no act on one package: a build stops, and the trash is emptied. *)
LEMMA OthersOrderly ==
  ASSUME StoreInv, NEW h \in Hands,
         BuildStops(h) \/ StartEmpty(h) \/ EmptyEnds(h) \/ \E p \in Posts : EmptyOne(h, p)
  PROVE  StoreInv'
<1> USE StoreAssumption
<1>1. CASE BuildStops(h)
  <2>1. StoreTypes'
    BY <1>1 DEF BuildStops, Rests, Idle, StoreInv, StoreTypes, Hand, Labels, Building, Staging
  <2>2. ~ Clean'
    BY <1>1 DEF BuildStops, Clean
  <2> QED BY <2>1, <2>2 DEF StoreInv
<1>2. CASE StartEmpty(h) \/ EmptyEnds(h)
  <2>1. /\ \A g \in Hands \ {h} : hands'[g] = hands[g]
        /\ hands[h].pc \in {"idle", "empty"} /\ hands'[h].pc \in {"idle", "empty"}
        /\ UNCHANGED <<store, trash, mishaps>>
    BY <1>2 DEF StartEmpty, EmptyEnds, Takes, Rests, Idle, StoreInv, StoreTypes
  <2>2. StoreTypes'
    <3>1. Idle \in Hand /\ [pc |-> "empty", post |-> Gone, body |-> Gone] \in Hand
      BY DEF Idle, Hand, Labels
    <3> QED BY <1>2, <2>1, <3>1 DEF StartEmpty, EmptyEnds, Takes, Rests, Idle, StoreInv, StoreTypes,
                                     Building, Staging
  <2>3. SUFFICES ASSUME Clean, NEW q \in Posts, Orderly(q) PROVE Orderly(q)'
    BY <2>1, <2>2 DEF StoreInv, Clean
  <2>4. Apart(q)'
    BY <2>1, <2>3 DEF Orderly, Apart, At, Building, Staging, Deleting
  <2>5. HandsKnow(q)'
    BY <2>1, <2>3 DEF Orderly, HandsKnow, At, Building, Staging, Deleting
  <2>6. InMaking(q) => InMaking(q)'
    BY <2>1 DEF InMaking, At, Building
  <2>7. DirsAreSound(q)'
    BY <2>1, <2>3, <2>6 DEF Orderly, DirsAreSound, Whole, Sound
  <2> QED BY <2>4, <2>5, <2>7 DEF Orderly
<1>3. ASSUME NEW p \in Posts, EmptyOne(h, p) PROVE StoreInv'
  <2>1. /\ trash' = [trash EXCEPT ![p] = Gone] /\ UNCHANGED <<store, hands, mishaps>>
    BY <1>3 DEF EmptyOne
  <2>2. StoreTypes'
    BY <2>1 DEF StoreInv, StoreTypes
  <2>3. SUFFICES ASSUME Clean, NEW q \in Posts, Orderly(q) PROVE Orderly(q)'
    BY <2>1, <2>2 DEF StoreInv, Clean
  <2>4. trash'[q] = trash[q] \/ trash'[q] = Gone
    BY <2>1 DEF StoreInv, StoreTypes
  <2>5. Apart(q)'
    BY <2>1, <2>3 DEF Orderly, Apart, At
  <2>6. HandsKnow(q)'
    BY <2>1, <2>3, <2>4 DEF Orderly, HandsKnow, At
  <2>7. InMaking(q) => InMaking(q)'
    BY <2>1 DEF InMaking, At
  <2>8. DirsAreSound(q)'
    BY <2>1, <2>3, <2>4, <2>7 DEF Orderly, DirsAreSound, Whole, Sound
  <2> QED BY <2>5, <2>6, <2>8 DEF Orderly
<1> QED BY <1>1, <1>2, <1>3

LEMMA StoreStep == StoreInv /\ [StoreNext]_storeVars => StoreInv'
<1> SUFFICES ASSUME StoreInv, [StoreNext]_storeVars PROVE StoreInv'
  OBVIOUS
<1>1. CASE UNCHANGED storeVars
  BY <1>1 DEF storeVars, StoreInv, StoreTypes, Clean, Orderly, Apart, HandsKnow, DirsAreSound,
              InMaking, At, Whole, Sound
<1>2. CASE StoreNext
  BY <1>2, ActsOrderly, OthersOrderly DEF StoreNext, Acts
<1> QED BY <1>1, <1>2

LEMMA InvIsSound == StoreInv => PackagesAreSound
<1> SUFFICES ASSUME StoreInv, Clean, NEW p \in Posts PROVE Sound(store[p]) /\ Sound(trash[p])
  BY DEF PackagesAreSound, Clean
<1> QED BY DEF StoreInv, Orderly, DirsAreSound, Whole, Sound

Kept(p) ==
  /\ Whole(store[p]) => Whole(store'[p]) \/ trash'[p] = store[p]
  /\ Whole(trash[p]) =>
        \/ Whole(trash'[p]) \/ store'[p] = trash[p]
        \/ \E h \in Hands : hands[h].pc = "empty"
        \/ Whole(store[p])

LEMMA ActsKeepWhole ==
  ASSUME StoreInv, StoreInv', mishaps = {}, mishaps' = {}, NEW h \in Hands, NEW p \in Posts, Acts(h, p)
  PROVE  Kept(p)
<1> USE StoreAssumption
<1>1. StoreTypes /\ Clean /\ Orderly(p) /\ Sound(store'[p])
  <2>1. Clean /\ Clean'
    BY DEF Clean
  <2> QED BY <2>1 DEF StoreInv, Orderly, DirsAreSound, Sound
<1>2. CASE /\ trash' = trash
           /\ store[p] # Gone /\ store[p].manifest # Gone =>
                 store'[p] # Gone /\ store'[p].manifest # Gone
  BY <1>1, <1>2 DEF Kept, Whole
<1>3. CASE \/ StartStage(h, p) \/ StartDelete(h, p) \/ StartRestore(h, p) \/ GuardBuild(h, p)
  BY <1>2, <1>3 DEF StartStage, StartDelete, StartRestore, GuardBuild
<1>4. CASE StartBuild(h, p)
  <2>1. trash' = trash /\ store'[p] = EnsureDir(p)
    BY <1>1, <1>4 DEF StartBuild, StoreTypes
  <2> QED BY <1>2, <2>1 DEF EnsureDir
<1>5. CASE BuildCaption(h, p) \/ BuildManifest(h, p) \/ OpenTemp(h, p)
  <2>1. SUFFICES ASSUME store[p] # Gone, store[p].manifest # Gone
                 PROVE  store'[p] # Gone /\ store'[p].manifest # Gone
    BY <1>2, <1>5 DEF BuildCaption, BuildManifest, OpenTemp
  <2>2. EnsureDir(p) = store[p] /\ store[p] \in Dir /\ store'[p] \in Dir \cup {Gone}
    BY <1>1, <2>1 DEF EnsureDir, StoreTypes, StoreInv
  <2>3. \/ store'[p] = [store[p] EXCEPT !.caption = IF @ = Gone THEN hands[h].body ELSE @]
        \/ store'[p] = store[p]
        \/ store'[p] = [store[p] EXCEPT !.temps = @ \cup {h}]
    <3>1. store[p] = [store[p] EXCEPT !.manifest = store[p].manifest]
      BY <2>2 DEF Dir
    <3> QED BY <1>1, <1>5, <2>1, <2>2, <3>1 DEF BuildCaption, BuildManifest, OpenTemp, StoreTypes
  <2>4. store'[p].manifest = store[p].manifest
    BY <2>2, <2>3 DEF Dir
  <2>5. store'[p] # Gone
    <3>1. CASE BuildCaption(h, p)
      <4>1. hands[h].body \in Bodies
        BY <1>1, <3>1 DEF BuildCaption, At, Building, StoreTypes
      <4>2. [store[p] EXCEPT !.caption = IF @ = Gone THEN hands[h].body ELSE @] \in Dir
        BY <2>2, <4>1 DEF Dir
      <4> QED BY <1>1, <2>2, <3>1, <4>2 DEF BuildCaption, StoreTypes
    <3>2. CASE BuildManifest(h, p)
      BY <1>1, <2>1, <2>2, <3>2 DEF BuildManifest, StoreTypes, Dir
    <3>3. CASE OpenTemp(h, p)
      <4>1. [store[p] EXCEPT !.temps = @ \cup {h}] \in Dir
        BY <2>2 DEF Dir
      <4> QED BY <1>1, <2>2, <3>3, <4>1 DEF OpenTemp, StoreTypes
    <3> QED BY <1>5, <3>1, <3>2, <3>3
  <2> QED BY <2>1, <2>4, <2>5
<1>6. CASE ReplaceManifest(h, p) \/ StageFails(h, p)
  <2>1. At(h, p, Staging) /\ store[p] # Gone /\ store[p].manifest # Gone /\ store[p] \in Dir
    BY <1>1, <1>6 DEF ReplaceManifest, StageFails, At, Staging, Orderly, HandsKnow, StoreTypes
  <2> DEFINE m == [status |-> "drafted", body |-> hands[h].body]
  <2>2. m \in Manifest
    BY <1>1, <2>1 DEF StoreTypes, At, Manifest
  <2>3. \/ store'[p] = store[p]
        \/ store'[p] = [store[p] EXCEPT !.temps = @ \ {h}]
        \/ store'[p] = [[store[p] EXCEPT !.temps = @ \ {h}] EXCEPT !.manifest = m]
    BY <1>1, <1>6, <2>1 DEF ReplaceManifest, StageFails, StoreTypes, Dir
  <2>4. [store[p] EXCEPT !.temps = @ \ {h}] \in Dir
    BY <2>1 DEF Dir
  <2>5. [[store[p] EXCEPT !.temps = @ \ {h}] EXCEPT !.manifest = m] \in Dir
    BY <2>2, <2>4 DEF Dir
  <2>6. store'[p] # Gone /\ store'[p].manifest # Gone
    BY <2>1, <2>2, <2>3, <2>4, <2>5 DEF Dir
  <2> QED BY <1>2, <1>6, <2>6 DEF ReplaceManifest, StageFails
<1>7. CASE MakeRoom(h, p)
  <2>1. At(h, p, Deleting)
    BY <1>7 DEF MakeRoom, At, Deleting
  <2>2. Whole(store[p]) /\ store' = store
    BY <1>1, <1>7, <2>1, DeletedIsWhole DEF MakeRoom, Orderly, HandsKnow
  <2> QED BY <2>2 DEF Kept
<1>8. CASE MoveToTrash(h, p)
  <2>1. store[p] = Gone \/ trash[p] = Gone
    BY <1>1, <1>8 DEF MoveToTrash, Orderly, HandsKnow, At
  <2>2. \/ store[p] = Gone /\ store' = store /\ trash' = trash
        \/ trash[p] = Gone /\ trash'[p] = store[p]
    BY <1>1, <1>8, <2>1 DEF MoveToTrash, Moved, StoreTypes
  <2> QED BY <2>2 DEF Kept, Whole
<1>9. CASE Restore(h, p)
  <2>1. store[p] = Gone \/ trash[p] = Gone
    BY <1>1, <1>9 DEF Restore, Orderly, HandsKnow, At
  <2>2. \/ trash[p] = Gone /\ store' = store /\ trash' = trash
        \/ store[p] = Gone /\ store'[p] = trash[p]
    BY <1>1, <1>9, <2>1 DEF Restore, Moved, StoreTypes
  <2> QED BY <2>2 DEF Kept, Whole
<1> QED BY <1>3, <1>4, <1>5, <1>6, <1>7, <1>8, <1>9 DEF Acts

LEMMA WholeStep ==
  ASSUME StoreInv, StoreInv', StoreNext, mishaps' = {}, NEW p \in Posts PROVE Kept(p)
<1>1. PICK h \in Hands :
        \/ \E q \in Posts : Acts(h, q) \/ EmptyOne(h, q)
        \/ BuildStops(h) \/ StartEmpty(h) \/ EmptyEnds(h)
  BY DEF StoreNext, Acts
<1>2. ASSUME NEW q \in Posts, Acts(h, q) PROVE Kept(p)
  <2>1. Touches(h, q) /\ StoreTypes
    BY <1>2, ActsTouch DEF StoreInv
  <2>2. mishaps = {}
    BY <2>1 DEF Touches
  <2>3. CASE q = p
    BY <1>2, <2>2, <2>3, ActsKeepWhole
  <2>4. CASE q # p
    BY <2>1, <2>4 DEF Touches, StoreTypes, Kept
  <2> QED BY <2>3, <2>4
<1>3. ASSUME NEW q \in Posts, EmptyOne(h, q) PROVE Kept(p)
  BY <1>3 DEF EmptyOne, Kept
<1>4. CASE BuildStops(h) \/ StartEmpty(h) \/ EmptyEnds(h)
  BY <1>4 DEF BuildStops, StartEmpty, EmptyEnds, Kept
<1> QED BY <1>1, <1>2, <1>3, <1>4

\* A manifest comes with the caption it was built with in the store and in the trash,
\* and a delete can be undone, whatever builds, jobs, deletes, restores and empties of
\* any number of threads do; unless a build stopped or one of the named overlaps came
\* to pass (_helpers.py: _move_to_trash, _restore_from_trash).
THEOREM StoreStaysSound == StoreSpec => StoreIsSound
<1>1. StoreInit => StoreInv
  <2> SUFFICES ASSUME StoreInit PROVE StoreInv
    OBVIOUS
  <2>1. Idle \in Hand
    BY DEF Idle, Hand, Labels
  <2>2. StoreTypes
    BY <2>1 DEF StoreInit, StoreTypes, Idle, Building, Staging
  <2>3. ASSUME NEW p \in Posts PROVE Orderly(p)
    BY <2>3 DEF StoreInit, Orderly, Apart, HandsKnow, DirsAreSound, At, Idle, Building, Staging, Deleting
  <2> QED BY <2>2, <2>3 DEF StoreInv
<1>2. StoreInv /\ StoreInv' /\ [StoreNext]_storeVars => [PackagesAreSound' /\ WholeIsKept]_storeVars
  <2>1. StoreInv' => PackagesAreSound'
    BY InvIsSound, PTL
  <2>2. StoreInv /\ StoreInv' /\ StoreNext => WholeIsKept
    BY WholeStep DEF WholeIsKept, Kept
  <2> QED BY <2>1, <2>2
<1> QED BY <1>1, <1>2, StoreStep, PTL DEF StoreSpec, StoreIsSound
=============================================================================
