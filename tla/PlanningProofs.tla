--------------------------- MODULE PlanningProofs ---------------------------
(***************************************************************************)
(* Proofs about Planning, for any engines, specs and bounds: applying a    *)
(* plan, statement by statement and cut short anywhere, keeps the values   *)
(* of the columns the spec keeps and the policies it says nothing of, and  *)
(* ends with the seed rows in the table.                                   *)
(***************************************************************************)
EXTENDS Planning, PlanShapes

-----------------------------------------------------------------------------
(* The inductive invariant.                                                *)

\* A table any database may hold: rows have values for columns only, the key is
\* made of columns, and only postgres and timescaledb have policies.
TableShape(e, t) ==
  /\ IsTable(t)
  /\ t.filled \cup t.nulls \subseteq NamesOf(t.columns)
  /\ Range(t.primaryKey) \subseteq NamesOf(t.columns)
  /\ t.seeds \in Nat
  /\ ~t.exists => t.filled = {} /\ t.policies = <<>>
  /\ e \notin PolicyEngines => t.policies = <<>>

\* Table u has what table t has and spec sp keeps.
Keeps(sp, t, u) ==
  ~sp.isDeleted => /\ \A n \in t.filled : Kept(sp, n) => n \in u.filled
                   /\ sp.rls = NoValue => u.policies = t.policies

Holds(e, sp, t, u) == TableShape(e, u) /\ Keeps(sp, t, u)

\* The end of a copy, with k statements of it left.
CopyEnd(e, sp, q, k) ==
  /\ IsSequence(q) /\ k <= Len(q)
  /\ q[k].op = IF e = "sqlite" THEN "commit" ELSE "dropOldTable"
  /\ k = 2 => q[1].op = "dropOldTable"
  /\ \A i \in (k + 1)..Len(q) : Harmless(e, sp, q[i])

\* The stages of a deployment: t is the table as committed, x the transaction
\* that is open, if any, w what the connection sees and q what is left to run.
AlteringStage(e, sp, t, w, q) ==
  /\ Each(e, sp, q) /\ (w.table.exists \/ q = <<>>)
  /\ Holds(e, sp, t, w.table)
  /\ SeedsDue(e, sp) => Seeded(q) \/ w.table.seeds > 0

CreatingStage(e, sp, t, w, q) ==
  /\ Creating(e, sp, q) /\ ~w.table.exists
  /\ Holds(e, sp, t, w.table)
  /\ SeedsDue(e, sp) => Seeded(q)

DroppingStage(e, sp, w, q) ==
  q = <<[op |-> "dropTable", arg |-> ""]>> /\ sp.isDeleted /\ TableShape(e, w.table)

\* Of a copy: before the transaction, before the old table is renamed, before
\* the new one is made, before the rows are copied, and before the old one goes.
StartingCopy(e, sp, t, x, w, q) ==
  e = "sqlite" /\ x = <<>> /\ Copying(e, sp, q, 3) /\ Holds(e, sp, t, w.table)

RenamingOld(e, sp, t, x, w, q) ==
  x # <<>> /\ Copying(e, sp, q, 2) /\ Holds(e, sp, t, w.table)

MakingNew(e, sp, t, x, w, q) ==
  x # <<>> /\ Copying(e, sp, q, 1) /\ Holds(e, sp, t, w.old)

CopyingRows(e, sp, t, x, w, q) ==
  /\ x # <<>> /\ Copying(e, sp, q, 0) /\ Holds(e, sp, t, w.old)
  /\ TableShape(e, w.table) /\ w.table.exists /\ NamesOf(w.table.columns) = NamesOf(sp.columns)

DroppingOld(e, sp, t, x, w, q) ==
  /\ x # <<>> /\ Holds(e, sp, t, w.table) /\ w.table.exists
  /\ \/ CopyEnd(e, sp, q, IF e = "sqlite" THEN 2 ELSE 1)
     \/ e = "sqlite" /\ CopyEnd(e, sp, q, 1)

CopyingStage(e, sp, t, x, w, q) ==
  /\ e \in {"sqlite", "rqlite"} /\ sp.hasSchema
  /\ SeedsDue(e, sp) => Seeded(q)
  /\ \/ StartingCopy(e, sp, t, x, w, q) \/ RenamingOld(e, sp, t, x, w, q) \/ MakingNew(e, sp, t, x, w, q)
     \/ CopyingRows(e, sp, t, x, w, q) \/ DroppingOld(e, sp, t, x, w, q)

\* What a connection sees: the table, and the old one while a copy is made.
IsView(w) == DOMAIN w = {"table", "old"}

Deploying(e, sp, t, x, w, q) ==
  /\ IsView(w)
  /\ \/ AlteringStage(e, sp, t, w, q) \/ CreatingStage(e, sp, t, w, q) \/ DroppingStage(e, sp, w, q)
     \/ CopyingStage(e, sp, t, x, w, q)

PlanInv ==
  /\ engine \in Engines /\ spec \in Specs(engine)
  /\ phase \in {"idle", "planned", "applying", "applied", "refused", "failed"}
  /\ phase # "applying" => session = <<>>
  /\ TableShape(engine, table)
  /\ phase = "planned" => PlanShape(engine, spec, table, statements)
  /\ phase = "applying" => Deploying(engine, spec, table, session, Seen, statements)
  /\ phase = "applied" /\ SeedsDue(engine, spec) => table.seeds > 0

-----------------------------------------------------------------------------
(* What a statement does to the table.                                     *)

\* A statement turns t into u and loses nothing that spec sp keeps.
Advances(e, sp, t, u) ==
  /\ TableShape(e, u) /\ u.exists
  /\ \A n \in t.filled : Kept(sp, n) => n \in u.filled
  /\ t.seeds > 0 => u.seeds > 0
  /\ sp.rls = NoValue => u.policies = t.policies

LEMMA TableFields ==
  ASSUME NEW t, IsTable(t)
  PROVE  DOMAIN t = {"exists", "columns", "primaryKey", "foreignKeys", "indexes", "checks", "exclusions",
                     "triggers", "rls", "policies", "charset", "collation", "properties", "hypertable",
                     "filled", "nulls", "seeds"}
  BY DEF IsTable, NoTable

LEMMA NamesInRange ==
  ASSUME NEW s
  PROVE  NamesOf(s) = {x.name : x \in Range(s)}
  BY DEF NamesOf, Range

\* The columns and rows stay, and the key stays or goes.
LEMMA ObjectsChanged ==
  ASSUME NEW e, NEW sp, NEW t, TableShape(e, t), t.exists,
         NEW u, DOMAIN u = DOMAIN t, u.exists = t.exists, u.columns = t.columns,
         u.filled = t.filled, u.nulls = t.nulls, u.seeds = t.seeds, u.policies = t.policies,
         u.primaryKey \in {t.primaryKey, <<>>},
         IsSequence(u.foreignKeys), IsSequence(u.indexes), IsSequence(u.checks),
         IsSequence(u.exclusions), IsSequence(u.triggers)
  PROVE  Advances(e, sp, t, u)
  <1>1. IsTable(u)
    BY DEF TableShape, IsTable
  <1>2. Range(u.primaryKey) \subseteq NamesOf(u.columns)
    BY Literals DEF TableShape
  <1> QED
    BY <1>1, <1>2 DEF Advances, TableShape

\* The columns change and keep their names.
LEMMA ColumnsChanged ==
  ASSUME NEW e, NEW sp, NEW t, TableShape(e, t), t.exists,
         NEW u, DOMAIN u = DOMAIN t, u.exists = t.exists,
         IsSequence(u.columns), \A c \in Range(u.columns) : "name" \in DOMAIN c,
         NamesOf(u.columns) = NamesOf(t.columns),
         u.filled = t.filled, u.nulls = t.nulls, u.seeds = t.seeds, u.policies = t.policies,
         Range(u.primaryKey) \subseteq NamesOf(t.columns),
         u.foreignKeys = t.foreignKeys, u.indexes = t.indexes, u.checks = t.checks,
         u.exclusions = t.exclusions, u.triggers = t.triggers
  PROVE  Advances(e, sp, t, u)
  <1>1. IsTable(u)
    BY DEF TableShape, IsTable
  <1> QED
    BY <1>1 DEF Advances, TableShape

LEMMA ColumnsMapped ==
  ASSUME NEW s, IsSequence(s), NEW f, f = [i \in DOMAIN s |-> f[i]],
         \A i \in DOMAIN s : "name" \in DOMAIN f[i] /\ f[i].name = s[i].name
  PROVE  IsSequence(f) /\ (\A c \in Range(f) : "name" \in DOMAIN c) /\ NamesOf(f) = NamesOf(s)
  <1>1. IsSequence(f) /\ DOMAIN f = DOMAIN s
    BY Mapped
  <1>2. \A c \in Range(f) : "name" \in DOMAIN c
    BY DEF Range
  <1>3. NamesOf(f) = NamesOf(s)
    BY <1>1 DEF NamesOf
  <1> QED
    BY <1>1, <1>2, <1>3

LEMMA Replaced ==
  ASSUME NEW s, IsSequence(s), \A c \in Range(s) : "name" \in DOMAIN c, NEW d, "name" \in DOMAIN d
  PROVE  LET r == Replace(s, d)
         IN IsSequence(r) /\ (\A c \in Range(r) : "name" \in DOMAIN c) /\ NamesOf(r) = NamesOf(s)
  <1> DEFINE r == [i \in DOMAIN s |-> IF s[i].name = d.name THEN d ELSE s[i]]
  <1>1. r = [i \in DOMAIN s |-> r[i]]
    OBVIOUS
  <1>2. \A i \in DOMAIN s : "name" \in DOMAIN r[i] /\ r[i].name = s[i].name
    BY SequenceDomain
  <1>3. Replace(s, d) = r
    BY DEF Replace
  <1> HIDE DEF r
  <1> QED
    BY <1>1, <1>2, <1>3, ColumnsMapped

LEMMA StoredColumn ==
  ASSUME NEW e, NEW c, "name" \in DOMAIN c
  PROVE  "name" \in DOMAIN Stored(e, c) /\ Stored(e, c).name = c.name
  <1> DEFINE serial == e \in PostgresLike /\ c.type = <<"serial", "">>
             a == CASE serial -> <<"integer", "">>
                    [] e = "cassandra" /\ c.type = <<"varchar", "">> -> <<"text", "">>
                    [] OTHER -> c.type
             b == IF serial THEN <<Expr("nextval")>> ELSE c.default
             d == IF serial \/ c.notNull = "true" THEN "true" ELSE "false"
  <1>1. Stored(e, c) = [c EXCEPT !.type = a, !.default = b, !.notNull = d]
    BY Zenon DEF Stored
  <1> HIDE DEF a, b, d
  <1> QED
    BY <1>1

LEMMA ChangedColumnNamed ==
  ASSUME NEW c, "name" \in DOMAIN c, NEW change
  PROVE  "name" \in DOMAIN ChangedColumn(c, change) /\ ChangedColumn(c, change).name = c.name
  BY DEF ChangedColumn

\* The column a statement is about is there.
LEMMA ColumnFound ==
  ASSUME NEW t, IsTable(t), NEW n, n \in ColumnNames(t)
  PROVE  "name" \in DOMAIN ColumnOf(t, n) /\ ColumnOf(t, n).name = n
  <1>1. HasName(t.columns, n) /\ IsSequence(t.columns)
    BY DEF ColumnNames, HasName, IsTable
  <1> QED
    BY <1>1, Found DEF ColumnOf, IsTable

LEMMA KeyedColumns ==
  ASSUME NEW e, NEW t, IsTable(t), NEW key, NEW u, u = WithKey(e, t, key)
  PROVE  /\ DOMAIN u = DOMAIN t /\ u.primaryKey = key
         /\ IsSequence(u.columns) /\ (\A c \in Range(u.columns) : "name" \in DOMAIN c)
         /\ NamesOf(u.columns) = NamesOf(t.columns)
         /\ u.exists = t.exists /\ u.filled = t.filled /\ u.nulls = t.nulls /\ u.seeds = t.seeds
         /\ u.policies = t.policies /\ u.foreignKeys = t.foreignKeys /\ u.indexes = t.indexes
         /\ u.checks = t.checks /\ u.exclusions = t.exclusions /\ u.triggers = t.triggers
  <1> DEFINE cols == t.columns
             f == [i \in DOMAIN cols |-> IF cols[i].name \in Range(key) /\ e \notin SqliteLike
                                         THEN [cols[i] EXCEPT !.notNull = "true"] ELSE cols[i]]
  <1>1. WithKey(e, t, key) = [t EXCEPT !.primaryKey = key, !.columns = f]
    <2>1. "primaryKey" # "columns"
      OBVIOUS
    <2> QED
      BY TableFields, <2>1 DEF WithKey
  <1>2. f = [i \in DOMAIN cols |-> f[i]]
    OBVIOUS
  <1>3. \A i \in DOMAIN cols : "name" \in DOMAIN f[i] /\ f[i].name = cols[i].name
    BY SequenceDomain DEF IsTable
  <1>4. IsSequence(cols)
    BY DEF IsTable
  <1> HIDE DEF f
  <1>5. IsSequence(f) /\ (\A c \in Range(f) : "name" \in DOMAIN c) /\ NamesOf(f) = NamesOf(cols)
    BY <1>2, <1>3, <1>4, ColumnsMapped
  <1> QED
    BY <1>1, <1>5, TableFields

\* The statements about keys, constraints, indexes, triggers and settings, and
\* those about columns that are there.
ObjectOps ==
  {"dropConstraint", "dropForeignKey", "dropIndex", "dropIndexIfExists", "dropPrimaryKey",
   "addForeignKey", "addCheck", "addExclusion", "addIndex", "createTrigger",
   "dropTriggerIfExists", "rowSecurity", "forceSecurity", "createHypertable", "alterProperties"}
ColumnOps == {"setDefault", "setNotNull", "modifyColumn", "alterColumn", "addPrimaryKey", "convertTo"}

LEMMA ObjectStatements ==
  ASSUME NEW e, NEW sp, NEW t, TableShape(e, t), t.exists, NEW st,
         st.op \in ObjectOps
  PROVE  Advances(e, sp, t, After(e, t, st))
  <1> DEFINE u == After(e, t, st)  a == st.arg
  <1>0. /\ IsSequence(t.foreignKeys) /\ IsSequence(t.indexes) /\ IsSequence(t.checks)
        /\ IsSequence(t.exclusions) /\ IsSequence(t.triggers) /\ IsTable(t)
    BY DEF TableShape, IsTable
  <1>1. CASE st.op = "dropConstraint"
    <2>1. u = DropConstraint(t, a)
      BY <1>1, Zenon DEF After
    <2> DEFINE fks == WithoutName(t.foreignKeys, a)  chk == WithoutName(t.checks, a)
               exc == WithoutName(t.exclusions, a)  idx == WithoutName(t.indexes, a)
    <2>2. IsSequence(fks) /\ IsSequence(chk) /\ IsSequence(exc) /\ IsSequence(idx)
      BY <1>0, Without
    <2>3. u = [t EXCEPT !.foreignKeys = fks, !.checks = chk, !.exclusions = exc, !.indexes = idx,
                        !.primaryKey = IF a = GenerateKeyName THEN <<>> ELSE t.primaryKey]
      BY <2>1, <1>0, TableFields DEF DropConstraint
    <2> HIDE DEF u, a, fks, chk, exc, idx
    <2>4. /\ DOMAIN u = DOMAIN t /\ u.foreignKeys = fks /\ u.checks = chk /\ u.exclusions = exc /\ u.indexes = idx
          /\ u.primaryKey \in {t.primaryKey, <<>>} /\ u.exists = t.exists /\ u.columns = t.columns
          /\ u.filled = t.filled /\ u.nulls = t.nulls /\ u.seeds = t.seeds /\ u.policies = t.policies
          /\ u.triggers = t.triggers
      BY <2>3, <1>0, TableFields
    <2>5. IsSequence(u.foreignKeys) /\ IsSequence(u.indexes) /\ IsSequence(u.checks)
            /\ IsSequence(u.exclusions) /\ IsSequence(u.triggers)
      BY <2>2, <2>4, <1>0, Zenon
    <2>6. Advances(e, sp, t, u)
      BY <2>4, <2>5, ObjectsChanged, Zenon
    <2> QED
      BY <2>6 DEF u
  <1>2. CASE st.op = "dropPrimaryKey"
    <2>1. u = [t EXCEPT !.primaryKey = <<>>]
      BY <1>2, Zenon DEF After
    <2> HIDE DEF u
    <2>2. Advances(e, sp, t, u)
      BY <2>1, <1>0, TableFields, ObjectsChanged
    <2> QED
      BY <2>2 DEF u
  <1>3. CASE st.op \in {"rowSecurity", "forceSecurity", "alterProperties"}
    <2>1. \E x, y : u = [t EXCEPT !.rls = x, !.properties = y]
      <3>1. CASE st.op = "rowSecurity"
        <4>1. u = [t EXCEPT !.rls.enable = a]
          BY <3>1, Zenon DEF After
        <4>2. u = [t EXCEPT !.rls = [t.rls EXCEPT !.enable = a], !.properties = t.properties]
          BY <4>1, <1>0, TableFields
        <4> QED
          BY <4>2
      <3>2. CASE st.op = "forceSecurity"
        <4>1. u = [t EXCEPT !.rls.force = a]
          BY <3>2, Zenon DEF After
        <4>2. u = [t EXCEPT !.rls = [t.rls EXCEPT !.force = a], !.properties = t.properties]
          BY <4>1, <1>0, TableFields
        <4> QED
          BY <4>2
      <3>3. CASE st.op = "alterProperties"
        <4> DEFINE y == <<[p \in DOMAIN (t.properties[1]) \cup {x.property : x \in a} |->
                            IF \E x \in a : x.property = p THEN KeptValue((CHOOSE x \in a : x.property = p).value)
                            ELSE t.properties[1][p]]>>
        <4>1. u = [t EXCEPT !.properties = y]
          BY <3>3, Zenon DEF After
        <4> HIDE DEF y
        <4>2. u = [t EXCEPT !.rls = t.rls, !.properties = y]
          BY <4>1, <1>0, TableFields
        <4> QED
          BY <4>2
      <3> QED
        BY <1>3, <3>1, <3>2, <3>3
    <2>2. PICK x, y : u = [t EXCEPT !.rls = x, !.properties = y]
      BY <2>1
    <2> HIDE DEF u
    <2>3. Advances(e, sp, t, u)
      BY <2>2, <1>0, TableFields, ObjectsChanged
    <2> QED
      BY <2>3 DEF u
  <1>4. CASE st.op \in {"dropForeignKey", "addForeignKey"}
    <2>1. \E fks : IsSequence(fks) /\ u = [t EXCEPT !.foreignKeys = fks]
      <3>1. CASE st.op = "dropForeignKey"
        <4>1. u = [t EXCEPT !.foreignKeys = WithoutName(t.foreignKeys, a)]
          BY <3>1, Zenon DEF After
        <4> QED
          BY <4>1, <1>0, Without
      <3>2. CASE st.op = "addForeignKey"
        <4>1. u = [t EXCEPT !.foreignKeys = Append(t.foreignKeys, a)]
          BY <3>2, Zenon DEF After
        <4> QED
          BY <4>1, <1>0, Appended
      <3> QED
        BY <1>4, <3>1, <3>2
    <2>2. PICK fks : IsSequence(fks) /\ u = [t EXCEPT !.foreignKeys = fks]
      BY <2>1
    <2> HIDE DEF u
    <2>3. Advances(e, sp, t, u)
      BY <2>2, <1>0, TableFields, ObjectsChanged
    <2> QED
      BY <2>3 DEF u
  <1>5. CASE st.op \in {"dropIndex", "dropIndexIfExists", "addIndex", "createHypertable"}
    <2>1. \E idx, h : IsSequence(idx) /\ u = [t EXCEPT !.hypertable = h, !.indexes = idx]
      <3>1. CASE st.op \in {"dropIndex", "dropIndexIfExists"}
        <4>1. u = [t EXCEPT !.indexes = WithoutName(t.indexes, a)]
          BY <3>1, Zenon DEF After
        <4> DEFINE idx == WithoutName(t.indexes, a)
        <4>2. IsSequence(idx)
          BY <1>0, Without
        <4> HIDE DEF idx
        <4>3. u = [t EXCEPT !.hypertable = t.hypertable, !.indexes = idx]
          BY <4>1, <1>0, TableFields DEF idx
        <4> QED
          BY <4>2, <4>3
      <3>2. CASE st.op = "addIndex"
        <4>1. u = [t EXCEPT !.indexes = Append(t.indexes, a)]
          BY <3>2, Zenon DEF After
        <4> DEFINE idx == Append(t.indexes, a)
        <4>2. IsSequence(idx)
          BY <1>0, Appended
        <4> HIDE DEF idx
        <4>3. u = [t EXCEPT !.hypertable = t.hypertable, !.indexes = idx]
          BY <4>1, <1>0, TableFields DEF idx
        <4> QED
          BY <4>2, <4>3
      <3>3. CASE st.op = "createHypertable"
        <4> DEFINE idx == Append(t.indexes, Index(a.time \o <<"idx">>, a.time, FALSE))
        <4>1. u = [t EXCEPT !.hypertable = <<a>>, !.indexes = idx]
          BY <3>3, Zenon DEF After
        <4>2. IsSequence(idx)
          BY <1>0, Appended
        <4> HIDE DEF idx
        <4> QED
          BY <4>1, <4>2
      <3> QED
        BY <1>5, <3>1, <3>2, <3>3
    <2>2. PICK idx, h : IsSequence(idx) /\ u = [t EXCEPT !.hypertable = h, !.indexes = idx]
      BY <2>1
    <2> HIDE DEF u
    <2>3. Advances(e, sp, t, u)
      BY <2>2, <1>0, TableFields, ObjectsChanged
    <2> QED
      BY <2>3 DEF u
  <1>6. CASE st.op = "addCheck"
    <2> DEFINE s == Append(t.checks, a)
    <2>1. u = [t EXCEPT !.checks = s]
      BY <1>6, Zenon DEF After
    <2>2. IsSequence(s)
      BY <1>0, Appended
    <2> HIDE DEF u, s
    <2>3. Advances(e, sp, t, u)
      BY <2>1, <2>2, <1>0, TableFields, ObjectsChanged
    <2> QED
      BY <2>3 DEF u
  <1>7. CASE st.op = "addExclusion"
    <2> DEFINE s == Append(t.exclusions, a)
    <2>1. u = [t EXCEPT !.exclusions = s]
      BY <1>7, Zenon DEF After
    <2>2. IsSequence(s)
      BY <1>0, Appended
    <2> HIDE DEF u, s
    <2>3. Advances(e, sp, t, u)
      BY <2>1, <2>2, <1>0, TableFields, ObjectsChanged
    <2> QED
      BY <2>3 DEF u
  <1>8. CASE st.op \in {"createTrigger", "dropTriggerIfExists"}
    <2>1. \E s : IsSequence(s) /\ u = [t EXCEPT !.triggers = s]
      <3>1. CASE st.op = "createTrigger"
        <4>1. u = [t EXCEPT !.triggers = Append(t.triggers, a)]
          BY <3>1, Zenon DEF After
        <4> QED
          BY <4>1, <1>0, Appended
      <3>2. CASE st.op = "dropTriggerIfExists"
        <4>1. u = [t EXCEPT !.triggers = WithoutName(t.triggers, a)]
          BY <3>2, Zenon DEF After
        <4> QED
          BY <4>1, <1>0, Without
      <3> QED
        BY <1>8, <3>1, <3>2
    <2>2. PICK s : IsSequence(s) /\ u = [t EXCEPT !.triggers = s]
      BY <2>1
    <2> HIDE DEF u
    <2>3. Advances(e, sp, t, u)
      BY <2>2, <1>0, TableFields, ObjectsChanged
    <2> QED
      BY <2>3 DEF u
  <1> QED
    BY <1>1, <1>2, <1>3, <1>4, <1>5, <1>6, <1>7, <1>8 DEF ObjectOps

\* Statements that change columns without renaming them.
LEMMA ColumnStatements ==
  ASSUME NEW e, NEW sp, NEW w, TableShape(e, w.table), w.table.exists, NEW st,
         st.op \in ColumnOps,
         st.op = "modifyColumn" => "name" \in DOMAIN st.arg,
         Runs(e, w, st)
  PROVE  Advances(e, sp, w.table, After(e, w.table, st))
  <1> DEFINE t == w.table  u == After(e, t, st)  a == st.arg
  <1>0. IsTable(t) /\ IsSequence(t.columns) /\ \A c \in Range(t.columns) : "name" \in DOMAIN c
    BY DEF TableShape, IsTable
  <1>1. ASSUME NEW d, "name" \in DOMAIN d, u = [t EXCEPT !.columns = Replace(t.columns, d)]
        PROVE  Advances(e, sp, t, u)
    <2> DEFINE r == Replace(t.columns, d)
    <2>1. IsSequence(r) /\ (\A c \in Range(r) : "name" \in DOMAIN c) /\ NamesOf(r) = NamesOf(t.columns)
      BY <1>0, <1>1, Replaced
    <2>2. u = [t EXCEPT !.columns = r]
      BY <1>1
    <2>3. Range(t.primaryKey) \subseteq NamesOf(t.columns)
      BY DEF TableShape
    <2> HIDE DEF t, u, r
    <2>4. TableShape(e, t) /\ t.exists
      BY DEF t
    <2> QED
      BY <2>1, <2>2, <2>3, <2>4, <1>0, TableFields, ColumnsChanged
  <1>2. CASE st.op = "setDefault"
    <2>1. u = [t EXCEPT !.columns = Replace(t.columns, [ColumnOf(t, a.name) EXCEPT !.default = a.default])]
      BY <1>2, Zenon DEF After
    <2>2. a.name \in ColumnNames(t)
      BY <1>2, Zenon DEF Runs
    <2>3. "name" \in DOMAIN [ColumnOf(t, a.name) EXCEPT !.default = a.default]
      BY <1>0, <2>2, ColumnFound
    <2> QED
      BY <1>1, <2>1, <2>3
  <1>3. CASE st.op = "setNotNull"
    <2>1. u = [t EXCEPT !.columns = Replace(t.columns, [ColumnOf(t, a) EXCEPT !.notNull = "true"])]
      BY <1>3, Zenon DEF After
    <2>2. a \in ColumnNames(t) \ t.nulls
      BY <1>3, Zenon DEF Runs
    <2>3. "name" \in DOMAIN [ColumnOf(t, a) EXCEPT !.notNull = "true"]
      BY <1>0, <2>2, ColumnFound
    <2> QED
      BY <1>1, <2>1, <2>3
  <1>4. CASE st.op = "modifyColumn"
    <2>1. u = [t EXCEPT !.columns = Replace(t.columns, Stored(e, a))]
      BY <1>4, Zenon DEF After
    <2>2. "name" \in DOMAIN Stored(e, a)
      BY <1>4, StoredColumn
    <2> QED
      BY <1>1, <2>1, <2>2
  <1>5. CASE st.op = "alterColumn"
    <2>1. u = [t EXCEPT !.columns = Replace(t.columns, ChangedColumn(ColumnOf(t, a.name), a))]
      BY <1>5, Zenon DEF After
    <2>2. a.name \in ColumnNames(t)
      BY <1>5, Zenon DEF Runs
    <2>3. "name" \in DOMAIN ChangedColumn(ColumnOf(t, a.name), a)
      BY <1>0, <2>2, ColumnFound, ChangedColumnNamed
    <2> QED
      BY <1>1, <2>1, <2>3
  <1>6. CASE st.op = "addPrimaryKey"
    <2>1. u = WithKey(e, t, a)
      BY <1>6, Zenon DEF After
    <2>2. Range(a) \subseteq ColumnNames(t) \ t.nulls
      BY <1>6, Zenon DEF Runs
    <2>3. Range(a) \subseteq NamesOf(t.columns)
      BY <2>2 DEF ColumnNames
    <2>4. TableShape(e, t) /\ t.exists
      OBVIOUS
    <2> HIDE DEF t, u, a
    <2>5. /\ DOMAIN u = DOMAIN t /\ u.primaryKey = a
          /\ IsSequence(u.columns) /\ (\A c \in Range(u.columns) : "name" \in DOMAIN c)
          /\ NamesOf(u.columns) = NamesOf(t.columns)
          /\ u.exists = t.exists /\ u.filled = t.filled /\ u.nulls = t.nulls /\ u.seeds = t.seeds
          /\ u.policies = t.policies /\ u.foreignKeys = t.foreignKeys /\ u.indexes = t.indexes
          /\ u.checks = t.checks /\ u.exclusions = t.exclusions /\ u.triggers = t.triggers
      BY <2>1, <1>0, KeyedColumns
    <2>6. Range(u.primaryKey) \subseteq NamesOf(t.columns)
      BY <2>3, <2>5, Zenon
    <2>7. Advances(e, sp, t, u)
      BY <2>4, <2>5, <2>6, ColumnsChanged
    <2> QED
      BY <2>7 DEF t, u
  <1>7. CASE st.op = "convertTo"
    <2> DEFINE cols == t.columns
               f == [i \in DOMAIN cols |-> [cols[i] EXCEPT !.charset = "", !.collation = ""]]
    <2>1. u = [t EXCEPT !.charset = a[1], !.collation = a[2], !.columns = [i \in DOMAIN @ |-> [@[i] EXCEPT !.charset = "", !.collation = ""]]]
      BY <1>7, Zenon DEF After
    <2>2. f = [i \in DOMAIN cols |-> f[i]]
      OBVIOUS
    <2>3. \A i \in DOMAIN cols : "name" \in DOMAIN f[i] /\ f[i].name = cols[i].name
      BY <1>0, SequenceDomain
    <2>4. u = [t EXCEPT !.charset = a[1], !.collation = a[2], !.columns = f]
      BY <2>1, <1>0, TableFields
    <2> HIDE DEF f
    <2>5. IsSequence(f) /\ (\A c \in Range(f) : "name" \in DOMAIN c) /\ NamesOf(f) = NamesOf(cols)
      BY <1>0, <2>2, <2>3, ColumnsMapped
    <2>6. TableShape(e, t) /\ t.exists /\ Range(t.primaryKey) \subseteq NamesOf(t.columns)
      BY DEF TableShape
    <2> HIDE DEF t, u, a
    <2>7. /\ DOMAIN u = DOMAIN t /\ u.columns = f /\ u.primaryKey = t.primaryKey
          /\ u.exists = t.exists /\ u.filled = t.filled /\ u.nulls = t.nulls /\ u.seeds = t.seeds
          /\ u.policies = t.policies /\ u.foreignKeys = t.foreignKeys /\ u.indexes = t.indexes
          /\ u.checks = t.checks /\ u.exclusions = t.exclusions /\ u.triggers = t.triggers
      BY <2>4, <1>0, TableFields
    <2>8. Range(u.primaryKey) \subseteq NamesOf(t.columns) /\ IsSequence(u.columns)
            /\ (\A c \in Range(u.columns) : "name" \in DOMAIN c) /\ NamesOf(u.columns) = NamesOf(t.columns)
      BY <2>5, <2>6, <2>7, Zenon
    <2>9. Advances(e, sp, t, u)
      BY <2>6, <2>7, <2>8, ColumnsChanged
    <2> QED
      BY <2>9 DEF t, u
  <1> QED
    BY <1>2, <1>3, <1>4, <1>5, <1>6, <1>7 DEF ColumnOps

\* A column more.
LEMMA ColumnAdded ==
  ASSUME NEW e, NEW sp, NEW t, TableShape(e, t), t.exists, NEW st,
         st.op = "addColumn", "name" \in DOMAIN st.arg
  PROVE  Advances(e, sp, t, After(e, t, st))
  <1> DEFINE u == After(e, t, st)  c == st.arg  cols == Append(t.columns, Stored(e, c))
  <1>0. IsTable(t) /\ IsSequence(t.columns) /\ \A x \in Range(t.columns) : "name" \in DOMAIN x
    BY DEF TableShape, IsTable
  <1>1. u = AddColumn(e, t, c)
    BY Zenon DEF After
  <1>2. IsSequence(cols) /\ Range(cols) = Range(t.columns) \cup {Stored(e, c)}
    BY <1>0, Appended
  <1>3. "name" \in DOMAIN Stored(e, c) /\ Stored(e, c).name = c.name
    BY StoredColumn
  <1>4. NamesOf(cols) = NamesOf(t.columns) \cup {c.name}
    BY <1>2, <1>3, NamesInRange
  <1>5. \A x \in Range(cols) : "name" \in DOMAIN x
    BY <1>0, <1>2, <1>3
  <1> HIDE DEF cols
  <1>6. \E filled, nulls : /\ u = [t EXCEPT !.columns = cols, !.filled = filled, !.nulls = nulls]
                           /\ t.filled \subseteq filled /\ filled \subseteq t.filled \cup {c.name}
                           /\ nulls \subseteq t.nulls \cup {c.name}
    <2> DEFINE filled == IF c.default # NoValue /\ HasRows(t) THEN t.filled \cup {c.name} ELSE t.filled
               nulls == IF c.default = NoValue /\ c.notNull # "true" /\ HasRows(t) THEN t.nulls \cup {c.name} ELSE t.nulls
    <2>1. u = [t EXCEPT !.columns = cols, !.filled = filled, !.nulls = nulls]
      <3> HIDE DEF u, c
      <3> QED
        BY <1>1, <1>0, TableFields DEF AddColumn, cols
    <2>2. t.filled \subseteq filled /\ filled \subseteq t.filled \cup {c.name} /\ nulls \subseteq t.nulls \cup {c.name}
      OBVIOUS
    <2> HIDE DEF filled, nulls, u, c
    <2> QED
      BY <2>1, <2>2
  <1> HIDE DEF u, c
  <1>7. PICK filled, nulls : /\ u = [t EXCEPT !.columns = cols, !.filled = filled, !.nulls = nulls]
                             /\ t.filled \subseteq filled /\ filled \subseteq t.filled \cup {c.name}
                             /\ nulls \subseteq t.nulls \cup {c.name}
    BY <1>6
  <1>8. /\ DOMAIN u = DOMAIN t /\ u.columns = cols /\ u.filled = filled /\ u.nulls = nulls
        /\ u.exists = t.exists /\ u.primaryKey = t.primaryKey /\ u.seeds = t.seeds /\ u.policies = t.policies
        /\ u.foreignKeys = t.foreignKeys /\ u.indexes = t.indexes /\ u.checks = t.checks
        /\ u.exclusions = t.exclusions /\ u.triggers = t.triggers
    BY <1>7, <1>0, TableFields
  <1>9. IsTable(u)
    BY <1>0, <1>2, <1>5, <1>8 DEF IsTable
  <1>10. Advances(e, sp, t, u)
    BY <1>4, <1>7, <1>8, <1>9 DEF Advances, TableShape
  <1> QED
    BY <1>10 DEF u

\* A column less, which the spec does not keep.
LEMMA ColumnDropped ==
  ASSUME NEW e, NEW sp, NEW t, TableShape(e, t), t.exists, NEW st,
         st.op = "dropColumn", ~Kept(sp, st.arg)
  PROVE  Advances(e, sp, t, After(e, t, st))
  <1> DEFINE u == After(e, t, st)  n == st.arg  cols == WithoutName(t.columns, n)
             has(o) == n \in Range(o.cols)
             f == [i \in DOMAIN t.foreignKeys |-> IF ~has(t.foreignKeys[i]) THEN <<t.foreignKeys[i]>> ELSE <<>>]
             g == [i \in DOMAIN t.indexes |-> IF ~has(t.indexes[i]) THEN <<t.indexes[i]>> ELSE <<>>]
             fks == Flatten(f)
             idx == Flatten(g)
  <1>0. /\ IsTable(t) /\ IsSequence(t.columns) /\ \A x \in Range(t.columns) : "name" \in DOMAIN x
        /\ IsSequence(t.foreignKeys) /\ IsSequence(t.indexes)
    BY DEF TableShape, IsTable
  <1>1. u = DropColumn(t, n)
    BY Zenon DEF After
  <1>2. Where(t.foreignKeys, LAMBDA o : n \notin Range(o.cols)) = fks
    BY DEF Where, FlatMap
  <1>3. Where(t.indexes, LAMBDA o : n \notin Range(o.cols)) = idx
    BY DEF Where, FlatMap
  <1>4. IsSequence(fks)
    <2>1. f = [i \in DOMAIN t.foreignKeys |-> f[i]] /\ \A i \in DOMAIN t.foreignKeys : f[i] \in {<<>>, <<t.foreignKeys[i]>>}
      OBVIOUS
    <2> HIDE DEF f
    <2> QED
      BY <1>0, <2>1, Filtered
  <1>5. IsSequence(idx)
    <2>1. g = [i \in DOMAIN t.indexes |-> g[i]] /\ \A i \in DOMAIN t.indexes : g[i] \in {<<>>, <<t.indexes[i]>>}
      OBVIOUS
    <2> HIDE DEF g
    <2> QED
      BY <1>0, <2>1, Filtered
  <1>6. IsSequence(cols) /\ Range(cols) = {x \in Range(t.columns) : x.name # n}
    BY <1>0, Without
  <1>7. NamesOf(cols) = NamesOf(t.columns) \ {n}
    BY <1>6, NamesInRange
  <1> DEFINE key == IF n \in Range(t.primaryKey) THEN <<>> ELSE t.primaryKey
  <1>8. u = [t EXCEPT !.columns = cols, !.primaryKey = key, !.foreignKeys = fks, !.indexes = idx,
                      !.filled = t.filled \ {n}, !.nulls = t.nulls \ {n}]
    <2> HIDE DEF u, n, fks, idx
    <2> QED
      BY <1>0, <1>1, <1>2, <1>3, TableFields, Zenon DEF DropColumn
  <1>9. Range(key) \subseteq NamesOf(t.columns) \ {n}
    BY Literals DEF TableShape
  <1> HIDE DEF u, cols, fks, idx, key
  <1>10. /\ DOMAIN u = DOMAIN t /\ u.columns = cols /\ u.primaryKey = key /\ u.foreignKeys = fks /\ u.indexes = idx
         /\ u.filled = t.filled \ {n} /\ u.nulls = t.nulls \ {n}
         /\ u.exists = t.exists /\ u.seeds = t.seeds /\ u.policies = t.policies /\ u.checks = t.checks
         /\ u.exclusions = t.exclusions /\ u.triggers = t.triggers
    BY <1>8, <1>0, TableFields
  <1>11. IsTable(u)
    BY <1>0, <1>4, <1>5, <1>6, <1>10 DEF IsTable
  <1>12. \A m \in t.filled : Kept(sp, m) => m \in u.filled
    BY <1>10
  <1>13. TableShape(e, u)
    BY <1>7, <1>9, <1>10, <1>11 DEF TableShape
  <1>14. Advances(e, sp, t, u)
    BY <1>10, <1>12, <1>13 DEF Advances
  <1> QED
    BY <1>14 DEF u

\* Policies change only where the spec manages them.
LEMMA PolicyStatements ==
  ASSUME NEW e, NEW sp, NEW t, TableShape(e, t), t.exists, NEW st,
         st.op \in PolicyOps, e \in PolicyEngines, sp.rls # NoValue
  PROVE  Advances(e, sp, t, After(e, t, st))
  <1> DEFINE u == After(e, t, st)  a == st.arg
  <1>0. IsTable(t) /\ IsSequence(t.policies)
    BY DEF TableShape, IsTable
  <1>1. \E s : IsSequence(s) /\ u = [t EXCEPT !.policies = s]
    <2>1. CASE st.op = "createPolicy"
      <3>1. u = [t EXCEPT !.policies = Append(t.policies, a)]
        BY <2>1, Zenon DEF After
      <3> QED
        BY <3>1, <1>0, Appended
    <2>2. CASE st.op = "dropPolicyIfExists"
      <3>1. u = [t EXCEPT !.policies = WithoutName(t.policies, a)]
        BY <2>2, Zenon DEF After
      <3> QED
        BY <3>1, <1>0, Without
    <2> QED
      BY <2>1, <2>2 DEF PolicyOps
  <1>2. PICK s : IsSequence(s) /\ u = [t EXCEPT !.policies = s]
    BY <1>1
  <1> HIDE DEF u
  <1>3. /\ DOMAIN u = DOMAIN t /\ u.policies = s /\ u.columns = t.columns /\ u.primaryKey = t.primaryKey
        /\ u.exists = t.exists /\ u.filled = t.filled /\ u.nulls = t.nulls /\ u.seeds = t.seeds
        /\ u.foreignKeys = t.foreignKeys /\ u.indexes = t.indexes
        /\ u.checks = t.checks /\ u.exclusions = t.exclusions /\ u.triggers = t.triggers
    BY <1>2, <1>0, TableFields
  <1>4. IsTable(u)
    BY <1>0, <1>2, <1>3 DEF IsTable
  <1>5. Advances(e, sp, t, u)
    BY <1>3, <1>4 DEF Advances, TableShape
  <1> QED
    BY <1>5 DEF u

\* Statements about rows, and those that change nothing the model keeps.
LEMMA RowStatements ==
  ASSUME NEW e, NEW sp, NEW t, TableShape(e, t), t.exists, NEW st, st.op \in {"fillNulls", "seed"}
  PROVE  /\ Advances(e, sp, t, After(e, t, st))
         /\ st.op = "seed" => After(e, t, st).seeds > 0
  <1> DEFINE u == After(e, t, st)  a == st.arg
  <1>0. IsTable(t) /\ t.seeds \in Nat
    BY DEF TableShape
  <1>1. CASE st.op = "fillNulls"
    <2> DEFINE filled == IF a \in t.nulls THEN t.filled \cup {a} ELSE t.filled
    <2>1. u = [t EXCEPT !.nulls = @ \ {a}, !.filled = IF a \in t.nulls THEN @ \cup {a} ELSE @]
      BY <1>1, Zenon DEF After
    <2>2. t.filled \subseteq filled /\ filled \subseteq t.filled \cup t.nulls
      OBVIOUS
    <2> HIDE DEF u, a
    <2>3. u = [t EXCEPT !.nulls = t.nulls \ {a}, !.filled = filled]
      BY <2>1, <1>0, TableFields
    <2> HIDE DEF filled
    <2>4. /\ DOMAIN u = DOMAIN t /\ u.policies = t.policies /\ u.columns = t.columns /\ u.primaryKey = t.primaryKey
          /\ u.exists = t.exists /\ u.filled = filled /\ u.nulls = t.nulls \ {a} /\ u.seeds = t.seeds
          /\ u.foreignKeys = t.foreignKeys /\ u.indexes = t.indexes
          /\ u.checks = t.checks /\ u.exclusions = t.exclusions /\ u.triggers = t.triggers
      BY <2>3, <1>0, TableFields
    <2>5. IsTable(u)
      BY <1>0, <2>4 DEF IsTable
    <2>6. Advances(e, sp, t, u)
      BY <2>2, <2>4, <2>5 DEF Advances, TableShape
    <2> QED
      BY <1>1, <2>6 DEF u
  <1>2. CASE st.op = "seed"
    <2> DEFINE seeds == IF Keyed(t) THEN 1 ELSE IF t.seeds < 2 THEN t.seeds + 1 ELSE t.seeds
    <2>1. u = [t EXCEPT !.seeds = seeds]
      BY <1>2, Zenon DEF After
    <2>2. seeds \in Nat /\ seeds > 0
      <3>1. Keyed(t) \/ ~Keyed(t)
        OBVIOUS
      <3> QED
        BY <1>0, <3>1
    <2> HIDE DEF u, seeds
    <2>3. /\ DOMAIN u = DOMAIN t /\ u.policies = t.policies /\ u.columns = t.columns /\ u.primaryKey = t.primaryKey
          /\ u.exists = t.exists /\ u.filled = t.filled /\ u.nulls = t.nulls /\ u.seeds = seeds
          /\ u.foreignKeys = t.foreignKeys /\ u.indexes = t.indexes
          /\ u.checks = t.checks /\ u.exclusions = t.exclusions /\ u.triggers = t.triggers
      BY <2>1, <1>0, TableFields
    <2>4. IsTable(u)
      BY <1>0, <2>3 DEF IsTable
    <2>5. Advances(e, sp, t, u) /\ u.seeds > 0
      BY <2>2, <2>3, <2>4 DEF Advances, TableShape
    <2> QED
      BY <2>5 DEF u
  <1> QED
    BY <1>1, <1>2

\* Every statement that alters a table keeps what the spec keeps.
LEMMA HarmlessRuns ==
  ASSUME NEW e, NEW sp, NEW w, TableShape(e, w.table), w.table.exists,
         NEW st, Harmless(e, sp, st), Runs(e, w, st)
  PROVE  /\ Advances(e, sp, w.table, After(e, w.table, st))
         /\ st.op = "seed" => After(e, w.table, st).seeds > 0
  <1>1. CASE st.op \in ObjectOps
    <2>1. st.op # "seed"
      BY <1>1 DEF ObjectOps
    <2> QED
      BY <1>1, <2>1, ObjectStatements
  <1>2. CASE st.op \in ColumnOps
    <2>1. st.op # "seed"
      BY <1>2 DEF ColumnOps
    <2>2. st.op = "modifyColumn" => "name" \in DOMAIN st.arg
      BY DEF Harmless
    <2> QED
      BY <1>2, <2>1, <2>2, ColumnStatements
  <1>3. CASE st.op = "addColumn"
    BY <1>3, ColumnAdded DEF Harmless
  <1>4. CASE st.op = "dropColumn"
    BY <1>4, ColumnDropped DEF Harmless
  <1>5. CASE st.op \in PolicyOps
    <2>1. st.op # "seed"
      BY <1>5 DEF PolicyOps
    <2> QED
      BY <1>5, <2>1, PolicyStatements DEF Harmless
  <1>6. CASE st.op \in {"fillNulls", "seed"}
    BY <1>6, RowStatements
  <1>7. CASE st.op \notin ObjectOps \cup ColumnOps \cup PolicyOps \cup {"addColumn", "dropColumn", "fillNulls", "seed"}
    <2>1. st.op \notin TableOps
      BY DEF Harmless
    <2>2. /\ st.op # "createTable" /\ st.op # "dropTable" /\ st.op # "addColumn" /\ st.op # "dropColumn"
          /\ st.op # "setDefault" /\ st.op # "fillNulls" /\ st.op # "setNotNull" /\ st.op # "modifyColumn"
          /\ st.op # "alterColumn" /\ st.op # "dropConstraint" /\ st.op # "dropForeignKey" /\ st.op # "dropIndex"
          /\ st.op # "dropIndexIfExists" /\ st.op # "dropPrimaryKey" /\ st.op # "addPrimaryKey"
          /\ st.op # "addForeignKey" /\ st.op # "addCheck" /\ st.op # "addExclusion" /\ st.op # "addIndex"
          /\ st.op # "createTrigger" /\ st.op # "dropTriggerIfExists" /\ st.op # "createPolicy"
          /\ st.op # "dropPolicyIfExists" /\ st.op # "rowSecurity" /\ st.op # "forceSecurity"
          /\ st.op # "convertTo" /\ st.op # "createHypertable" /\ st.op # "alterProperties" /\ st.op # "seed"
      BY <1>7, <2>1 DEF TableOps, PolicyOps, ObjectOps, ColumnOps
    <2>3. After(e, w.table, st) = w.table
      BY <2>2, Zenon DEF After
    <2>4. Advances(e, sp, w.table, w.table)
      BY DEF Advances
    <2> QED
      BY <2>2, <2>3, <2>4
  <1> QED
    BY <1>1, <1>2, <1>3, <1>4, <1>5, <1>6, <1>7

\* Making the spec's table.
LEMMA TableMade ==
  ASSUME NEW e, NEW sp, NEW w, NEW st, IsCreate(sp, st), Runs(e, w, st)
  PROVE  LET u == After(e, w.table, st)
         IN /\ TableShape(e, u) /\ u.exists /\ NamesOf(u.columns) = NamesOf(sp.columns)
            /\ u.filled = {} /\ u.nulls = {} /\ u.seeds = 0 /\ u.policies = <<>>
  <1> DEFINE u == After(e, w.table, st)  a == st.arg  cols == a.columns
             f == [i \in DOMAIN cols |-> Stored(e, cols[i])]
  <1>0. /\ st.op = "createTable" /\ IsTable(a) /\ a.exists /\ NamesOf(a.columns) = NamesOf(sp.columns)
        /\ a.filled = {} /\ a.nulls = {} /\ a.seeds = 0 /\ a.policies = <<>>
    BY DEF IsCreate
  <1>1. u = StoredTable(e, a)
    BY <1>0, Zenon DEF After
  <1>2. Range(a.primaryKey) \subseteq NamesOf(a.columns)
    <2>1. Range(a.primaryKey) \subseteq ColumnNames(a)
      BY <1>0, Zenon DEF Runs
    <2> QED
      BY <2>1 DEF ColumnNames
  <1>3. IsSequence(cols) /\ \A c \in Range(cols) : "name" \in DOMAIN c
    BY <1>0 DEF IsTable
  <1>4. IsSequence(f) /\ (\A c \in Range(f) : "name" \in DOMAIN c) /\ NamesOf(f) = NamesOf(cols)
    <2>1. f = [i \in DOMAIN cols |-> f[i]]
      OBVIOUS
    <2>2. \A i \in DOMAIN cols : "name" \in DOMAIN f[i] /\ f[i].name = cols[i].name
      BY <1>3, SequenceDomain, StoredColumn
    <2> HIDE DEF f
    <2> QED
      BY <1>3, <2>1, <2>2, ColumnsMapped
  <1>5. \E p : u = WithKey(e, [a EXCEPT !.columns = f, !.properties = p], a.primaryKey)
    <2> HIDE DEF u
    <2> QED
      BY <1>1, ZenonT(60) DEF StoredTable
  <1>6. PICK p : u = WithKey(e, [a EXCEPT !.columns = f, !.properties = p], a.primaryKey)
    BY <1>5
  <1> DEFINE b == [a EXCEPT !.columns = f, !.properties = p]
  <1> HIDE DEF f
  <1>7. /\ DOMAIN b = DOMAIN a /\ b.columns = f /\ b.exists /\ b.filled = {} /\ b.nulls = {} /\ b.seeds = 0
        /\ b.policies = <<>> /\ b.foreignKeys = a.foreignKeys /\ b.indexes = a.indexes /\ b.checks = a.checks
        /\ b.exclusions = a.exclusions /\ b.triggers = a.triggers
    BY <1>0, TableFields
  <1>8. u = WithKey(e, b, a.primaryKey)
    BY <1>6
  <1> HIDE DEF b, u, a
  <1>9. IsTable(b)
    BY <1>0, <1>4, <1>7 DEF IsTable
  <1>10. /\ DOMAIN u = DOMAIN b /\ u.primaryKey = a.primaryKey
         /\ IsSequence(u.columns) /\ (\A c \in Range(u.columns) : "name" \in DOMAIN c)
         /\ NamesOf(u.columns) = NamesOf(b.columns)
         /\ u.exists = b.exists /\ u.filled = b.filled /\ u.nulls = b.nulls /\ u.seeds = b.seeds
         /\ u.policies = b.policies /\ u.foreignKeys = b.foreignKeys /\ u.indexes = b.indexes
         /\ u.checks = b.checks /\ u.exclusions = b.exclusions /\ u.triggers = b.triggers
    BY <1>8, <1>9, KeyedColumns
  <1>11. IsTable(u)
    BY <1>9, <1>10 DEF IsTable
  <1>12. NamesOf(u.columns) = NamesOf(a.columns) /\ NamesOf(u.columns) = NamesOf(sp.columns)
    BY <1>0, <1>4, <1>7, <1>10
  <1>13. TableShape(e, u)
    BY <1>2, <1>7, <1>10, <1>11, <1>12 DEF TableShape
  <1>14. u.exists /\ u.filled = {} /\ u.nulls = {} /\ u.seeds = 0 /\ u.policies = <<>>
    BY <1>7, <1>10
  <1> QED
    BY <1>12, <1>13, <1>14 DEF u

-----------------------------------------------------------------------------
(* What is left of a plan after its first statement.                       *)

LEMMA EachTail ==
  ASSUME NEW e, NEW sp, NEW q, Each(e, sp, q), q # <<>>
  PROVE  Each(e, sp, Tail(q)) /\ Harmless(e, sp, q[1])
  <1>1. /\ IsSequence(Tail(q)) /\ Len(q) \in Nat /\ Len(q) > 0 /\ DOMAIN q = 1..Len(q)
        /\ DOMAIN Tail(q) = 1..(Len(q) - 1) /\ \A i \in 1..(Len(q) - 1) : Tail(q)[i] = q[i + 1]
    BY Tailed DEF Each
  <1>2. \A i \in 1..Len(q) : Harmless(e, sp, q[i])
    BY <1>1 DEF Each, Range
  <1>3. \A i \in 1..(Len(q) - 1) : Harmless(e, sp, Tail(q)[i])
    BY <1>1, <1>2
  <1> QED
    BY <1>1, <1>2, <1>3 DEF Each, Range

LEMMA SeededTail ==
  ASSUME NEW q, IsSequence(q), q # <<>>, Seeded(q)
  PROVE  q[1].op = "seed" \/ Seeded(Tail(q))
  <1>1. /\ Len(q) \in Nat /\ Len(q) > 0 /\ DOMAIN q = 1..Len(q)
        /\ DOMAIN Tail(q) = 1..(Len(q) - 1) /\ \A i \in 1..(Len(q) - 1) : Tail(q)[i] = q[i + 1]
    BY Tailed
  <1>2. PICK i \in 1..Len(q) : q[i].op = "seed"
    BY <1>1 DEF Seeded, Range
  <1>3. CASE i # 1
    <2>1. i - 1 \in 1..(Len(q) - 1) /\ (i - 1) + 1 = i
      BY <1>1, <1>3
    <2>2. Tail(q)[i - 1] = q[i]
      BY <1>1, <2>1
    <2>3. q[i] \in Range(Tail(q))
      BY <1>1, <2>1, <2>2 DEF Range
    <2> QED
      BY <1>2, <2>3 DEF Seeded
  <1> QED
    BY <1>2, <1>3

LEMMA CreatingTail ==
  ASSUME NEW e, NEW sp, NEW q, Creating(e, sp, q)
  PROVE  Each(e, sp, Tail(q)) /\ IsCreate(sp, q[1])
  <1>1. IsSequence(q) /\ q # <<>> /\ IsCreate(sp, q[1]) /\ \A i \in DOMAIN q : i # 1 => Harmless(e, sp, q[i])
    BY DEF Creating
  <1>2. /\ IsSequence(Tail(q)) /\ Len(q) \in Nat /\ Len(q) > 0 /\ DOMAIN q = 1..Len(q)
        /\ DOMAIN Tail(q) = 1..(Len(q) - 1) /\ \A i \in 1..(Len(q) - 1) : Tail(q)[i] = q[i + 1]
    BY <1>1, Tailed
  <1>3. \A i \in 1..(Len(q) - 1) : Harmless(e, sp, Tail(q)[i])
    <2> SUFFICES ASSUME NEW i \in 1..(Len(q) - 1) PROVE Harmless(e, sp, Tail(q)[i])
      OBVIOUS
    <2>1. i + 1 \in DOMAIN q /\ i + 1 # 1
      BY <1>2
    <2> QED
      BY <1>1, <1>2, <2>1
  <1> QED
    BY <1>1, <1>2, <1>3 DEF Each, Range

\* The parts of a copy, with c where the rows are copied.
CopiesAt(e, sp, q, k, c) ==
  LET end == IF e = "sqlite" THEN 2 ELSE 1
  IN /\ c > k /\ c + end <= Len(q)
     /\ \A i \in (k + 1)..(c - 1) : q[i].op = "addIndex"
     /\ q[c].op = "copyRows" /\ q[c].arg = NamesOf(sp.columns)
     /\ q[c + 1].op = "dropOldTable"
     /\ e = "sqlite" => q[c + 2].op = "commit"
     /\ \A i \in (c + end + 1)..Len(q) : Harmless(e, sp, q[i])

LEMMA CopyIs ==
  ASSUME NEW e, NEW sp, NEW q, NEW k
  PROVE  Copying(e, sp, q, k) <=> /\ IsSequence(q)
                                  /\ k = 3 => q[1].op = "begin"
                                  /\ k >= 2 => q[k - 1].op = "renameTable"
                                  /\ k >= 1 => IsCreate(sp, q[k])
                                  /\ \E c \in 1..Len(q) : CopiesAt(e, sp, q, k, c)
  BY Zenon DEF Copying, CopiesAt

\* A statement of a copy less.
LEMMA CopyTail ==
  ASSUME NEW e, NEW sp, NEW q, NEW k \in 0..3, Copying(e, sp, q, k)
  PROVE  /\ IsSequence(q) /\ q # <<>>
         /\ k = 3 => q[1].op = "begin" /\ Copying(e, sp, Tail(q), 2)
         /\ k = 2 => q[1].op = "renameTable" /\ Copying(e, sp, Tail(q), 1)
         /\ k = 1 => IsCreate(sp, q[1]) /\ Copying(e, sp, Tail(q), 0)
         /\ k = 0 => \/ q[1].op = "addIndex" /\ Copying(e, sp, Tail(q), 0)
                     \/ /\ q[1].op = "copyRows" /\ q[1].arg = NamesOf(sp.columns)
                        /\ CopyEnd(e, sp, Tail(q), IF e = "sqlite" THEN 2 ELSE 1)
  <1> DEFINE end == IF e = "sqlite" THEN 2 ELSE 1
             r == Tail(q)
  <1>1. /\ IsSequence(q) /\ (k = 3 => q[1].op = "begin") /\ (k >= 2 => q[k - 1].op = "renameTable")
        /\ (k >= 1 => IsCreate(sp, q[k])) /\ \E c \in 1..Len(q) : CopiesAt(e, sp, q, k, c)
    BY CopyIs
  <1>2. PICK c \in 1..Len(q) : CopiesAt(e, sp, q, k, c)
    BY <1>1
  <1>3. q # <<>>
    BY <1>2
  <1>4. /\ IsSequence(r) /\ Len(q) \in Nat /\ Len(q) > 0 /\ Len(r) = Len(q) - 1
        /\ \A i \in 1..(Len(q) - 1) : r[i] = q[i + 1]
    BY <1>1, <1>3, Tailed
  <1>5. end \in {1, 2} /\ (e = "sqlite" => end = 2)
    OBVIOUS
  <1>6. /\ c > k /\ c + end <= Len(q)
        /\ \A i \in (k + 1)..(c - 1) : q[i].op = "addIndex"
        /\ q[c].op = "copyRows" /\ q[c].arg = NamesOf(sp.columns)
        /\ q[c + 1].op = "dropOldTable"
        /\ e = "sqlite" => q[c + 2].op = "commit"
        /\ \A i \in (c + end + 1)..Len(q) : Harmless(e, sp, q[i])
    BY <1>2 DEF CopiesAt
  <1> HIDE DEF r
  <1>7. ASSUME NEW m \in 0..2, c > 1, m = IF k = 0 THEN 0 ELSE k - 1
        PROVE  c - 1 \in 1..Len(r) /\ CopiesAt(e, sp, r, m, c - 1)
    <2>1. c - 1 \in 1..Len(r) /\ c - 1 > m /\ (c - 1) + end <= Len(r)
      <3> HIDE DEF end
      <3> QED
        BY <1>4, <1>5, <1>6, <1>7
    <2>2. \A i \in (m + 1)..((c - 1) - 1) : r[i].op = "addIndex"
      <3> SUFFICES ASSUME NEW i \in (m + 1)..((c - 1) - 1) PROVE r[i].op = "addIndex"
        OBVIOUS
      <3> HIDE DEF end
      <3>1. i + 1 \in (k + 1)..(c - 1) /\ i \in 1..(Len(q) - 1)
        BY <1>4, <1>5, <1>6, <1>7
      <3> QED
        BY <1>4, <1>6, <3>1
    <2>3. r[c - 1] = q[c] /\ r[(c - 1) + 1] = q[c + 1]
      <3> HIDE DEF end
      <3>1. c - 1 \in 1..(Len(q) - 1) /\ (c - 1) + 1 = c /\ c \in 1..(Len(q) - 1)
        BY <1>4, <1>5, <1>6, <1>7
      <3> QED
        BY <1>4, <3>1
    <2>4. e = "sqlite" => r[(c - 1) + 2] = q[c + 2]
      <3> SUFFICES ASSUME e = "sqlite" PROVE r[(c - 1) + 2] = q[c + 2]
        OBVIOUS
      <3>1. end = 2
        OBVIOUS
      <3> HIDE DEF end
      <3>2. (c - 1) + 2 \in 1..(Len(q) - 1) /\ ((c - 1) + 2) + 1 = c + 2
        BY <1>4, <1>6, <1>7, <3>1
      <3> QED
        BY <1>4, <3>2
    <2>5. \A i \in ((c - 1) + end + 1)..Len(r) : Harmless(e, sp, r[i])
      <3> SUFFICES ASSUME NEW i \in ((c - 1) + end + 1)..Len(r) PROVE Harmless(e, sp, r[i])
        OBVIOUS
      <3> HIDE DEF end
      <3>1. i + 1 \in (c + end + 1)..Len(q) /\ i \in 1..(Len(q) - 1)
        BY <1>4, <1>5, <1>6, <1>7
      <3> QED
        BY <1>4, <1>6, <3>1
    <2> QED
      BY <1>6, <2>1, <2>2, <2>3, <2>4, <2>5 DEF CopiesAt
  <1>8. k = 3 => q[1].op = "begin" /\ Copying(e, sp, r, 2)
    <2> SUFFICES ASSUME k = 3 PROVE q[1].op = "begin" /\ Copying(e, sp, r, 2)
      OBVIOUS
    <2> HIDE DEF end
    <2>0. 1 \in 1..(Len(q) - 1) /\ 2 \in 1..(Len(q) - 1) /\ c > 1
      BY <1>4, <1>5, <1>6
    <2>1. r[1] = q[2] /\ r[2] = q[3] /\ c > 1
      BY <1>4, <2>0
    <2>2. c - 1 \in 1..Len(r) /\ CopiesAt(e, sp, r, 2, c - 1)
      BY <1>7, <2>1
    <2>3. r[2 - 1].op = "renameTable" /\ IsCreate(sp, r[2])
      BY <1>1, <2>1
    <2>4. \E d \in 1..Len(r) : CopiesAt(e, sp, r, 2, d)
      BY <2>2
    <2>5. 2 # 3
      OBVIOUS
    <2>6. Copying(e, sp, r, 2)
      BY <1>4, <2>3, <2>4, <2>5, CopyIs, Zenon
    <2> QED
      BY <1>1, <2>6
  <1>9. k = 2 => q[1].op = "renameTable" /\ Copying(e, sp, r, 1)
    <2> SUFFICES ASSUME k = 2 PROVE q[1].op = "renameTable" /\ Copying(e, sp, r, 1)
      OBVIOUS
    <2> HIDE DEF end
    <2>0. 1 \in 1..(Len(q) - 1) /\ c > 1
      BY <1>4, <1>5, <1>6
    <2>1. r[1] = q[2] /\ c > 1
      BY <1>4, <2>0
    <2>2. c - 1 \in 1..Len(r) /\ CopiesAt(e, sp, r, 1, c - 1)
      BY <1>7, <2>1
    <2> QED
      BY <1>1, <1>4, <2>1, <2>2, CopyIs
  <1>10. k = 1 => IsCreate(sp, q[1]) /\ Copying(e, sp, r, 0)
    <2> SUFFICES ASSUME k = 1 PROVE IsCreate(sp, q[1]) /\ Copying(e, sp, r, 0)
      OBVIOUS
    <2> HIDE DEF end
    <2>1. c > 1
      BY <1>6
    <2>2. c - 1 \in 1..Len(r) /\ CopiesAt(e, sp, r, 0, c - 1)
      BY <1>7, <2>1
    <2> QED
      BY <1>1, <1>4, <2>2, CopyIs
  <1>11. k = 0 /\ c > 1 => q[1].op = "addIndex" /\ Copying(e, sp, r, 0)
    <2> SUFFICES ASSUME k = 0, c > 1 PROVE q[1].op = "addIndex" /\ Copying(e, sp, r, 0)
      OBVIOUS
    <2> HIDE DEF end
    <2>1. q[1].op = "addIndex"
      BY <1>6
    <2>2. c - 1 \in 1..Len(r) /\ CopiesAt(e, sp, r, 0, c - 1)
      BY <1>7
    <2> QED
      BY <1>4, <2>1, <2>2, CopyIs
  <1>12. k = 0 /\ ~(c > 1) => q[1].op = "copyRows" /\ q[1].arg = NamesOf(sp.columns) /\ CopyEnd(e, sp, r, end)
    <2> SUFFICES ASSUME k = 0, ~(c > 1)
                 PROVE q[1].op = "copyRows" /\ q[1].arg = NamesOf(sp.columns) /\ CopyEnd(e, sp, r, end)
      OBVIOUS
    <2>1. c = 1
      OBVIOUS
    <2>2. end <= Len(r) /\ r[1] = q[2] /\ (end = 2 => r[2] = q[3])
      <3> HIDE DEF end
      <3> QED
        BY <1>4, <1>5, <1>6, <2>1
    <2>3. \A i \in (end + 1)..Len(r) : Harmless(e, sp, r[i])
      <3> HIDE DEF end
      <3> SUFFICES ASSUME NEW i \in (end + 1)..Len(r) PROVE Harmless(e, sp, r[i])
        OBVIOUS
      <3>1. i + 1 \in (c + end + 1)..Len(q) /\ i \in 1..(Len(q) - 1)
        BY <1>4, <1>5, <2>1
      <3> QED
        BY <1>4, <1>6, <3>1
    <2>4. r[end].op = IF e = "sqlite" THEN "commit" ELSE "dropOldTable"
      BY <1>6, <2>1, <2>2
    <2>5. end = 2 => r[1].op = "dropOldTable"
      BY <1>6, <2>1, <2>2
    <2>6. CopyEnd(e, sp, r, end)
      <3> HIDE DEF end
      <3> QED
        BY <1>4, <2>2, <2>3, <2>4, <2>5 DEF CopyEnd
    <2> QED
      BY <1>6, <2>1, <2>6
  <1> QED
    BY <1>1, <1>3, <1>8, <1>9, <1>10, <1>11, <1>12 DEF r

\* The last statements of a copy.
LEMMA CopyEndTail ==
  ASSUME NEW e, NEW sp, NEW q, NEW k \in 1..2, CopyEnd(e, sp, q, k)
  PROVE  /\ IsSequence(q) /\ q # <<>>
         /\ k = 2 => q[1].op = "dropOldTable" /\ CopyEnd(e, sp, Tail(q), 1)
         /\ k = 1 => /\ q[1].op = IF e = "sqlite" THEN "commit" ELSE "dropOldTable"
                     /\ Each(e, sp, Tail(q))
  <1>1. /\ IsSequence(q) /\ k <= Len(q) /\ q[k].op = (IF e = "sqlite" THEN "commit" ELSE "dropOldTable")
        /\ (k = 2 => q[1].op = "dropOldTable") /\ \A i \in (k + 1)..Len(q) : Harmless(e, sp, q[i])
    BY DEF CopyEnd
  <1>2. q # <<>>
    BY <1>1
  <1> DEFINE r == Tail(q)
  <1>3. /\ IsSequence(r) /\ Len(q) \in Nat /\ Len(q) > 0 /\ Len(r) = Len(q) - 1 /\ DOMAIN r = 1..(Len(q) - 1)
        /\ \A i \in 1..(Len(q) - 1) : r[i] = q[i + 1]
    BY <1>1, <1>2, Tailed
  <1> HIDE DEF r
  <1>4. k = 2 => CopyEnd(e, sp, r, 1)
    <2> SUFFICES ASSUME k = 2 PROVE CopyEnd(e, sp, r, 1)
      OBVIOUS
    <2>1. 1 <= Len(r) /\ r[1] = q[2]
      BY <1>1, <1>3
    <2>2. \A i \in (1 + 1)..Len(r) : Harmless(e, sp, r[i])
      <3> SUFFICES ASSUME NEW i \in (1 + 1)..Len(r) PROVE Harmless(e, sp, r[i])
        OBVIOUS
      <3>1. i + 1 \in (k + 1)..Len(q) /\ i \in 1..(Len(q) - 1)
        BY <1>3
      <3> QED
        BY <1>1, <1>3, <3>1
    <2> QED
      BY <1>1, <1>3, <2>1, <2>2 DEF CopyEnd
  <1>5. k = 1 => Each(e, sp, r)
    <2> SUFFICES ASSUME k = 1 PROVE Each(e, sp, r)
      OBVIOUS
    <2>1. \A i \in 1..(Len(q) - 1) : Harmless(e, sp, r[i])
      <3> SUFFICES ASSUME NEW i \in 1..(Len(q) - 1) PROVE Harmless(e, sp, r[i])
        OBVIOUS
      <3>1. i + 1 \in (k + 1)..Len(q)
        BY <1>3
      <3> QED
        BY <1>1, <1>3, <3>1
    <2> QED
      BY <1>3, <2>1 DEF Each, Range
  <1> QED
    BY <1>1, <1>2, <1>4, <1>5 DEF r

-----------------------------------------------------------------------------
(* A statement of every stage leads to the next one.                       *)

LEMMA KeepsItself ==
  ASSUME NEW sp, NEW t
  PROVE  Keeps(sp, t, t)
  BY DEF Keeps

LEMMA KeepsOn ==
  ASSUME NEW e, NEW sp, NEW t, NEW u, Keeps(sp, t, u), NEW v, Advances(e, sp, u, v)
  PROVE  Keeps(sp, t, v)
  BY DEF Keeps, Advances

LEMMA NoTableShape ==
  ASSUME NEW e
  PROVE  TableShape(e, NoTable) /\ ~NoTable.exists
  <1>1. IsTable(NoTable)
    BY Literals DEF IsTable, NoTable
  <1> QED
    BY <1>1, Literals DEF TableShape, NoTable

\* What is committed as it is seen is a stage of its own.
LEMMA Committed ==
  ASSUME NEW e, NEW sp, NEW t, NEW w, NEW q, AlteringStage(e, sp, t, w, q)
  PROVE  AlteringStage(e, sp, w.table, View(w.table), q) /\ TableShape(e, w.table)
  <1>1. View(w.table).table = w.table
    BY DEF View
  <1> QED
    BY <1>1, KeepsItself DEF AlteringStage, Holds

\* What a statement leaves of the two tables.
LEMMA Renamed ==
  ASSUME NEW e, NEW w, IsView(w), NEW st, st.op = "renameTable"
  PROVE  LET v == Outcome(e, w, st) IN IsView(v) /\ v.old = w.table /\ v.table = NoTable
  <1>1. Outcome(e, w, st) = [w EXCEPT !.old = w.table, !.table = NoTable]
    BY Zenon DEF Outcome
  <1> QED
    BY <1>1 DEF IsView

CopiedRows(d, o, cols) ==
  [d EXCEPT !.filled = o.filled \cap cols, !.nulls = o.nulls \cap cols, !.seeds = o.seeds]

LEMMA RowsCopied ==
  ASSUME NEW e, NEW w, IsView(w), NEW st, st.op = "copyRows"
  PROVE  LET v == Outcome(e, w, st) IN IsView(v) /\ v.old = w.old /\ v.table = CopiedRows(w.table, w.old, st.arg)
  <1>1. Outcome(e, w, st) = [w EXCEPT !.table.filled = w.old.filled \cap st.arg,
                                      !.table.nulls = w.old.nulls \cap st.arg, !.table.seeds = w.old.seeds]
    BY Zenon DEF Outcome
  <1> QED
    BY <1>1 DEF IsView, CopiedRows

LEMMA OldDropped ==
  ASSUME NEW e, NEW w, IsView(w), NEW st, st.op = "dropOldTable"
  PROVE  LET v == Outcome(e, w, st) IN IsView(v) /\ v.table = w.table
  <1>1. Outcome(e, w, st) = [w EXCEPT !.old = NoTable]
    BY Zenon DEF Outcome
  <1> QED
    BY <1>1 DEF IsView

LEMMA Altered ==
  ASSUME NEW e, NEW w, IsView(w), NEW st, st.op \notin {"renameTable", "copyRows", "dropOldTable"}
  PROVE  LET v == Outcome(e, w, st) IN IsView(v) /\ v.old = w.old /\ v.table = After(e, w.table, st)
  <1>1. Outcome(e, w, st) = [w EXCEPT !.table = After(e, w.table, st)]
    BY Zenon DEF Outcome
  <1> QED
    BY <1>1 DEF IsView

LEMMA AlteringStep ==
  ASSUME NEW e, NEW sp, NEW t, NEW w, IsView(w), NEW q, AlteringStage(e, sp, t, w, q),
         q # <<>>, Runs(e, w, q[1]), NEW v, v = Outcome(e, w, q[1])
  PROVE  /\ q[1].op \notin TableOps
         /\ AlteringStage(e, sp, t, v, Tail(q)) /\ Advances(e, sp, w.table, v.table)
  <1> DEFINE st == q[1]
  <1>1. /\ Each(e, sp, q) /\ w.table.exists /\ TableShape(e, w.table) /\ Keeps(sp, t, w.table)
        /\ SeedsDue(e, sp) => Seeded(q) \/ w.table.seeds > 0
    BY DEF AlteringStage, Holds
  <1>2. Each(e, sp, Tail(q)) /\ Harmless(e, sp, st)
    BY <1>1, EachTail
  <1>3. st.op \notin TableOps
    BY <1>2 DEF Harmless
  <1>4. v.table = After(e, w.table, st)
    BY <1>3, Altered DEF TableOps
  <1>5. Runs(e, w, st)
    OBVIOUS
  <1> HIDE DEF st
  <1>6. Advances(e, sp, w.table, v.table) /\ (st.op = "seed" => v.table.seeds > 0)
    BY <1>1, <1>2, <1>4, <1>5, HarmlessRuns
  <1>7. v.table.exists /\ TableShape(e, v.table) /\ (w.table.seeds > 0 => v.table.seeds > 0)
    BY <1>6 DEF Advances
  <1>8. Keeps(sp, t, v.table)
    BY <1>1, <1>6, KeepsOn
  <1>9. SeedsDue(e, sp) => Seeded(Tail(q)) \/ v.table.seeds > 0
    <2>1. Seeded(q) => st.op = "seed" \/ Seeded(Tail(q))
      BY <1>1, SeededTail DEF Each, st
    <2> QED
      BY <1>1, <1>6, <1>7, <2>1
  <1>10. AlteringStage(e, sp, t, v, Tail(q))
    BY <1>2, <1>7, <1>8, <1>9 DEF AlteringStage, Holds
  <1> QED
    BY <1>3, <1>6, <1>10 DEF st

LEMMA CreatingStep ==
  ASSUME NEW e, NEW sp, NEW t, NEW w, IsView(w), NEW q, CreatingStage(e, sp, t, w, q),
         Runs(e, w, q[1]), NEW v, v = Outcome(e, w, q[1])
  PROVE  /\ q[1].op = "createTable"
         /\ AlteringStage(e, sp, t, v, Tail(q)) /\ Keeps(sp, w.table, v.table)
  <1>1. /\ Creating(e, sp, q) /\ ~w.table.exists /\ TableShape(e, w.table) /\ Keeps(sp, t, w.table)
        /\ SeedsDue(e, sp) => Seeded(q)
    BY DEF CreatingStage, Holds
  <1>2. Each(e, sp, Tail(q)) /\ IsCreate(sp, q[1])
    BY <1>1, CreatingTail
  <1>3. q[1].op = "createTable"
    BY <1>2 DEF IsCreate
  <1>4. v.table = After(e, w.table, q[1])
    BY <1>3, Altered
  <1>5. TableShape(e, v.table) /\ v.table.exists /\ v.table.policies = <<>>
    BY <1>2, <1>4, TableMade
  <1>6. w.table.filled = {} /\ w.table.policies = <<>>
    BY <1>1 DEF TableShape
  <1>7. Keeps(sp, t, v.table) /\ Keeps(sp, w.table, v.table)
    BY <1>1, <1>5, <1>6 DEF Keeps
  <1>8. SeedsDue(e, sp) => Seeded(Tail(q))
    <2>1. IsSequence(q) /\ q # <<>>
      BY <1>1 DEF Creating
    <2> QED
      BY <1>1, <1>3, <2>1, SeededTail
  <1> QED
    BY <1>2, <1>3, <1>5, <1>7, <1>8 DEF AlteringStage, Holds

LEMMA DroppingStep ==
  ASSUME NEW e, NEW sp, NEW t, NEW w, IsView(w), NEW q, DroppingStage(e, sp, w, q),
         NEW v, v = Outcome(e, w, q[1])
  PROVE  /\ q[1].op = "dropTable"
         /\ AlteringStage(e, sp, t, v, Tail(q)) /\ Keeps(sp, w.table, v.table)
  <1>1. q = <<[op |-> "dropTable", arg |-> ""]>> /\ sp.isDeleted
    BY DEF DroppingStage
  <1>2. q[1].op = "dropTable" /\ Tail(q) = <<>>
    <2>1. \A a : <<a>>[1] = a /\ Tail(<<a>>) = <<>>
      OBVIOUS
    <2> QED
      BY <1>1, <2>1
  <1>3. v.table = After(e, w.table, q[1])
    BY <1>2, Altered
  <1>4. v.table = NoTable
    BY <1>2, <1>3, Zenon DEF After
  <1>5. Each(e, sp, <<>>)
    BY EachLiteral
  <1>6. TableShape(e, v.table)
    BY <1>4, NoTableShape
  <1>7. ~SeedsDue(e, sp) /\ Keeps(sp, t, v.table) /\ Keeps(sp, w.table, v.table)
    BY <1>1 DEF SeedsDue, Keeps
  <1> QED
    BY <1>2, <1>5, <1>6, <1>7 DEF AlteringStage, Holds

\* The old table is set aside, with its rows.
LEMMA RenamingStep ==
  ASSUME NEW e, NEW sp, NEW t, NEW x, NEW w, IsView(w), NEW q,
         RenamingOld(e, sp, t, x, w, q), NEW v, v = Outcome(e, w, q[1])
  PROVE  IsSequence(q) /\ q[1].op = "renameTable" /\ MakingNew(e, sp, t, <<v>>, v, Tail(q))
  <1>1. Copying(e, sp, q, 2) /\ Holds(e, sp, t, w.table)
    BY DEF RenamingOld
  <1>2. IsSequence(q) /\ q[1].op = "renameTable" /\ Copying(e, sp, Tail(q), 1)
    BY <1>1, CopyTail
  <1>3. v.old = w.table
    BY <1>2, Renamed
  <1>4. <<v>> # <<>>
    OBVIOUS
  <1> QED
    BY <1>1, <1>2, <1>3, <1>4 DEF MakingNew

\* The new one is made beside it.
LEMMA MakingStep ==
  ASSUME NEW e, NEW sp, NEW t, NEW x, NEW w, IsView(w), NEW q,
         MakingNew(e, sp, t, x, w, q), Runs(e, w, q[1]), NEW v, v = Outcome(e, w, q[1])
  PROVE  IsSequence(q) /\ q[1].op = "createTable" /\ CopyingRows(e, sp, t, <<v>>, v, Tail(q))
  <1>1. Copying(e, sp, q, 1) /\ Holds(e, sp, t, w.old)
    BY DEF MakingNew
  <1>2. IsSequence(q) /\ IsCreate(sp, q[1]) /\ Copying(e, sp, Tail(q), 0)
    BY <1>1, CopyTail
  <1>3. q[1].op = "createTable"
    BY <1>2 DEF IsCreate
  <1>4. v.old = w.old /\ v.table = After(e, w.table, q[1])
    BY <1>3, Altered
  <1>5. TableShape(e, v.table) /\ v.table.exists /\ NamesOf(v.table.columns) = NamesOf(sp.columns)
    BY <1>2, <1>4, TableMade
  <1>6. <<v>> # <<>>
    OBVIOUS
  <1> QED
    BY <1>1, <1>2, <1>3, <1>4, <1>5, <1>6 DEF CopyingRows

\* It gets its indexes, and then the values of every column the spec keeps.
LEMMA CopyingStep ==
  ASSUME NEW e \in {"sqlite", "rqlite"}, NEW sp, sp.hasSchema, NEW t, TableShape(e, t),
         NEW x, NEW w, IsView(w), NEW q,
         CopyingRows(e, sp, t, x, w, q), Runs(e, w, q[1]), NEW v, v = Outcome(e, w, q[1])
  PROVE  /\ IsSequence(q) /\ q[1].op \in {"addIndex", "copyRows"}
         /\ CopyingRows(e, sp, t, <<v>>, v, Tail(q)) \/ DroppingOld(e, sp, t, <<v>>, v, Tail(q))
  <1>1. /\ Copying(e, sp, q, 0) /\ TableShape(e, w.old) /\ Keeps(sp, t, w.old)
        /\ TableShape(e, w.table) /\ w.table.exists /\ NamesOf(w.table.columns) = NamesOf(sp.columns)
    BY DEF CopyingRows, Holds
  <1> DEFINE st == q[1]
  <1>0. IsSequence(q) /\ <<v>> # <<>>
    BY <1>1, Zenon DEF Copying
  <1>2. \/ st.op = "addIndex" /\ Copying(e, sp, Tail(q), 0)
        \/ /\ st.op = "copyRows" /\ st.arg = NamesOf(sp.columns)
           /\ CopyEnd(e, sp, Tail(q), IF e = "sqlite" THEN 2 ELSE 1)
    BY <1>1, CopyTail
  <1>3. CASE st.op = "addIndex" /\ Copying(e, sp, Tail(q), 0)
    <2>1. v.old = w.old /\ v.table = After(e, w.table, st)
      BY <1>3, Altered
    <2>2. After(e, w.table, st) = [w.table EXCEPT !.indexes = Append(w.table.indexes, st.arg)]
      BY <1>3, Zenon DEF After
    <2>3. After(e, w.table, st).columns = w.table.columns
      BY <1>1, <2>2, TableFields DEF TableShape
    <2>4. Advances(e, sp, w.table, After(e, w.table, st))
      BY <1>1, <1>3, ObjectStatements DEF ObjectOps
    <2>5. TableShape(e, v.table) /\ v.table.exists /\ NamesOf(v.table.columns) = NamesOf(sp.columns)
      BY <1>1, <2>1, <2>3, <2>4 DEF Advances
    <2> QED
      BY <1>0, <1>1, <1>3, <2>1, <2>5 DEF CopyingRows, Holds
  <1>4. CASE /\ st.op = "copyRows" /\ st.arg = NamesOf(sp.columns)
             /\ CopyEnd(e, sp, Tail(q), IF e = "sqlite" THEN 2 ELSE 1)
    <2> DEFINE u == v.table  o == w.old  d == w.table
    <2>1. u = CopiedRows(d, o, st.arg)
      BY <1>4, RowsCopied
    <2>2. IsTable(d)
      BY <1>1 DEF TableShape
    <2> HIDE DEF u, o, d
    <2>3. /\ DOMAIN u = DOMAIN d /\ u.filled = o.filled \cap st.arg /\ u.nulls = o.nulls \cap st.arg
          /\ u.seeds = o.seeds /\ u.columns = d.columns /\ u.primaryKey = d.primaryKey /\ u.exists = d.exists
          /\ u.policies = d.policies /\ u.foreignKeys = d.foreignKeys /\ u.indexes = d.indexes
          /\ u.checks = d.checks /\ u.exclusions = d.exclusions /\ u.triggers = d.triggers
      BY <2>1, <2>2, TableFields DEF CopiedRows
    <2>4. IsTable(u)
      BY <2>2, <2>3 DEF IsTable
    <2>5. e \notin PolicyEngines
      BY DEF PolicyEngines
    <2>6. TableShape(e, d) /\ TableShape(e, o) /\ d.exists /\ NamesOf(d.columns) = NamesOf(sp.columns) /\ Keeps(sp, t, o)
      BY <1>1 DEF d, o
    <2>7. d.policies = <<>> /\ t.policies = <<>>
      BY <2>5, <2>6 DEF TableShape
    <2>8. u.filled \cup u.nulls \subseteq NamesOf(u.columns)
      BY <1>4, <2>3, <2>6
    <2>9. TableShape(e, u)
      BY <2>3, <2>4, <2>6, <2>7, <2>8 DEF TableShape
    <2>10. Keeps(sp, t, u)
      BY <1>4, <2>3, <2>6, <2>7 DEF Keeps, Kept, HasName
    <2>11. Holds(e, sp, t, v.table) /\ v.table.exists
      BY <2>3, <2>6, <2>9, <2>10 DEF Holds, u
    <2> QED
      BY <1>0, <1>4, <2>11 DEF DroppingOld
  <1> QED
    BY <1>2, <1>3, <1>4

\* The old table goes.
LEMMA DroppingOldStep ==
  ASSUME NEW e \in {"sqlite", "rqlite"}, NEW sp, NEW t, NEW x, NEW w, IsView(w), NEW q,
         SeedsDue(e, sp) => Seeded(q),
         DroppingOld(e, sp, t, x, w, q), NEW v, v = Outcome(e, w, q[1])
  PROVE  \/ q[1].op = "dropOldTable" /\ DroppingOld(e, sp, t, <<v>>, v, Tail(q))
         \/ q[1].op = "dropOldTable" /\ AlteringStage(e, sp, t, v, Tail(q))
         \/ q[1].op = "commit" /\ AlteringStage(e, sp, t, w, Tail(q))
  <1>0. <<v>> # <<>>
    OBVIOUS
  <1>1. Holds(e, sp, t, w.table) /\ w.table.exists
    BY DEF DroppingOld
  <1>2. q[1].op = "dropOldTable" => v.table = w.table
    BY OldDropped
  <1>3. CASE e = "sqlite" /\ CopyEnd(e, sp, q, 2)
    <2>1. q[1].op = "dropOldTable" /\ CopyEnd(e, sp, Tail(q), 1)
      BY <1>3, CopyEndTail
    <2> QED
      BY <1>0, <1>1, <1>2, <1>3, <2>1 DEF DroppingOld
  <1>4. CASE CopyEnd(e, sp, q, 1)
    <2>1. /\ IsSequence(q) /\ q # <<>> /\ q[1].op = (IF e = "sqlite" THEN "commit" ELSE "dropOldTable")
          /\ Each(e, sp, Tail(q))
      BY <1>4, CopyEndTail
    <2>2. q[1].op # "seed"
      BY <2>1
    <2>3. SeedsDue(e, sp) => Seeded(Tail(q))
      BY <2>1, <2>2, SeededTail
    <2>4. AlteringStage(e, sp, t, w, Tail(q))
      BY <1>1, <2>1, <2>3 DEF AlteringStage
    <2>5. q[1].op = "dropOldTable" => AlteringStage(e, sp, t, v, Tail(q))
      BY <1>1, <1>2, <2>1, <2>3 DEF AlteringStage
    <2> QED
      BY <2>1, <2>4, <2>5
  <1>5. \/ e = "sqlite" /\ CopyEnd(e, sp, q, 2)
        \/ CopyEnd(e, sp, q, 1)
    BY DEF DroppingOld
  <1> QED
    BY <1>3, <1>4, <1>5

LEMMA OutcomeIsView ==
  ASSUME NEW e, NEW w, IsView(w), NEW st
  PROVE  IsView(Outcome(e, w, st))
  BY Renamed, RowsCopied, OldDropped, Altered

LEMMA ViewIs ==
  ASSUME NEW t
  PROVE  IsView(View(t)) /\ View(t).table = t
  BY DEF IsView, View

\* Whatever stage a deployment is in, running the next statement keeps what the
\* spec keeps and leads to a stage again: t1 and x1 are what it commits and the
\* transaction it leaves open, w1 what the connection then sees.
LEMMA StatementRun ==
  ASSUME NEW e, NEW sp, NEW t, TableShape(e, t), NEW x, NEW w, x = <<>> => w = View(t),
         NEW q, Deploying(e, sp, t, x, w, q), q # <<>>, Runs(e, w, q[1]), NEW v, v = Outcome(e, w, q[1]),
         NEW t1, NEW x1, NEW w1,
         q[1].op = "begin" => t1 = t /\ x1 = <<View(t)>>,
         q[1].op = "commit" => t1 = w.table /\ x1 = <<>>,
         q[1].op \notin {"begin", "commit"} /\ x = <<>> => t1 = v.table /\ x1 = <<>>,
         q[1].op \notin {"begin", "commit"} /\ x # <<>> => t1 = t /\ x1 = <<v>>,
         x1 = <<>> => w1 = View(t1), x1 # <<>> => w1 = x1[1]
  PROVE  TableShape(e, t1) /\ Keeps(sp, t, t1) /\ Deploying(e, sp, t1, x1, w1, Tail(q))
  <1>1. IsView(w) /\ IsView(v)
    BY OutcomeIsView DEF Deploying
  <1>2. \A a : <<a>> # <<>> /\ <<a>>[1] = a
    OBVIOUS
  <1>3. x = <<>> => w.table = t
    BY ViewIs
  <1>4. q[1].op \notin {"begin", "commit"} /\ x # <<>> => t1 = t /\ x1 # <<>> /\ w1 = v
    BY <1>2
  <1>5. ASSUME AlteringStage(e, sp, t, v, Tail(q)), Keeps(sp, w.table, v.table),
               q[1].op \notin {"begin", "commit"}
        PROVE  TableShape(e, t1) /\ Keeps(sp, t, t1) /\ Deploying(e, sp, t1, x1, w1, Tail(q))
    <2>1. CASE x = <<>>
      <3>1. t1 = v.table /\ x1 = <<>> /\ w1 = View(v.table)
        BY <1>5, <2>1
      <3>2. AlteringStage(e, sp, t1, w1, Tail(q)) /\ TableShape(e, t1)
        BY <1>5, <3>1, Committed
      <3>3. IsView(w1)
        BY <3>1, ViewIs
      <3>4. Keeps(sp, t, t1)
        BY <1>3, <1>5, <2>1, <3>1
      <3> QED
        BY <3>2, <3>3, <3>4 DEF Deploying
    <2>2. CASE x # <<>>
      <3>1. t1 = t /\ w1 = v
        BY <1>4, <1>5, <2>2
      <3> QED
        BY <1>1, <1>5, <3>1, KeepsItself DEF Deploying
    <2> QED
      BY <2>1, <2>2
  <1>6. CASE AlteringStage(e, sp, t, w, q)
    <2>1. /\ q[1].op \notin TableOps
          /\ AlteringStage(e, sp, t, v, Tail(q)) /\ Advances(e, sp, w.table, v.table)
      BY <1>1, <1>6, AlteringStep
    <2>2. Keeps(sp, w.table, v.table)
      BY <2>1, KeepsItself, KeepsOn
    <2>3. q[1].op \notin {"begin", "commit"}
      BY <2>1 DEF TableOps
    <2> QED
      BY <1>5, <2>1, <2>2, <2>3
  <1>7. CASE CreatingStage(e, sp, t, w, q)
    <2>1. /\ q[1].op = "createTable"
          /\ AlteringStage(e, sp, t, v, Tail(q)) /\ Keeps(sp, w.table, v.table)
      BY <1>1, <1>7, CreatingStep
    <2> QED
      BY <1>5, <2>1
  <1>8. CASE DroppingStage(e, sp, w, q)
    <2>1. /\ q[1].op = "dropTable"
          /\ AlteringStage(e, sp, t, v, Tail(q)) /\ Keeps(sp, w.table, v.table)
      BY <1>1, <1>8, DroppingStep
    <2> QED
      BY <1>5, <2>1
  <1>9. CASE CopyingStage(e, sp, t, x, w, q)
    <2>1. e \in {"sqlite", "rqlite"} /\ sp.hasSchema /\ (SeedsDue(e, sp) => Seeded(q))
      BY <1>9 DEF CopyingStage
    <2>2. IsSequence(q) => (q[1].op # "seed" /\ SeedsDue(e, sp) => Seeded(Tail(q)))
      BY <2>1, SeededTail
    <2>3. CASE StartingCopy(e, sp, t, x, w, q)
      <3>1. e = "sqlite" /\ x = <<>> /\ Copying(e, sp, q, 3) /\ Holds(e, sp, t, w.table)
        BY <2>3 DEF StartingCopy
      <3>2. IsSequence(q) /\ q[1].op = "begin" /\ Copying(e, sp, Tail(q), 2)
        BY <3>1, CopyTail
      <3>3. t1 = t /\ x1 = <<View(t)>> /\ x1 # <<>> /\ w1 = View(t) /\ w1 = w
        BY <1>2, <3>1, <3>2
      <3>4. RenamingOld(e, sp, t1, x1, w1, Tail(q))
        BY <3>1, <3>2, <3>3 DEF RenamingOld
      <3>5. SeedsDue(e, sp) => Seeded(Tail(q))
        BY <2>2, <3>2
      <3> QED
        BY <1>1, <2>1, <3>3, <3>4, <3>5, KeepsItself DEF Deploying, CopyingStage
    <2>4. ASSUME x # <<>>, IsSequence(q), q[1].op \notin {"begin", "commit", "seed"},
                 \/ MakingNew(e, sp, t, <<v>>, v, Tail(q)) \/ CopyingRows(e, sp, t, <<v>>, v, Tail(q))
                 \/ DroppingOld(e, sp, t, <<v>>, v, Tail(q))
          PROVE  TableShape(e, t1) /\ Keeps(sp, t, t1) /\ Deploying(e, sp, t1, x1, w1, Tail(q))
      <3>1. t1 = t /\ x1 = <<v>> /\ w1 = v
        BY <1>2, <2>4
      <3>2. SeedsDue(e, sp) => Seeded(Tail(q))
        BY <2>2, <2>4
      <3>3. CopyingStage(e, sp, t, x1, v, Tail(q))
        BY <2>1, <2>4, <3>1, <3>2 DEF CopyingStage
      <3> QED
        BY <1>1, <3>1, <3>3, KeepsItself DEF Deploying
    <2>5. CASE RenamingOld(e, sp, t, x, w, q)
      <3>1. x # <<>>
        BY <2>5 DEF RenamingOld
      <3>2. IsSequence(q) /\ q[1].op = "renameTable" /\ MakingNew(e, sp, t, <<v>>, v, Tail(q))
        BY <1>1, <2>5, RenamingStep
      <3> QED
        BY <2>4, <3>1, <3>2
    <2>6. CASE MakingNew(e, sp, t, x, w, q)
      <3>1. x # <<>>
        BY <2>6 DEF MakingNew
      <3>2. IsSequence(q) /\ q[1].op = "createTable" /\ CopyingRows(e, sp, t, <<v>>, v, Tail(q))
        BY <1>1, <2>6, MakingStep
      <3> QED
        BY <2>4, <3>1, <3>2
    <2>7. CASE CopyingRows(e, sp, t, x, w, q)
      <3>1. x # <<>>
        BY <2>7 DEF CopyingRows
      <3>2. /\ IsSequence(q) /\ q[1].op \in {"addIndex", "copyRows"}
            /\ CopyingRows(e, sp, t, <<v>>, v, Tail(q)) \/ DroppingOld(e, sp, t, <<v>>, v, Tail(q))
        BY <1>1, <2>1, <2>7, CopyingStep
      <3>3. q[1].op \notin {"begin", "commit", "seed"}
        BY <3>2
      <3> QED
        BY <2>4, <3>1, <3>2, <3>3
    <2>8. CASE DroppingOld(e, sp, t, x, w, q)
      <3>1. x # <<>> /\ IsSequence(q)
        BY <2>8 DEF DroppingOld, CopyEnd
      <3>2. \/ q[1].op = "dropOldTable" /\ DroppingOld(e, sp, t, <<v>>, v, Tail(q))
            \/ q[1].op = "dropOldTable" /\ AlteringStage(e, sp, t, v, Tail(q))
            \/ q[1].op = "commit" /\ AlteringStage(e, sp, t, w, Tail(q))
        BY <1>1, <2>1, <2>8, DroppingOldStep
      <3>3. CASE q[1].op = "dropOldTable" /\ DroppingOld(e, sp, t, <<v>>, v, Tail(q))
        <4>1. q[1].op \notin {"begin", "commit", "seed"}
          BY <3>3
        <4> QED
          BY <2>4, <3>1, <3>3, <4>1
      <3>4. CASE q[1].op = "dropOldTable" /\ AlteringStage(e, sp, t, v, Tail(q))
        <4>1. v.table = w.table
          BY <1>1, <3>4, OldDropped
        <4> QED
          BY <1>5, <3>4, <4>1, KeepsItself
      <3>5. CASE q[1].op = "commit" /\ AlteringStage(e, sp, t, w, Tail(q))
        <4>1. t1 = w.table /\ x1 = <<>> /\ w1 = View(w.table)
          BY <3>5
        <4>2. AlteringStage(e, sp, t1, w1, Tail(q)) /\ TableShape(e, t1) /\ IsView(w1)
          BY <3>5, <4>1, Committed, ViewIs
        <4>3. Keeps(sp, t, t1)
          BY <3>5, <4>1 DEF AlteringStage, Holds
        <4> QED
          BY <4>2, <4>3 DEF Deploying
      <3> QED
        BY <3>2, <3>3, <3>4, <3>5
    <2> QED
      BY <1>9, <2>3, <2>5, <2>6, <2>7, <2>8 DEF CopyingStage
  <1> QED
    BY <1>6, <1>7, <1>8, <1>9 DEF Deploying

-----------------------------------------------------------------------------
(* The actions.                                                            *)

\* What connecting sees of a table that was just planned.
LEMMA DeploymentStarts ==
  ASSUME NEW e, NEW sp, NEW t, TableShape(e, t), NEW q, PlanShape(e, sp, t, q),
         NEW x, e = "rqlite" => x # <<>>, e = "sqlite" => x = <<>>
  PROVE  Deploying(e, sp, t, x, View(t), q)
  <1>1. IsView(View(t)) /\ View(t).table = t /\ Holds(e, sp, t, t)
    BY ViewIs, KeepsItself DEF Holds
  <1>2. CASE Each(e, sp, q) /\ (t.exists \/ q = <<>>)
    BY <1>1, <1>2 DEF Deploying, AlteringStage, PlanShape
  <1>3. CASE Creating(e, sp, q) /\ ~t.exists
    BY <1>1, <1>3 DEF Deploying, CreatingStage, PlanShape
  <1>4. CASE q = <<[op |-> "dropTable", arg |-> ""]>> /\ sp.isDeleted
    BY <1>1, <1>4, Zenon DEF Deploying, DroppingStage
  <1>5. CASE e = "sqlite" /\ Copying(e, sp, q, 3) /\ sp.hasSchema
    BY <1>1, <1>5 DEF Deploying, CopyingStage, StartingCopy, PlanShape
  <1>6. CASE e = "rqlite" /\ Copying(e, sp, q, 2) /\ sp.hasSchema
    BY <1>1, <1>6 DEF Deploying, CopyingStage, RenamingOld, PlanShape
  <1> QED
    BY <1>2, <1>3, <1>4, <1>5, <1>6, Zenon DEF PlanShape

LEMMA DeployingSequence ==
  ASSUME NEW e, NEW sp, NEW t, NEW x, NEW w, NEW q, Deploying(e, sp, t, x, w, q)
  PROVE  IsSequence(q)
  <1>1. CASE AlteringStage(e, sp, t, w, q)
    BY <1>1 DEF AlteringStage, Each
  <1>2. CASE CreatingStage(e, sp, t, w, q)
    BY <1>2 DEF CreatingStage, Creating
  <1>3. CASE DroppingStage(e, sp, w, q)
    BY <1>3, Literals, Zenon DEF DroppingStage
  <1>4. CASE CopyingStage(e, sp, t, x, w, q)
    BY <1>4, Zenon DEF CopyingStage, StartingCopy, RenamingOld, MakingNew, CopyingRows, DroppingOld, Copying, CopyEnd
  <1> QED
    BY <1>1, <1>2, <1>3, <1>4 DEF Deploying

\* When nothing is left to run the table is as the spec's plan leaves it.
LEMMA DeploymentEnds ==
  ASSUME NEW e, NEW sp, NEW t, NEW x, NEW w, Deploying(e, sp, t, x, w, <<>>)
  PROVE  /\ TableShape(e, w.table) /\ Keeps(sp, t, w.table)
         /\ SeedsDue(e, sp) => w.table.seeds > 0
  <1> DEFINE q == <<>>
  <1>1. CASE AlteringStage(e, sp, t, w, q)
    <2>1. ~Seeded(<<>>)
      BY Literals DEF Seeded
    <2> QED
      BY <1>1, <2>1 DEF AlteringStage, Holds
  <1>2. ~CreatingStage(e, sp, t, w, q)
    BY DEF CreatingStage, Creating
  <1>3. ~DroppingStage(e, sp, w, q)
    <2>1. \A a : <<>> # <<a>>
      OBVIOUS
    <2> QED
      BY <2>1, Zenon DEF DroppingStage
  <1>4. ~CopyingStage(e, sp, t, x, w, q)
    <2>1. Len(q) = 0
      OBVIOUS
    <2>2. \A k \in 0..3 : ~Copying(e, sp, q, k)
      BY CopyTail
    <2>3. \A k \in 1..2 : ~CopyEnd(e, sp, q, k)
      BY CopyEndTail
    <2>4. ~StartingCopy(e, sp, t, x, w, q) /\ ~RenamingOld(e, sp, t, x, w, q) /\ ~MakingNew(e, sp, t, x, w, q)
            /\ ~CopyingRows(e, sp, t, x, w, q)
      BY <2>2 DEF StartingCopy, RenamingOld, MakingNew, CopyingRows
    <2>5. ~DroppingOld(e, sp, t, x, w, q)
      BY <2>3 DEF DroppingOld
    <2> QED
      BY <2>4, <2>5 DEF CopyingStage
  <1> QED
    BY <1>1, <1>2, <1>3, <1>4 DEF Deploying

\* The application writes outside transactions, before or between statements.
LEMMA WrittenBetween ==
  ASSUME NEW e, NEW sp, NEW t, t.exists, NEW q, Deploying(e, sp, t, <<>>, View(t), q),
         NEW u, TableShape(e, u), u.exists, u.seeds = t.seeds
  PROVE  Deploying(e, sp, u, <<>>, View(u), q)
  <1>1. /\ View(t).table = t /\ IsView(View(u)) /\ View(u).table = u /\ Holds(e, sp, u, u)
    BY ViewIs, KeepsItself DEF Holds
  <1>2. CASE AlteringStage(e, sp, t, View(t), q)
    BY <1>1, <1>2 DEF Deploying, AlteringStage
  <1>3. ~CreatingStage(e, sp, t, View(t), q)
    BY <1>1 DEF CreatingStage
  <1>4. CASE DroppingStage(e, sp, View(t), q)
    BY <1>1, <1>4, Zenon DEF Deploying, DroppingStage
  <1>5. CASE CopyingStage(e, sp, t, <<>>, View(t), q)
    <2>1. StartingCopy(e, sp, t, <<>>, View(t), q)
      BY <1>5 DEF CopyingStage, RenamingOld, MakingNew, CopyingRows, DroppingOld
    <2>2. StartingCopy(e, sp, u, <<>>, View(u), q)
      BY <1>1, <2>1 DEF StartingCopy
    <2> QED
      BY <1>1, <1>5, <2>2 DEF Deploying, CopyingStage
  <1> QED
    BY <1>2, <1>3, <1>4, <1>5 DEF Deploying

\* The application's rows have values for columns only.
LEMMA Written ==
  ASSUME TableShape(engine, table), NEW given \in {ColumnNames(table), Range(table.primaryKey)}, NEW nulled,
         AppWrite(given, nulled)
  PROVE  /\ TableShape(engine, table') /\ table.exists /\ table'.exists /\ table'.seeds = table.seeds
         /\ Keeps(spec, table, table')
  <1> DEFINE unset == {i \in DOMAIN table.columns : table.columns[i].name \notin given \cup nulled}
             defaulted == {table.columns[i].name : i \in {i \in unset : table.columns[i].default # NoValue}}
             filled == table.filled \cup given \cup defaulted
             nulls == table.nulls \cup (ColumnNames(table) \ (given \cup defaulted))
             t == table  u == table'
  <1>1. t.exists /\ u = [t EXCEPT !.filled = t.filled \cup given \cup defaulted,
                                  !.nulls = t.nulls \cup (ColumnNames(t) \ (given \cup defaulted))]
    BY DEF AppWrite
  <1>2. defaulted \subseteq NamesOf(t.columns) /\ given \subseteq NamesOf(t.columns)
    BY DEF NamesOf, ColumnNames, TableShape
  <1>3. IsTable(t) /\ ColumnNames(t) = NamesOf(t.columns) /\ t.filled \cup t.nulls \subseteq NamesOf(t.columns)
    BY DEF TableShape, ColumnNames
  <1>4. filled \cup nulls \subseteq NamesOf(t.columns) /\ t.filled \subseteq filled
    <2> HIDE DEF defaulted
    <2> QED
      BY <1>2, <1>3
  <1>5. u = [t EXCEPT !.filled = filled, !.nulls = nulls]
    BY <1>1
  <1>6. TableShape(engine, t)
    OBVIOUS
  <1> HIDE DEF filled, nulls, t, u
  <1>7. /\ DOMAIN u = DOMAIN t /\ u.filled = filled /\ u.nulls = nulls /\ u.policies = t.policies
        /\ u.seeds = t.seeds /\ u.columns = t.columns /\ u.primaryKey = t.primaryKey /\ u.exists = t.exists
        /\ u.foreignKeys = t.foreignKeys /\ u.indexes = t.indexes
        /\ u.checks = t.checks /\ u.exclusions = t.exclusions /\ u.triggers = t.triggers
    BY <1>3, <1>5, TableFields
  <1>8. IsTable(u)
    BY <1>3, <1>7 DEF IsTable
  <1>9. TableShape(engine, u)
    BY <1>1, <1>4, <1>6, <1>7, <1>8 DEF TableShape
  <1>10. Keeps(spec, t, u)
    BY <1>4, <1>7 DEF Keeps
  <1> QED
    BY <1>1, <1>7, <1>9, <1>10 DEF t, u

LEMMA SpecIs ==
  ASSUME engine \in Engines, spec \in Specs(engine)
  PROVE  IsSpec(spec) /\ engine \in {"postgres", "timescaledb", "mysql", "sqlite", "rqlite", "cassandra"}
  BY EnginesAssumption, SpecsAssumption

LEMMA PlanInvInit ==
  ASSUME Init
  PROVE  PlanInv
  <1>1. engine \in Engines /\ spec \in Specs(engine) /\ table = NoTable /\ session = <<>> /\ phase = "idle"
    BY DEF Init
  <1>2. TableShape(engine, table)
    BY <1>1, NoTableShape
  <1> QED
    BY <1>1, <1>2 DEF PlanInv

\* Every step keeps the invariant, and what the spec keeps of the table.
LEMMA PlanInvStep ==
  ASSUME PlanInv, [Next]_vars
  PROVE  PlanInv' /\ Keeps(spec, table, table')
  <1>0. /\ engine \in Engines /\ spec \in Specs(engine) /\ TableShape(engine, table)
        /\ phase \in {"idle", "planned", "applying", "applied", "refused", "failed"}
        /\ phase # "applying" => session = <<>>
        /\ phase = "planned" => PlanShape(engine, spec, table, statements)
        /\ phase = "applying" => Deploying(engine, spec, table, session, Seen, statements)
        /\ phase = "applied" /\ SeedsDue(engine, spec) => table.seeds > 0
    BY DEF PlanInv
  <1>1. CASE Plan
    <2> DEFINE result == PlanTableSchema(engine, spec, table)
    <2>1. /\ phase = "idle" /\ statements' = result.statements
          /\ phase' = (IF result.error THEN "refused" ELSE "planned")
          /\ engine' = engine /\ spec' = spec /\ table' = table /\ session' = session
      BY <1>1 DEF Plan
    <2>2. Shaped(engine, spec, table, result)
      BY <1>0, SpecIs, PlansAreShaped DEF TableShape
    <2> HIDE DEF result
    <2>3. phase' = "planned" => PlanShape(engine, spec, table, statements')
      BY <2>1, <2>2 DEF Shaped
    <2>4. phase' \in {"refused", "planned"}
      BY <2>1
    <2>5. PlanInv'
      BY <1>0, <2>1, <2>3, <2>4 DEF PlanInv
    <2> QED
      BY <2>1, <2>5, KeepsItself
  <1>2. CASE StartDeploy
    <2>1. /\ phase = "planned" /\ phase' = "applying"
          /\ session' = (IF engine = "rqlite" THEN <<View(table)>> ELSE <<>>)
          /\ engine' = engine /\ spec' = spec /\ table' = table /\ statements' = statements
      BY <1>2 DEF StartDeploy
    <2>2. /\ engine = "rqlite" => session' # <<>> /\ session'[1] = View(table)
          /\ engine # "rqlite" => session' = <<>>
      BY <2>1
    <2>3. Seen' = View(table)
      BY <2>1, <2>2 DEF Seen
    <2>4. Deploying(engine, spec, table, session', Seen', statements)
      BY <1>0, <2>1, <2>2, <2>3, DeploymentStarts
    <2>5. PlanInv'
      BY <1>0, <2>1, <2>4 DEF PlanInv
    <2> QED
      BY <2>1, <2>5, KeepsItself
  <1>3. CASE ExecuteStatement
    <2> DEFINE st == Head(statements)  w == Outcome(engine, Seen, st)
    <2>1. /\ phase = "applying" /\ statements # <<>> /\ Runs(engine, Seen, st)
          /\ statements' = Tail(statements)
          /\ engine' = engine /\ spec' = spec /\ phase' = phase
      BY <1>3 DEF ExecuteStatement
    <2>3. /\ st.op = "begin" => table' = table /\ session' = <<View(table)>>
          /\ st.op = "commit" => table' = Seen.table /\ session' = <<>>
          /\ st.op \notin {"begin", "commit"} /\ session = <<>> => table' = w.table /\ session' = <<>>
          /\ st.op \notin {"begin", "commit"} /\ session # <<>> => table' = table /\ session' = <<w>>
      BY <1>3, Zenon DEF ExecuteStatement
    <2>4. Deploying(engine, spec, table, session, Seen, statements)
      BY <1>0, <2>1
    <2>5. st = statements[1]
      BY <2>1, <2>4, DeployingSequence, Tailed
    <2>6. session = <<>> => Seen = View(table)
      BY DEF Seen
    <2>7. (session' = <<>> => Seen' = View(table')) /\ (session' # <<>> => Seen' = session'[1])
      BY DEF Seen
    <2> HIDE DEF st, w
    <2>8. w = Outcome(engine, Seen, statements[1])
      BY <2>5 DEF w
    <2>9. /\ TableShape(engine, table') /\ Keeps(spec, table, table')
          /\ Deploying(engine, spec, table', session', Seen', Tail(statements))
      BY <1>0, <2>1, <2>3, <2>4, <2>5, <2>6, <2>7, <2>8, StatementRun
    <2>10. PlanInv'
      BY <1>0, <2>1, <2>9 DEF PlanInv
    <2> QED
      BY <2>9, <2>10
  <1>4. CASE StatementFails
    <2>1. /\ phase' = "failed" /\ session' = <<>>
          /\ engine' = engine /\ spec' = spec /\ table' = table
      BY <1>4 DEF StatementFails
    <2>2. PlanInv'
      BY <1>0, <2>1 DEF PlanInv
    <2> QED
      BY <2>1, <2>2, KeepsItself
  <1>5. CASE FinishDeploy
    <2>1. /\ phase = "applying" /\ statements = <<>> /\ phase' = "applied"
          /\ table' = Seen.table /\ session' = <<>> /\ engine' = engine /\ spec' = spec
      BY <1>5 DEF FinishDeploy
    <2>2. /\ TableShape(engine, table') /\ Keeps(spec, table, table')
          /\ SeedsDue(engine, spec) => table'.seeds > 0
      BY <1>0, <2>1, DeploymentEnds
    <2>3. PlanInv'
      BY <1>0, <2>1, <2>2 DEF PlanInv
    <2> QED
      BY <2>2, <2>3
  <1>6. CASE Interrupt
    <2>1. /\ phase' = "idle" /\ session' = <<>>
          /\ engine' = engine /\ spec' = spec /\ table' = table
      BY <1>6 DEF Interrupt
    <2>2. PlanInv'
      BY <1>0, <2>1 DEF PlanInv
    <2> QED
      BY <2>1, <2>2, KeepsItself
  <1>7. CASE \E s \in Specs(engine) : Edit(s)
    <2>1. PICK s \in Specs(engine) : Edit(s)
      BY <1>7
    <2>2. /\ phase \in {"applied", "refused", "failed"} /\ spec' = s /\ phase' = "idle"
          /\ engine' = engine /\ table' = table /\ session' = session
      BY <2>1 DEF Edit
    <2>3. PlanInv'
      BY <1>0, <2>2 DEF PlanInv
    <2> QED
      BY <2>2, <2>3, KeepsItself
  <1>8. CASE \E given \in {ColumnNames(table), Range(table.primaryKey)} :
               \E nulled \in {{}, Nullable(table) \ given} : AppWrite(given, nulled)
    <2>0. PICK given \in {ColumnNames(table), Range(table.primaryKey)} :
            \E nulled \in {{}, Nullable(table) \ given} : AppWrite(given, nulled)
      BY <1>8
    <2>1. PICK nulled \in {{}, Nullable(table) \ given} : AppWrite(given, nulled)
      BY <2>0
    <2>2. /\ session = <<>> /\ engine' = engine /\ spec' = spec /\ session' = session
          /\ statements' = statements /\ phase' = phase
      BY <2>1 DEF AppWrite
    <2>3. /\ TableShape(engine, table') /\ table.exists /\ table'.exists /\ table'.seeds = table.seeds
          /\ Keeps(spec, table, table')
      BY <1>0, <2>1, Written
    <2>4. Seen = View(table) /\ Seen' = View(table')
      BY <2>2 DEF Seen
    <2>5. phase = "applying" => Deploying(engine, spec, table', session', Seen', statements)
      BY <1>0, <2>2, <2>3, <2>4, WrittenBetween
    <2>6. phase = "planned" => PlanShape(engine, spec, table', statements)
      BY <1>0, <2>3, Zenon DEF PlanShape
    <2>7. PlanInv'
      BY <1>0, <2>2, <2>3, <2>5, <2>6 DEF PlanInv
    <2> QED
      BY <2>3, <2>7
  <1>9. CASE UNCHANGED vars
    <2>1. /\ engine' = engine /\ spec' = spec /\ table' = table /\ session' = session
          /\ statements' = statements /\ phase' = phase
      BY <1>9 DEF vars
    <2>2. Seen' = Seen
      BY <2>1 DEF Seen
    <2>3. PlanInv'
      BY <1>0, <2>1, <2>2 DEF PlanInv
    <2> QED
      BY <2>1, <2>3, KeepsItself
  <1> QED
    BY <1>1, <1>2, <1>3, <1>4, <1>5, <1>6, <1>7, <1>8, <1>9, Zenon DEF Next

-----------------------------------------------------------------------------
(* The theorems.                                                           *)

\* Whatever the engines, the specs and the number of edits, writes and
\* interrupts: the table is one the planners can read, a plan has one of the
\* shapes they make, and a deployment is in one of the stages of such a plan.
THEOREM DeploymentStages == Spec => []PlanInv
  <1>1. Init => PlanInv
    BY PlanInvInit
  <1>2. PlanInv /\ [Next]_vars => PlanInv'
    BY PlanInvStep
  <1> QED
    BY <1>1, <1>2, PTL DEF Spec

\* Rows have values for columns only, and a transaction is open only while
\* statements run.
THEOREM PlanningTyped == Spec => []TypeOK
  <1>1. PlanInv => TypeOK
    BY DEF PlanInv, TypeOK, TableShape, ColumnNames
  <1> QED
    BY <1>1, DeploymentStages, PTL

\* The seed rows of a spec that is applied are in the table, also after a copy,
\* an interrupt or a write between the statements.
THEOREM SeedsAlwaysArrive == Spec => []SeedsArrive
  <1>1. PlanInv => SeedsArrive
    BY DEF PlanInv, SeedsArrive, SeedsDue
  <1> QED
    BY <1>1, DeploymentStages, PTL

\* No step of any deployment loses the values of a column the spec keeps.
THEOREM RowsAlwaysKept == Spec => RowsKept
  <1>1. PlanInv /\ [Next]_vars =>
          [~spec.isDeleted => \A n \in table.filled : ~spec.hasSchema \/ HasName(spec.columns, n) => n \in table'.filled]_vars
    BY PlanInvStep DEF Keeps, Kept
  <1> QED
    BY <1>1, DeploymentStages, PTL DEF Spec, RowsKept

\* No step of any deployment changes the policies of a table whose spec says
\* nothing of row-level security.
THEOREM UnmanagedPoliciesAlwaysKept == Spec => UnmanagedPoliciesKept
  <1>1. PlanInv /\ [Next]_vars =>
          [spec.rls = NoValue /\ ~spec.isDeleted => table'.policies = table.policies]_vars
    BY PlanInvStep DEF Keeps
  <1> QED
    BY <1>1, DeploymentStages, PTL DEF Spec, UnmanagedPoliciesKept
=============================================================================
