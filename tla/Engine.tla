------------------------------ MODULE Engine ------------------------------
(***************************************************************************)
(* External: the databases the plugins' statements run on, as far as the   *)
(* statements need them.  w is what a session sees: the table, and the old *)
(* table while a copy is being made.  A statement runs or fails as a       *)
(* whole.  Rows are known by the columns that hold values (filled), the    *)
(* columns that hold a null (nulls), and how often the seed rows are there.*)
(***************************************************************************)
EXTENDS SchemaTypes

PostgresLike == {"postgres", "timescaledb"}
SqliteLike == {"sqlite", "rqlite"}

HasRows(t) == t.filled # {} \/ t.seeds > 0
ColumnNames(t) == NamesOf(t.columns)
ColumnOf(t, n) == ByName(t.columns, n)

(* What a server keeps of a column it is given.                            *)
Stored(engine, c) ==
  LET serial == engine \in PostgresLike /\ c.type = <<"serial", "">>
  IN [c EXCEPT !.type = CASE serial -> <<"integer", "">>
                          [] engine = "cassandra" /\ c.type = <<"varchar", "">> -> <<"text", "">>
                          [] OTHER -> @,
               !.default = IF serial THEN <<Expr("nextval")>> ELSE @,
               !.notNull = IF serial \/ @ = "true" THEN "true" ELSE "false"]

(* The properties a cassandra table has when nothing is said of them.      *)
ServerProperties ==
  [comment |-> "", bloom_filter_fp_chance |-> "0.01", crc_check_chance |-> "1",
   dclocal_read_repair_chance |-> "0.1", caching |-> "all keys", compaction |-> "tiered in full",
   compression |-> "lz4 in full"]

(* What is kept of a property's value: a number is the same however it is  *)
(* written, and the options a map leaves out are added to it.              *)
KeptValue(value) ==
  CASE value = "0.010000" -> "0.01"
    [] value = "0.100000" -> "0.1"
    [] value = "1.000000" -> "1"
    [] value = "tiered" -> "tiered in full"
    [] value = "lz4" -> "lz4 in full"
    [] OTHER -> value

(* A key's columns hold no null, except in sqlite.                         *)
WithKey(engine, t, key) ==
  [t EXCEPT !.primaryKey = key,
            !.columns = [i \in DOMAIN @ |->
                           IF @[i].name \in Range(key) /\ engine \notin SqliteLike
                           THEN [@[i] EXCEPT !.notNull = "true"] ELSE @[i]]]

StoredTable(engine, t) ==
  WithKey(engine,
    [t EXCEPT !.columns = [i \in DOMAIN @ |-> Stored(engine, @[i])],
              !.properties = IF engine # "cassandra" THEN NoValue
                             ELSE LET given == IF @ = NoValue THEN ServerProperties ELSE @[1]
                                  IN <<[p \in DOMAIN ServerProperties \cup DOMAIN given |->
                                          KeptValue(IF p \in DOMAIN given THEN given[p] ELSE ServerProperties[p])]>>],
    t.primaryKey)

Replace(seq, e) == [i \in DOMAIN seq |-> IF seq[i].name = e.name THEN e ELSE seq[i]]

Uses(objects, n) == AnySeq(objects, LAMBDA o : n \in Range(o.cols))

(* The table without a column; its keys and indexes go with it.            *)
DropColumn(t, n) ==
  [t EXCEPT !.columns = WithoutName(@, n),
            !.primaryKey = IF n \in Range(@) THEN <<>> ELSE @,
            !.foreignKeys = Where(@, LAMBDA o : n \notin Range(o.cols)),
            !.indexes = Where(@, LAMBDA o : n \notin Range(o.cols)),
            !.filled = @ \ {n}, !.nulls = @ \ {n}]

(* A new column has its default in every row, or a null.                   *)
AddColumn(engine, t, c) ==
  [t EXCEPT !.columns = Append(@, Stored(engine, c)),
            !.filled = IF c.default # NoValue /\ HasRows(t) THEN @ \cup {c.name} ELSE @,
            !.nulls = IF c.default = NoValue /\ c.notNull # "true" /\ HasRows(t) THEN @ \cup {c.name} ELSE @]

ChangedColumn(c, change) ==
  [c EXCEPT !.type = IF change.type = NoValue THEN @ ELSE change.type[1],
            !.isArray = @ \/ change.toArray,
            !.default = IF change.default = NoValue THEN @ ELSE change.default[1],
            !.notNull = IF change.dropNotNull THEN "false" ELSE @]

(* Dropping a constraint by name, whatever it is.                          *)
DropConstraint(t, n) ==
  [t EXCEPT !.foreignKeys = WithoutName(@, n), !.checks = WithoutName(@, n), !.exclusions = WithoutName(@, n),
            !.indexes = WithoutName(@, n), !.primaryKey = IF n = GenerateKeyName THEN <<>> ELSE @]

ConstraintNames(t) ==
  NamesOf(t.foreignKeys) \cup NamesOf(t.checks) \cup NamesOf(t.exclusions)
    \cup {i.name : i \in {t.indexes[k] : k \in {k \in DOMAIN t.indexes : t.indexes[k].constraint}}}
    \cup (IF t.primaryKey # <<>> THEN {GenerateKeyName} ELSE {})

Keyed(t) == t.primaryKey # <<>> \/ AnySeq(t.indexes, LAMBDA i : i.unique)

-----------------------------------------------------------------------------
(* Whether a statement runs.                                               *)
Runs(engine, w, s) ==
  LET t == w.table a == s.arg IN
  CASE s.op = "createTable" -> ~t.exists /\ Range(a.primaryKey) \subseteq ColumnNames(a)
    [] s.op \in {"addColumn"} ->
         /\ a.name \notin ColumnNames(t)
         /\ a.notNull = "true" /\ a.default = NoValue =>
              CASE engine \in SqliteLike -> FALSE
                [] engine \in PostgresLike -> ~HasRows(t)
                [] OTHER -> TRUE
    [] s.op = "dropColumn" ->
         /\ a \in ColumnNames(t)
         /\ CASE engine \in SqliteLike -> a \notin Range(t.primaryKey) /\ ~Uses(t.indexes, a) /\ ~Uses(t.foreignKeys, a)
              [] engine = "mysql" -> ~Uses(t.foreignKeys, a)
              [] engine = "cassandra" -> a \notin Range(t.primaryKey)
              [] OTHER -> TRUE
    [] s.op = "setDefault" -> a.name \in ColumnNames(t)
    [] s.op = "setNotNull" -> a \in ColumnNames(t) \ t.nulls
    [] s.op = "modifyColumn" -> a.name \in ColumnNames(t) /\ (a.notNull = "true" => a.name \notin t.nulls)
    [] s.op = "alterColumn" -> a.name \in ColumnNames(t) /\ (a.dropNotNull => a.name \notin Range(t.primaryKey))
    [] s.op = "alterType" -> FALSE
    [] s.op = "dropConstraint" -> a \in ConstraintNames(t)
    [] s.op = "dropForeignKey" -> a \in NamesOf(t.foreignKeys)
    [] s.op = "dropIndex" -> a \in NamesOf(t.indexes)
    [] s.op = "dropIndexIfExists" -> a \notin ConstraintNames(t)
    [] s.op = "dropPrimaryKey" -> t.primaryKey # <<>>
    [] s.op = "addPrimaryKey" -> t.primaryKey = <<>> /\ Range(a) \subseteq ColumnNames(t) \ t.nulls
    [] s.op \in {"addForeignKey", "addCheck", "addExclusion"} -> a.name \notin ConstraintNames(t)
    [] s.op = "addIndex" -> a.name \notin NamesOf(t.indexes) \cup NamesOf(w.old.indexes)
    [] s.op = "createTrigger" -> a.name \notin NamesOf(t.triggers)
    [] s.op = "createPolicy" -> a.name \notin NamesOf(t.policies)
    [] s.op = "seed" ->
         CASE a = "none" -> ~(Keyed(t) /\ t.seeds > 0)
           [] a = "key" -> engine \in PostgresLike => t.primaryKey # <<>>
           [] OTHER -> FALSE
    [] s.op = "copyRows" ->
         /\ a \subseteq ColumnNames(w.old)
         /\ \A n \in a : ColumnOf(t, n).notNull = "true" => n \notin w.old.nulls
    [] s.op = "createHypertable" -> HasRows(t) => a.migrateData
    [] s.op = "alterProperties" -> \A p \in a : p.as = p.property /\ (p.property = "comment" \/ p.value \notin {"", "null"})
    [] OTHER -> TRUE

(* What it leaves.                                                         *)
After(engine, t, s) ==
  LET a == s.arg IN
  CASE s.op = "createTable" -> StoredTable(engine, a)
    [] s.op = "dropTable" -> NoTable
    [] s.op = "addColumn" -> AddColumn(engine, t, a)
    [] s.op = "dropColumn" -> DropColumn(t, a)
    [] s.op = "setDefault" ->
         [t EXCEPT !.columns = Replace(@, [ColumnOf(t, a.name) EXCEPT !.default = a.default])]
    [] s.op = "fillNulls" -> [t EXCEPT !.nulls = @ \ {a}, !.filled = IF a \in t.nulls THEN @ \cup {a} ELSE @]
    [] s.op = "setNotNull" -> [t EXCEPT !.columns = Replace(@, [ColumnOf(t, a) EXCEPT !.notNull = "true"])]
    [] s.op = "modifyColumn" -> [t EXCEPT !.columns = Replace(@, Stored(engine, a))]
    [] s.op = "alterColumn" -> [t EXCEPT !.columns = Replace(@, ChangedColumn(ColumnOf(t, a.name), a))]
    [] s.op = "dropConstraint" -> DropConstraint(t, a)
    [] s.op = "dropForeignKey" -> [t EXCEPT !.foreignKeys = WithoutName(@, a)]
    [] s.op \in {"dropIndex", "dropIndexIfExists"} -> [t EXCEPT !.indexes = WithoutName(@, a)]
    [] s.op = "dropPrimaryKey" -> [t EXCEPT !.primaryKey = <<>>]
    [] s.op = "addPrimaryKey" -> WithKey(engine, t, a)
    [] s.op = "addForeignKey" -> [t EXCEPT !.foreignKeys = Append(@, a)]
    [] s.op = "addCheck" -> [t EXCEPT !.checks = Append(@, a)]
    [] s.op = "addExclusion" -> [t EXCEPT !.exclusions = Append(@, a)]
    [] s.op = "addIndex" -> [t EXCEPT !.indexes = Append(@, a)]
    [] s.op = "createTrigger" -> [t EXCEPT !.triggers = Append(@, a)]
    [] s.op = "dropTriggerIfExists" -> [t EXCEPT !.triggers = WithoutName(@, a)]
    [] s.op = "createPolicy" -> [t EXCEPT !.policies = Append(@, a)]
    [] s.op = "dropPolicyIfExists" -> [t EXCEPT !.policies = WithoutName(@, a)]
    [] s.op = "rowSecurity" -> [t EXCEPT !.rls.enable = a]
    [] s.op = "forceSecurity" -> [t EXCEPT !.rls.force = a]
    [] s.op = "convertTo" -> [t EXCEPT !.charset = a[1], !.collation = a[2], !.columns = [i \in DOMAIN @ |-> [@[i] EXCEPT !.charset = "", !.collation = ""]]]
    [] s.op = "createHypertable" ->
         [t EXCEPT !.hypertable = <<a>>, !.indexes = Append(@, Index(a.time \o <<"idx">>, a.time, FALSE))]
    [] s.op = "alterProperties" ->
         [t EXCEPT !.properties = <<[p \in DOMAIN @[1] \cup {x.property : x \in a} |->
            IF \E x \in a : x.property = p THEN KeptValue((CHOOSE x \in a : x.property = p).value) ELSE @[1][p]]>>]
    [] s.op = "seed" -> [t EXCEPT !.seeds = IF Keyed(t) THEN 1 ELSE IF @ < 2 THEN @ + 1 ELSE @]
    [] OTHER -> t

(* The statements of a copy are about two tables.                          *)
Outcome(engine, w, s) ==
  CASE s.op = "renameTable" -> [w EXCEPT !.old = w.table, !.table = NoTable]
    [] s.op = "copyRows" ->
         [w EXCEPT !.table.filled = w.old.filled \cap s.arg, !.table.nulls = w.old.nulls \cap s.arg,
                   !.table.seeds = w.old.seeds]
    [] s.op = "dropOldTable" -> [w EXCEPT !.old = NoTable]
    [] OTHER -> [w EXCEPT !.table = After(engine, w.table, s)]

View(t) == [table |-> t, old |-> NoTable]
=============================================================================
