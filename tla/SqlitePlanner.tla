--------------------------- MODULE SqlitePlanner ---------------------------
(***************************************************************************)
(* plugins/sqlite/lib: what sqlite can alter is altered; everything else   *)
(* is a new table the rows are copied to.                                  *)
(***************************************************************************)
EXTENDS SchemaTypes

(* A type is taken as it is written.                                       *)
schemaColumnToColumn(c) == c

columnsMatch(col1, col2) ==
  /\ col1.type = col2.type
  /\ Canonical(col1.default) = Canonical(col2.default)
  /\ BoolsEqual(col1.notNull, col2.notNull)
  /\ BoolsEqual(col1.autoIncrement, col2.autoIncrement)

(* pragma_table_info has the quotes of a default and nothing of            *)
(* autoincrement.                                                          *)
ExistingColumn(c) == [c EXCEPT !.autoIncrement = "unset", !.default = InCatalogAll(@)]

(* The query selects the words 'from', 'table', 'to' and 'on_delete', not  *)
(* the columns of those names.                                             *)
ListTableForeignKeys(table) ==
  [i \in DOMAIN table.foreignKeys |->
     ForeignKey(NoName, [j \in DOMAIN table.foreignKeys[i].cols |-> "from"], "table", "on_delete")]

IndexIsAConstraint(idx) == idx.constraint

(* A changed key, foreign key or column, and a unique constraint that is   *)
(* changed or gone; new and removed columns can be altered.                *)
checkTableNeedsRecreate(spec, table) ==
  \/ ~SameColumns(table.primaryKey, spec.primaryKey)
  \/ Len(table.foreignKeys) # Len(spec.foreignKeys)
  \/ AnySeq(spec.foreignKeys,
            LAMBDA d : ~AnySeq(ListTableForeignKeys(table), LAMBDA fk : ForeignKeyEquals(fk, d)))
  \/ AnySeq(table.columns,
            LAMBDA c : /\ HasName(spec.columns, c.name)
                       /\ ~columnsMatch(schemaColumnToColumn(ByName(spec.columns, c.name)), ExistingColumn(c)))
  \/ AnySeq(table.indexes,
            LAMBDA c : /\ IndexIsAConstraint(c)
                       /\ ~AnySeq(spec.indexes, LAMBDA d : IndexEquals(c, NamedIndex(d))))

RemoveIndexStatement(idx) ==
  Statement(IF idx.unique THEN "dropIndexIfExists" ELSE "dropIndex", idx.name)
AddIndexStatement(idx) == Statement("addIndex", NamedIndex(idx))

BuildAlterIndexStatements(spec, table) ==
     FlatMap(LAMBDA d :
               IF AnySeq(table.indexes, LAMBDA c : IndexEquals(c, NamedIndex(d))) THEN <<>>
               ELSE (IF HasName(table.indexes, NamedIndex(d).name)
                     THEN <<RemoveIndexStatement(ByName(table.indexes, NamedIndex(d).name))>> ELSE <<>>)
                    \o <<AddIndexStatement(d)>>, spec.indexes)
  \o FlatMap(LAMBDA c : IF AnySeq(spec.indexes, LAMBDA d : NamedIndex(d).name = c.name) THEN <<>>
                        ELSE <<RemoveIndexStatement(c)>>, table.indexes)

CreateTableStatements(spec) ==
     <<Statement("createTable",
         [NoTable EXCEPT !.exists = TRUE,
            !.columns = [i \in DOMAIN spec.columns |-> schemaColumnToColumn(spec.columns[i])],
            !.primaryKey = spec.primaryKey,
            !.foreignKeys = [i \in DOMAIN spec.foreignKeys |->
                               [spec.foreignKeys[i] EXCEPT !.name = GenerateFKName(spec.foreignKeys[i])]]])>>
  \o [i \in DOMAIN spec.indexes |-> AddIndexStatement(spec.indexes[i])]

\* Mutant: the old table goes before its rows are copied.
CopyTableDropFirst(spec) ==
  <<Statement("renameTable", ""), Statement("dropOldTable", "")>> \o CreateTableStatements(spec)

(* The old table under another name, the new one, every column of the spec *)
(* copied from the old table, and the old table dropped.                   *)
CopyTableStatements(spec) ==
     <<Statement("renameTable", "")>>
  \o CreateTableStatements(spec)
  \o <<Statement("copyRows", {spec.columns[i].name : i \in DOMAIN spec.columns}),
       Statement("dropOldTable", "")>>

RecreateTableStatements(spec) ==
  <<Statement("begin", "")>> \o CopyTableStatements(spec) \o <<Statement("commit", "")>>

InsertColumnStatement(c) == Statement("addColumn", schemaColumnToColumn(c))
DropColumnStatement(n) == Statement("dropColumn", n)

AlterTableStatements(spec, table) ==
     FlatMap(LAMBDA c : IF HasName(table.columns, c.name) THEN <<>> ELSE <<InsertColumnStatement(c)>>,
             spec.columns)
  \o BuildAlterIndexStatements(spec, table)
  \o FlatMap(LAMBDA c : IF HasName(spec.columns, c.name) THEN <<>> ELSE <<DropColumnStatement(c.name)>>,
             table.columns)

buildStatements(spec, table) ==
  IF checkTableNeedsRecreate(spec, table)
  THEN RecreateTableStatements(spec) ELSE AlterTableStatements(spec, table)

(* "replace into" replaces the row of the key it has.                      *)
SeedDataStatements(spec) == IF spec.seedData THEN <<Statement("seed", "key")>> ELSE <<>>

\* Mutant: seed rows are planned with the table's creation only.
PlanSqliteTableSeedsOnce(spec, table) ==
  Result(IF spec.isDeleted THEN (IF table.exists THEN <<Statement("dropTable", "")>> ELSE <<>>)
         ELSE IF table.exists THEN buildStatements(spec, table)
         ELSE CreateTableStatements(spec) \o SeedDataStatements(spec))

PlanSqliteTable(spec, table) ==
  Result(IF spec.isDeleted THEN (IF table.exists THEN <<Statement("dropTable", "")>> ELSE <<>>)
         ELSE (IF table.exists THEN buildStatements(spec, table) ELSE CreateTableStatements(spec))
              \o SeedDataStatements(spec))

PlanSqliteTableSeedDataOnly(spec, table) ==
  IF spec.seedData /\ ~table.exists THEN PlanError ELSE Result(SeedDataStatements(spec))
=============================================================================
