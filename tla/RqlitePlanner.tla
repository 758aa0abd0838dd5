--------------------------- MODULE RqlitePlanner ---------------------------
(***************************************************************************)
(* plugins/rqlite/lib: sqlite's planner over another connection.  What it  *)
(* does as sqlite's is said with sqlite's operators; the empty-string      *)
(* default and the transaction are its own.                                *)
(***************************************************************************)
EXTENDS SchemaTypes
SQ == INSTANCE SqlitePlanner

EmptyStringSentinel == Expr("__SCHEMAHERO_EMPTY_STRING_DEFAULT__")
EmptyString == Expr("")

schemaColumnToColumn(c) ==
  [c EXCEPT !.default = IF @ = <<EmptyStringSentinel>> THEN <<EmptyString>> ELSE @]

(* The spec as every statement below sees it.                              *)
Decoded(spec) ==
  [spec EXCEPT !.columns = [i \in DOMAIN @ |-> schemaColumnToColumn(@[i])]]

columnsMatch(col1, col2) == SQ!columnsMatch(col1, col2)
ListTableForeignKeys(table) == SQ!ListTableForeignKeys(table)
IndexIsAConstraint(idx) == SQ!IndexIsAConstraint(idx)
checkTableNeedsRecreate(spec, table) == SQ!checkTableNeedsRecreate(Decoded(spec), table)
BuildAlterIndexStatements(spec, table) == SQ!BuildAlterIndexStatements(spec, table)
CreateTableStatements(spec) == SQ!CreateTableStatements(Decoded(spec))
InsertColumnStatement(c) == SQ!InsertColumnStatement(schemaColumnToColumn(c))
DropColumnStatement(n) == SQ!DropColumnStatement(n)
SeedDataStatements(spec) == SQ!SeedDataStatements(spec)

(* No begin and no commit: rqlite runs the statements of one call as one   *)
(* transaction.                                                            *)
RecreateTableStatements(spec) == SQ!CopyTableStatements(Decoded(spec))

AlterTableStatements(spec, table) ==
     FlatMap(LAMBDA c : IF HasName(table.columns, c.name) THEN <<>> ELSE <<InsertColumnStatement(c)>>,
             spec.columns)
  \o BuildAlterIndexStatements(spec, table)
  \o FlatMap(LAMBDA c : IF HasName(spec.columns, c.name) THEN <<>> ELSE <<DropColumnStatement(c.name)>>,
             table.columns)

buildStatements(spec, table) ==
  IF checkTableNeedsRecreate(spec, table)
  THEN RecreateTableStatements(spec) ELSE AlterTableStatements(spec, table)

PlanRqliteTable(spec, table) ==
  Result(IF spec.isDeleted THEN (IF table.exists THEN <<Statement("dropTable", "")>> ELSE <<>>)
         ELSE (IF table.exists THEN buildStatements(spec, table) ELSE CreateTableStatements(spec))
              \o SeedDataStatements(spec))

PlanRqliteTableSeedDataOnly(spec, table) ==
  IF spec.seedData /\ ~table.exists THEN PlanError ELSE Result(SeedDataStatements(spec))
=============================================================================
