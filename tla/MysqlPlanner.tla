---------------------------- MODULE MysqlPlanner ----------------------------
(***************************************************************************)
(* plugins/mysql/lib: from a table's spec and the table information_schema *)
(* describes to the statements of a migration.                             *)
(***************************************************************************)
EXTENDS SchemaTypes

(* The charset and collation a database gives its tables, and how the      *)
(* server relates collations and charsets.                                 *)
DatabaseCharset == "latin1"
DefaultCollation(charset) == [latin1 |-> "latin1_ci", utf8 |-> "utf8_ci"][charset]
CharsetOf(collation) == [latin1_ci |-> "latin1", utf8_ci |-> "utf8", utf8_bin |-> "utf8"][collation]

-----------------------------------------------------------------------------
(* Column types.                                                           *)
unparameterizedColumnTypes ==
  {"date", "datetime", "timestamp", "tinyblob", "tinytext", "mediumblob", "mediumtext",
   "longblob", "longtext", "blob", "text"}

isParameterizedColumnType(t) == ~(t[1] \in unparameterizedColumnTypes /\ t[2] = "")

(* A text or blob type with the largest length of its kind has no length.  *)
unaliasUnparameterizedColumnType(t) ==
  LET full == {<<"text", "65535">>, <<"tinytext", "255">>, <<"mediumtext", "16777215">>,
               <<"longtext", "4294967295">>, <<"blob", "65535">>, <<"tinyblob", "255">>,
               <<"mediumblob", "16777215">>, <<"longblob", "4294967295">>}
  IN CASE t \in {<<"bool", "">>, <<"boolean", "">>} -> <<"tinyint", "1">>
       [] t \in full -> <<t[1], "">>
       [] OTHER -> t

unaliasParameterizedColumnType(t) ==
  LET aliases == [char |-> "character", integer |-> "int", dec |-> "decimal"]
  IN CASE t = <<"double precision", "">> -> <<"double", "">>
       [] t[1] \in DOMAIN aliases -> <<aliases[t[1]], t[2]>>
       [] OTHER -> t

Precisions == {"0", "1", "2", "3", "4", "5", "6"}

(* The width each type has when its argument is left out.                  *)
maybeParseParameterizedColumnType(t) ==
  LET widths == [varchar |-> "1", char |-> "11", tinyint |-> "1", bit |-> "1", smallint |-> "5",
                 mediumint |-> "9", int |-> "11", bigint |-> "20", decimal |-> "10, 0",
                 binary |-> "1", varbinary |-> "1"]
      base == IF t[1] = "character" THEN "char" ELSE t[1]
  IN CASE base \in DOMAIN widths -> <<base, IF t[2] = "" THEN widths[base] ELSE t[2]>>
       [] base = "json" -> <<"json", "">>
       [] OTHER -> <<base, t[2]>>

(* What no column may be declared as: an unknown type, or a time with a    *)
(* precision the parser does not know.                                     *)
UnknownType(t) ==
  /\ isParameterizedColumnType(t)
  /\ \/ t[1] \notin {"varchar", "character", "char", "datetime", "timestamp", "tinyint", "bit", "smallint",
                     "mediumint", "int", "bigint", "decimal", "float", "double", "binary", "varbinary",
                     "blob", "text", "json"}
     \/ t[1] \in {"datetime", "timestamp"} /\ t[2] \notin Precisions

Unaliased(t) == unaliasParameterizedColumnType(unaliasUnparameterizedColumnType(t))

schemaColumnToColumn(c) ==
  LET t == Unaliased(c.type)
  IN [c EXCEPT !.type = IF isParameterizedColumnType(t) THEN maybeParseParameterizedColumnType(t) ELSE t]

ExistingColumn(c) == [c EXCEPT !.type = maybeParseParameterizedColumnType(c.type)]

-----------------------------------------------------------------------------
TableCharset(table) == IF table.charset = "" THEN DatabaseCharset ELSE table.charset
TableCollation(table) ==
  IF table.collation = "" THEN DefaultCollation(TableCharset(table)) ELSE table.collation

(* A charset without a collation leaves the collation to the server; a     *)
(* collation without a charset brings its own; neither means the           *)
(* database's.                                                             *)
buildTableCharsetAndCollationStatements(spec, table) ==
  LET existing == <<TableCharset(table), TableCollation(table)>>
      database == <<DatabaseCharset, DefaultCollation(DatabaseCharset)>>
      wanted == CASE spec.collation = "" /\ spec.charset = "" -> database
                  [] spec.collation # "" /\ spec.charset = "" -> <<CharsetOf(spec.collation), spec.collation>>
                  [] OTHER -> <<spec.charset, spec.collation>>
  IN IF wanted = existing \/ (spec.collation = "" /\ spec.charset = existing[1])
     THEN <<>>
     ELSE <<Statement("convertTo", wanted)>>

(* A collation that the spec leaves out is the server's to choose.         *)
columnsMatch(existing, column, defaultCharset, defaultCollation) ==
  LET charset(c) == IF c.charset = "" THEN defaultCharset ELSE c.charset
      collation == IF existing.collation = "" THEN defaultCollation ELSE existing.collation
  IN /\ existing.type = column.type
     /\ charset(existing) = charset(column)
     /\ column.collation \in {"", collation}
     /\ existing.default = column.default
     /\ BoolsEqual(existing.notNull, column.notNull)
     /\ BoolsEqual(existing.autoIncrement, column.autoIncrement)

(* One "modify column": what it does not name falls back to what the       *)
(* server gives a new column, the charset and collation too, which are     *)
(* named only where one of them changes.                                   *)
ModifyColumn(existing, column, notNull) ==
  LET same == column.charset = existing.charset /\ column.collation = existing.collation
  IN Statement("modifyColumn", [column EXCEPT !.notNull = notNull,
                                              !.charset = IF same THEN "" ELSE @,
                                              !.collation = IF same THEN "" ELSE @])

(* The default, the rows, and then the constraint.                         *)
ddlWithNotNull(existing, column) ==
     (IF column.default # NoValue /\ existing.default # column.default
      THEN <<ModifyColumn(existing, column, existing.notNull)>> ELSE <<>>)
  \o (IF column.default # NoValue THEN <<Statement("fillNulls", column.name)>> ELSE <<>>)
  \o <<ModifyColumn(existing, column, column.notNull)>>

AlterModifyColumnStatement(existing, column) ==
  IF column.notNull = "true" /\ existing.notNull # "true"
  THEN ddlWithNotNull(existing, column)
  ELSE <<ModifyColumn(existing, column, column.notNull)>>

ensureColumnConstraintsNotNullTrue(column) == [column EXCEPT !.notNull = "true"]

AlterColumnStatements(spec, existing, defaultCharset, defaultCollation) ==
  IF ~HasName(spec.columns, existing.name)
  THEN <<Statement("dropColumn", existing.name)>>
  ELSE LET desired == schemaColumnToColumn(ByName(spec.columns, existing.name))
           column == IF desired.name \in Range(spec.primaryKey)
                     THEN ensureColumnConstraintsNotNullTrue(desired) ELSE desired
       IN IF columnsMatch(existing, column, defaultCharset, defaultCollation) THEN <<>>
          ELSE AlterModifyColumnStatement(existing, column)

InsertColumnStatement(c) == Statement("addColumn", schemaColumnToColumn(c))

buildColumnStatements(spec, table) ==
     FlatMap(LAMBDA c : AlterColumnStatements(spec, ExistingColumn(c), TableCharset(table), TableCollation(table)),
             table.columns)
  \o FlatMap(LAMBDA c : IF HasName(table.columns, c.name) THEN <<>> ELSE <<InsertColumnStatement(c)>>,
             spec.columns)

-----------------------------------------------------------------------------
buildRemovePrimaryKeyStatements(spec, table) ==
  IF KeyConstraintEquals(spec.primaryKey, table.primaryKey) \/ table.primaryKey = <<>> THEN <<>>
  ELSE <<Statement("dropPrimaryKey", "")>>

buildAddPrimaryKeyStatements(spec, table) ==
  IF KeyConstraintEquals(spec.primaryKey, table.primaryKey) \/ spec.primaryKey = <<>> THEN <<>>
  ELSE <<Statement("addPrimaryKey", spec.primaryKey)>>

RemoveForeignKeyStatement(n) == Statement("dropForeignKey", n)
AddForeignKeyStatement(fk) == Statement("addForeignKey", [fk EXCEPT !.name = GenerateFKName(fk)])

ListTableForeignKeys(table) ==
  [i \in DOMAIN table.foreignKeys |->
     [table.foreignKeys[i] EXCEPT !.cols = ScannedColumns(@),
                                  !.onDelete = IF @ = "" THEN "NO ACTION" ELSE @]]

(* A foreign key no current one equals replaces the LAST current one; the  *)
(* second loop drops every current one that is not wanted, the replaced    *)
(* one again.                                                              *)
buildForeignKeyStatements(spec, table) ==
  LET current == ListTableForeignKeys(table)
      missing == Where(spec.foreignKeys, LAMBDA s : ~AnySeq(current, LAMBDA fk : ForeignKeyEquals(fk, s)))
      replaced == IF current = <<>> THEN <<>> ELSE <<RemoveForeignKeyStatement(current[Len(current)].name)>>
  IN FlatMap(LAMBDA s : replaced \o <<AddForeignKeyStatement(s)>>, missing)
     \o FlatMap(LAMBDA fk : IF AnySeq(spec.foreignKeys, LAMBDA s : ForeignKeyEquals(fk, s)) THEN <<>>
                            ELSE <<RemoveForeignKeyStatement(fk.name)>>, current)

(* The index that carries a foreign key has the foreign key's name.        *)
ListTableIndexes(table) == Where(table.indexes, LAMBDA i : ~HasName(table.foreignKeys, i.name))

RemoveIndexStatement(n) == Statement("dropIndex", n)
AddIndexStatement(idx) == Statement("addIndex", NamedIndex(idx))

buildRemoveIndexStatements(spec, table) ==
  FlatMap(LAMBDA c : IF AnySeq(spec.indexes, LAMBDA d : IndexEquals(c, NamedIndex(d))) THEN <<>>
                     ELSE <<RemoveIndexStatement(c.name)>>, ListTableIndexes(table))

buildAddIndexStatements(spec, table) ==
  FlatMap(LAMBDA d : IF AnySeq(ListTableIndexes(table), LAMBDA c : IndexEquals(c, NamedIndex(d))) THEN <<>>
                     ELSE <<AddIndexStatement(d)>>, spec.indexes)

-----------------------------------------------------------------------------
(* "on duplicate key update" needs no name of a key.                       *)
SeedDataStatements(spec) == IF spec.seedData THEN <<Statement("seed", "key")>> ELSE <<>>

CreateTableStatements(spec) ==
  <<Statement("createTable",
      [NoTable EXCEPT !.exists = TRUE,
         !.columns = [i \in DOMAIN spec.columns |-> schemaColumnToColumn(spec.columns[i])],
         !.primaryKey = spec.primaryKey,
         !.foreignKeys = [i \in DOMAIN spec.foreignKeys |-> AddForeignKeyStatement(spec.foreignKeys[i]).arg],
         !.indexes = [i \in DOMAIN spec.indexes |-> NamedIndex(spec.indexes[i])],
         !.charset = IF spec.charset = "" /\ spec.collation # "" THEN CharsetOf(spec.collation) ELSE spec.charset,
         !.collation = spec.collation])>>

PlanMysqlTable(spec, table) ==
  CASE spec.isDeleted -> Result(IF table.exists THEN <<Statement("dropTable", "")>> ELSE <<>>)
    [] ~spec.isDeleted /\ AnySeq(spec.columns, LAMBDA c : UnknownType(Unaliased(c.type))) -> PlanError
    [] OTHER ->
         Result((IF ~table.exists THEN CreateTableStatements(spec)
                 ELSE buildTableCharsetAndCollationStatements(spec, table)
                   \o buildRemovePrimaryKeyStatements(spec, table)
                   \o buildRemoveIndexStatements(spec, table)
                   \o buildColumnStatements(spec, table)
                   \o buildAddPrimaryKeyStatements(spec, table)
                   \o buildForeignKeyStatements(spec, table)
                   \o buildAddIndexStatements(spec, table))
                \o SeedDataStatements(spec))

(* Seed rows of a Table without a schema: the table must be there.         *)
PlanMysqlTableSeedDataOnly(spec, table) ==
  IF spec.seedData /\ ~table.exists THEN PlanError ELSE Result(SeedDataStatements(spec))
=============================================================================
