----------------------------- MODULE Generator -----------------------------
(***************************************************************************)
(* pkg/generate: a live table, read through the plugin's connection, as    *)
(* the spec of a Table.  Writing the files is left out.                    *)
(***************************************************************************)
EXTENDS SchemaTypes
PG == INSTANCE PostgresPlanner
MY == INSTANCE MysqlPlanner
SQ == INSTANCE SqlitePlanner
CS == INSTANCE CassandraPlanner

(* What each engine's spec can say of a column.                            *)
ColumnToPostgresqlSchemaColumn(c) ==
  [Column(c.name, c.type, c.notNull, c.default) EXCEPT !.autoIncrement = c.autoIncrement]

ColumnToMysqlSchemaColumn(c) == [ColumnToPostgresqlSchemaColumn(c) EXCEPT !.charset = c.charset]
ColumnToRqliteSchemaColumn(c) == ColumnToPostgresqlSchemaColumn(c)
ColumnToSqliteSchemaColumn(c) == Column(c.name, c.type, c.notNull, c.default)

(* Of an index only postgres keeps more than its name and columns.         *)
IndexToPostgresqlSchemaIndex(idx) == [idx EXCEPT !.constraint = FALSE]
IndexToMysqlSchemaIndex(idx) == Index(idx.name, idx.cols, idx.unique)
IndexToRqliteSchemaIndex(idx) == Index(idx.name, idx.cols, idx.unique)
IndexToSqliteSchemaIndex(idx) == Index(idx.name, idx.cols, idx.unique)

Each(Op(_), s) == [i \in DOMAIN s |-> Op(s[i])]

Generated(columns, table, foreignKeys, indexes) ==
  [EmptySpec EXCEPT !.columns = columns, !.primaryKey = table.primaryKey,
                    !.foreignKeys = foreignKeys, !.indexes = indexes]

\* Mutant: indexes are left out.
generatePostgresqlNoIndexes(driver, table) ==
  Generated(Each(ColumnToPostgresqlSchemaColumn, PG!GetTableSchema(table)), table,
            PG!ListTableForeignKeys(table), <<>>)

(* Of the drivers it serves, timescaledb's has no field to write to.       *)
generatePostgresqlTableYAML(driver, table) ==
  [Generated(Each(ColumnToPostgresqlSchemaColumn, PG!GetTableSchema(table)), table,
             PG!ListTableForeignKeys(table),
             Each(IndexToPostgresqlSchemaIndex, PG!ListTableIndexes(table)))
     EXCEPT !.hasSchema = driver \in {"postgres", "cockroachdb"}]

(* An integer type has a precision and a scale: it is written with both.   *)
MysqlGetTableSchema(table) ==
  [i \in DOMAIN table.columns |->
     [table.columns[i] EXCEPT !.type = IF @[1] \in {"int", "bigint", "smallint"} THEN <<@[1], "10, 0">> ELSE @]]

generateMysqlTableYAML(table) ==
  [Generated(Each(ColumnToMysqlSchemaColumn, MysqlGetTableSchema(table)), table,
             MY!ListTableForeignKeys(table),
             Each(IndexToMysqlSchemaIndex, MY!ListTableIndexes(table)))
     EXCEPT !.charset = table.charset, !.collation = table.collation]

generateSqliteTableYAML(table) ==
  Generated(Each(ColumnToSqliteSchemaColumn, Each(SQ!ExistingColumn, table.columns)), table,
            SQ!ListTableForeignKeys(table), Each(IndexToSqliteSchemaIndex, table.indexes))

generateRqliteTableYAML(table) ==
  Generated(Each(ColumnToRqliteSchemaColumn, Each(SQ!ExistingColumn, table.columns)), table,
            SQ!ListTableForeignKeys(table), Each(IndexToRqliteSchemaIndex, table.indexes))

(* Names and types of the columns, and no properties.                      *)
generateCassandraTableYAML(table) ==
  Generated([i \in DOMAIN table.columns |-> Column(table.columns[i].name, table.columns[i].type, "unset", NoValue)],
            table, <<>>, <<>>)

generateTableYAML(driver, table) ==
  CASE driver = "mysql" -> generateMysqlTableYAML(table)
    [] driver = "rqlite" -> generateRqliteTableYAML(table)
    [] driver = "sqlite" -> generateSqliteTableYAML(table)
    [] driver = "cassandra" -> generateCassandraTableYAML(table)
    [] driver \in {"postgres", "cockroachdb", "timescaledb"} -> generatePostgresqlTableYAML(driver, table)
=============================================================================
