-------------------------- MODULE TimescalePlanner --------------------------
(***************************************************************************)
(* plugins/timescaledb/internal: the postgres planner's columns and keys,  *)
(* its own pass over the indexes, and the hypertable.                      *)
(***************************************************************************)
EXTENDS SchemaTypes
PG == INSTANCE PostgresPlanner

(* A hypertable: its time column, a partitioning column and how many       *)
(* partitions, the column compressed segments are by, whether compression  *)
(* and retention run on an interval, whether rows are moved into it.       *)
Hypertable(time) ==
  [time |-> time, partitioning |-> NoValue, partitions |-> 0, segmentBy |-> NoValue,
   compressed |-> FALSE, retained |-> FALSE, migrateData |-> FALSE]

(* Checks, exclusions and row-level security are no part of the schema.    *)
toPostgresTableSchema(spec) ==
  [spec EXCEPT !.checks = <<>>, !.exclusions = <<>>, !.rls = NoValue, !.policies = <<>>]

columnExists(opt, columns) == \A i \in DOMAIN opt : HasName(columns, opt[i])

getHypertableParamsFails(h, columns) ==
  /\ h.partitioning # NoValue
  /\ h.partitions = 0 \/ h.partitioning = h.time \/ ~columnExists(h.partitioning, columns)

createHypertableFails(h, columns) ==
  h.time # NoValue /\ (~columnExists(h.time, columns) \/ getHypertableParamsFails(h, columns))

(* No time column, no statement.                                           *)
createHypertableStatement(h) ==
  IF h.time = NoValue THEN <<>> ELSE <<Statement("createHypertable", h)>>

createCompressionStatements(h) ==
     (IF h.segmentBy = NoValue THEN <<>> ELSE <<Statement("compressBy", h.segmentBy)>>)
  \o (IF h.compressed THEN <<Statement("addCompressionPolicy", "")>> ELSE <<>>)

createRetentionStatements(h) == IF h.retained THEN <<Statement("addRetentionPolicy", "")>> ELSE <<>>

CreateTableStatements(spec) ==
     PG!CreateTableStatements(toPostgresTableSchema(spec))
  \o FlatMap(LAMBDA h : createHypertableStatement(h) \o createCompressionStatements(h)
                        \o createRetentionStatements(h), spec.hypertable)

(* A hypertable is made once; it is never changed and never undone.        *)
BuildHypertableStatements(spec, table) ==
  IF table.hypertable # NoValue THEN <<>> ELSE FlatMap(createHypertableStatement, spec.hypertable)

(* The index create_hypertable made on the time column stays.              *)
KeptForHypertable(spec, idx) ==
  AnySeq(spec.hypertable, LAMBDA h : h.time # NoValue /\ idx.cols = h.time)

BuildIndexStatements(spec, table) ==
  LET desired == [i \in DOMAIN spec.indexes |-> NamedIndex(spec.indexes[i])]
      current == PG!ListTableIndexes(table)
      new == Where(desired, LAMBDA d : ~AnySeq(current, LAMBDA c : IndexEquals(c, d)))
      kept(c) == AnySeq(desired, LAMBDA d : IndexEquals(c, d)) \/ KeptForHypertable(spec, c)
  IN FlatMap(LAMBDA d : (IF HasName(current, d.name) THEN <<PG!DropIndex(table, d.name)>> ELSE <<>>)
                        \o <<PG!AddIndexStatement(d)>>, new)
     \o FlatMap(LAMBDA c : IF kept(c) \/ HasName(new, c.name) THEN <<>> ELSE <<PG!DropIndex(table, c.name)>>,
                current)

(* Errors: on creation also the column compressed by; later only those of  *)
(* a hypertable that is still to be made.                                  *)
PlanFails(spec, table) ==
  AnySeq(spec.hypertable,
         LAMBDA h : \/ /\ table.hypertable = NoValue
                       /\ createHypertableFails(h, spec.columns)
                    \/ ~table.exists /\ ~columnExists(h.segmentBy, spec.columns))

PlanTimescaleDBTable(spec, table) ==
  LET schema == toPostgresTableSchema(spec)
  IN CASE spec.isDeleted -> Result(IF table.exists THEN <<Statement("dropTable", "")>> ELSE <<>>)
       [] ~spec.isDeleted /\ PlanFails(spec, table) -> PlanError
       [] OTHER ->
            Result((IF ~table.exists THEN CreateTableStatements(spec)
                    ELSE PG!BuildColumnStatements(schema, table)
                      \o PG!BuildPrimaryKeyStatements(schema, table)
                      \o PG!BuildForeignKeyStatements(schema, table)
                      \o BuildIndexStatements(spec, table)
                      \o BuildHypertableStatements(spec, table))
                   \o PG!SeedDataStatements(schema))

(* A view is created and dropped; a view that exists is left alone, and    *)
(* only continuous aggregates can be created.                              *)
PlanTimescaleDBView(spec, view) ==
  CASE spec.isDeleted /\ view.exists ->
         Result(<<Statement(IF view.continuous THEN "dropMaterializedView" ELSE "dropView", "")>>)
    [] ~spec.isDeleted /\ ~view.exists ->
         IF spec.continuous = "true" THEN Result(<<Statement("createMaterializedView", spec.withNoData)>>)
         ELSE PlanError
    [] OTHER -> Result(<<>>)
=============================================================================
