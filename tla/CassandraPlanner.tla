-------------------------- MODULE CassandraPlanner --------------------------
(***************************************************************************)
(* plugins/cassandra/lib: columns and properties of a table.  Properties   *)
(* are a function from the ones that are set to their values.              *)
(***************************************************************************)
EXTENDS SchemaTypes

(* Properties the planner reads back: numbers, maps and text; and the ones *)
(* it writes without ever reading them.                                    *)
Chances == {"bloom_filter_fp_chance", "crc_check_chance", "dclocal_read_repair_chance"}
Maps == {"caching", "compaction", "compression"}
Numbers == {"default_time_to_live", "gc_grace_seconds", "max_index_interval",
            "memtable_flush_period_in_ms", "min_index_interval"}
Words == {"read_repair_chance", "speculative_retry"}

(* A number is compared as "%f" prints it.                                 *)
Printed(p, value) ==
  CASE p \in Chances /\ value = "0.01" -> "0.010000"
    [] p \in Chances /\ value = "0.1" -> "0.100000"
    [] p \in Chances /\ value = "1" -> "1.000000"
    [] OTHER -> value

(* The value of a property in a spec that leaves it out.                   *)
Unset(p) == IF p \in Maps \cup Numbers THEN "null" ELSE ""
ValueIn(properties, p) == IF p \in DOMAIN properties THEN properties[p] ELSE Unset(p)

(* The name a property has in "alter table".                               *)
AlteredAs(p) == IF p = "gc_grace_seconds" THEN "gc_grace_period_seconds" ELSE p

(* What is read back is compared with what the spec says, where it says    *)
(* nothing too: every table has the chances and the maps, so a spec with   *)
(* properties that leaves one of them out is planned to unset it.          *)
buildPropertiesStatements(spec, table) ==
  LET wanted == spec.properties[1]
      current(p) == CASE p \in Chances \cup Maps \cup {"comment"} -> Printed(p, ValueIn(table.properties[1], p))
                      [] OTHER -> Unset(p)
      changed == {p \in Chances \cup Maps \cup {"comment"} \cup Numbers \cup Words :
                    current(p) # ValueIn(wanted, p)}
  IN IF spec.properties = NoValue \/ changed = {} THEN <<>>
     ELSE <<Statement("alterProperties",
              {[property |-> p, as |-> AlteredAs(p), value |-> ValueIn(wanted, p)] : p \in changed})>>

unaliasUnparameterizedColumnType(t) == IF t = <<"varchar", "">> THEN <<"text", "">> ELSE t

schemaColumnToColumn(c) == [c EXCEPT !.type = unaliasUnparameterizedColumnType(@)]

(* What system_schema.columns says of a column has no static in it.        *)
ExistingColumn(c) == [c EXCEPT !.isStatic = "unset"]

columnsMatch(col1, col2) == col1.type = col2.type /\ BoolsEqual(col1.isStatic, col2.isStatic)

AlterColumnStatements(spec, existing) ==
  LET column == schemaColumnToColumn(ByName(spec.columns, existing.name))
  IN CASE ~HasName(spec.columns, existing.name) -> <<Statement("dropColumn", existing.name)>>
       [] HasName(spec.columns, existing.name) /\ ~columnsMatch(existing, column)
                                              /\ existing.type # column.type ->
            <<Statement("alterType", [name |-> column.name, type |-> column.type])>>
       [] OTHER -> <<>>

(* A new column has the type as it is written.                             *)
InsertColumnStatement(c) == Statement("addColumn", c)

buildColumnStatements(spec, table) ==
     FlatMap(LAMBDA c : AlterColumnStatements(spec, ExistingColumn(c)), table.columns)
  \o FlatMap(LAMBDA c : IF HasName(table.columns, c.name) THEN <<>> ELSE <<InsertColumnStatement(c)>>,
             spec.columns)

(* A property left out is left to the server.                              *)
CreateTableStatements(spec) ==
  <<Statement("createTable", [NoTable EXCEPT !.exists = TRUE, !.columns = spec.columns,
                                !.primaryKey = spec.primaryKey, !.properties = spec.properties])>>

(* Seed rows are planned without a schema, and left out beside one.        *)
planCassandraTable(spec, table) ==
  Result(CASE spec.isDeleted -> IF table.exists THEN <<Statement("dropTable", "")>> ELSE <<>>
           [] ~spec.isDeleted /\ ~table.exists -> CreateTableStatements(spec)
           [] OTHER -> buildColumnStatements(spec, table) \o buildPropertiesStatements(spec, table))

SeedDataStatements(spec) == IF spec.seedData THEN <<Statement("seed", "key")>> ELSE <<>>

planCassandraTableSeedDataOnly(spec, table) ==
  IF spec.seedData /\ ~table.exists THEN PlanError ELSE Result(SeedDataStatements(spec))

(* A type is created and dropped; one that exists is left alone.           *)
PlanTypeSchema(spec, exists) ==
  Result(CASE spec.isDeleted /\ exists -> <<Statement("dropType", "")>>
           [] ~spec.isDeleted /\ ~exists -> <<Statement("createType", "")>>
           [] OTHER -> <<>>)
=============================================================================
