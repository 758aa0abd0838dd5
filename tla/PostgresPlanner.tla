-------------------------- MODULE PostgresPlanner --------------------------
(***************************************************************************)
(* plugins/postgres/lib: from a table's spec and the table the catalog     *)
(* describes to the statements of a migration.                             *)
(***************************************************************************)
EXTENDS SchemaTypes

(* Column types.                                                           *)
unaliasUnparameterizedColumnType(t) ==
  LET aliases == [int8 |-> "bigint", serial8 |-> "bigserial", bool |-> "boolean",
                  float8 |-> "double precision", int |-> "integer", int4 |-> "integer",
                  float4 |-> "real", int2 |-> "smallint", serial2 |-> "smallserial",
                  serial4 |-> "serial"]
  IN IF t[2] = "" /\ t[1] \in DOMAIN aliases THEN <<aliases[t[1]], "">> ELSE t

unaliasParameterizedColumnType(t) ==
  LET aliases == [varbit |-> "bit varying", char |-> "character", varchar |-> "character varying",
                  decimal |-> "numeric", timetz |-> "time with time zone",
                  timestamptz |-> "timestamp with time zone"]
  IN IF t[1] \in DOMAIN aliases THEN <<aliases[t[1]], t[2]>> ELSE t

(* A length that was left out is 1; a precision or a size may stay out.    *)
maybeParseParameterizedColumnType(t) ==
  IF t[1] \in {"bit varying", "bit", "character varying", "character"} /\ t[2] = ""
  THEN <<t[1], "1">> ELSE t

schemaColumnToColumn(c) ==
  [c EXCEPT !.type = maybeParseParameterizedColumnType(
                       unaliasParameterizedColumnType(unaliasUnparameterizedColumnType(@)))]

UDTNameToDataType(base) == IF base \in {"integer", "text"} THEN <<base, "">> ELSE <<"_", base>>

(* A column as information_schema.columns describes it: only character and *)
(* bit types carry a length, an array is known by its element's udt, and a *)
(* default is rendered.                                                    *)
ExistingColumn(c) ==
  LET base == CASE c.type[1] = "timestamp" -> "timestamp without time zone"
                [] c.type[1] = "time" -> "time without time zone"
                [] OTHER -> c.type[1]
      length == IF base \in {"bit varying", "bit", "character varying", "character"}
                THEN c.type[2] ELSE ""
  IN [c EXCEPT !.type = IF c.isArray THEN UDTNameToDataType(base) ELSE <<base, length>>,
               !.default = InCatalogAll(@)]

\* Mutant: defaults are compared as the catalog renders them.
columnDefaultsRendered(a, b) == a = b

columnDefaultsEqual(a, b) == Canonical(a) = Canonical(b)

columnsMatch(col1, col2) ==
  LET zoneless(t) == CASE t = <<"timestamp", "">> -> <<"timestamp without time zone", "">>
                       [] t = <<"time", "">> -> <<"time without time zone", "">>
                       [] OTHER -> t
  IN /\ zoneless(col1.type) = zoneless(col2.type)
     /\ col1.isArray = col2.isArray
     /\ columnDefaultsEqual(col1.default, col2.default)
     /\ BoolsEqual(col1.notNull, col2.notNull)


(* The default first, then the rows, then the constraint; a change of type *)
(* asked for in the same edit is left out.                                 *)
AddNotNullStatements(existing, column) ==
     (IF column.default # NoValue /\ ~columnDefaultsEqual(existing.default, column.default)
      THEN <<Statement("setDefault", [name |-> column.name, default |-> column.default])>> ELSE <<>>)
  \o (IF column.default # NoValue THEN <<Statement("fillNulls", column.name)>> ELSE <<>>)
  \o <<Statement("setNotNull", column.name)>>

\* Mutant: a default is set and never dropped.
ChangeColumnKeepsDefault(existing, column, primaryKey) ==
  [name |-> column.name,
   type |-> IF existing.type # column.type THEN <<column.type>> ELSE NoValue,
   toArray |-> existing.type = column.type /\ existing.isArray # column.isArray,
   default |-> IF column.default = NoValue THEN NoValue ELSE <<column.default>>,
   dropNotNull |-> /\ column.name \notin Range(primaryKey)
                   /\ existing.notNull = "true" /\ column.notNull # "true"]

(* One "alter table" with the changes of one column: a new type, an array  *)
(* of the type it has, a default set or dropped, null allowed again.       *)
ChangeColumn(existing, column, primaryKey) ==
  [name |-> column.name,
   type |-> IF existing.type # column.type THEN <<column.type>> ELSE NoValue,
   toArray |-> existing.type = column.type /\ existing.isArray # column.isArray,
   default |-> IF columnDefaultsEqual(existing.default, column.default) THEN NoValue
               ELSE <<column.default>>,
   dropNotNull |-> /\ column.name \notin Range(primaryKey)
                   /\ existing.notNull = "true" /\ column.notNull # "true"]

NoChange(change) ==
  change.type = NoValue /\ ~change.toArray /\ change.default = NoValue /\ ~change.dropNotNull

AlterColumnStatements(spec, existing) ==
  IF ~HasName(spec.columns, existing.name)
  THEN <<Statement("dropColumn", existing.name)>>
  ELSE LET column == schemaColumnToColumn(ByName(spec.columns, existing.name))
           change == ChangeColumn(existing, column, spec.primaryKey)
       IN CASE columnsMatch(existing, column) -> <<>>
            [] ~columnsMatch(existing, column) /\ column.notNull = "true" /\ existing.notNull # "true" ->
                 AddNotNullStatements(existing, column)
            [] OTHER -> IF column.type[1] \in {"serial", "bigserial"} \/ NoChange(change) THEN <<>>
                        ELSE <<Statement("alterColumn", change)>>

InsertColumnStatement(c) == Statement("addColumn", schemaColumnToColumn(c))

BuildColumnStatements(spec, table) ==
     FlatMap(LAMBDA c : AlterColumnStatements(spec, ExistingColumn(c)), table.columns)
  \o FlatMap(LAMBDA c : IF HasName(table.columns, c.name) THEN <<>> ELSE <<InsertColumnStatement(c)>>,
             spec.columns)

-----------------------------------------------------------------------------
(* The columns again, as the generator reads them: an array is an "ARRAY". *)
GetTableSchema(table) ==
  [i \in DOMAIN table.columns |->
     [ExistingColumn(table.columns[i]) EXCEPT !.type = IF table.columns[i].isArray THEN <<"ARRAY", "">> ELSE @,
                                              !.isArray = FALSE]]

(* What the catalog says of the rest of a table: every expression as the   *)
(* server renders it, every default spelled out.                           *)
Rendered(c) == [c EXCEPT !.expr = InCatalog(@)]

(* A key of several columns comes as a row for each.                       *)
ListTableForeignKeys(table) ==
  [i \in DOMAIN table.foreignKeys |->
     [table.foreignKeys[i] EXCEPT !.cols = ScannedColumns(@),
                                  !.onDelete = IF @ = "" THEN "NO ACTION" ELSE @]]

(* Not the primary key's index and not those behind exclusions.            *)
ListTableIndexes(table) ==
  [i \in DOMAIN table.indexes |->
     [table.indexes[i] EXCEPT !.method = IF @ = "" THEN "btree" ELSE @,
                              !.where = InCatalogAll(@), !.elements = InCatalogAll(@)]]

ListTableConstraints(table) ==
  NamesOf(table.foreignKeys) \cup NamesOf(table.checks)
    \cup NamesOf(Where(table.indexes, LAMBDA i : i.constraint))
    \cup (IF table.primaryKey = <<>> THEN {} ELSE {GenerateKeyName})

ListTableCheckConstraints(table) == [i \in DOMAIN table.checks |-> Rendered(table.checks[i])]
ListTableExclusionConstraints(table) == [i \in DOMAIN table.exclusions |-> Rendered(table.exclusions[i])]
ListTableTriggers(table) == [i \in DOMAIN table.triggers |-> Rendered(table.triggers[i])]

PolicyCommandFromCatalogChar(command) == IF command = "" THEN "ALL" ELSE command

ListTablePolicies(table) ==
  [i \in DOMAIN table.policies |->
     [table.policies[i] EXCEPT !.command = PolicyCommandFromCatalogChar(@), !.using = InCatalog(@),
                               !.roles = IF @ = {} THEN {"public"} ELSE @]]

-----------------------------------------------------------------------------
RemoveConstraintStatement(n) == Statement("dropConstraint", n)
RemoveIndexStatement(n) == Statement("dropIndexIfExists", n)

BuildPrimaryKeyStatements(spec, table) ==
  IF KeyConstraintEquals(spec.primaryKey, table.primaryKey) THEN <<>>
  ELSE (IF table.primaryKey # <<>> THEN <<RemoveConstraintStatement(GenerateKeyName)>> ELSE <<>>)
    \o (IF spec.primaryKey # <<>> THEN <<Statement("addPrimaryKey", spec.primaryKey)>> ELSE <<>>)

AddForeignKeyStatement(fk) == Statement("addForeignKey", [fk EXCEPT !.name = GenerateFKName(fk)])

(* A foreign key no current one equals replaces the LAST current one,      *)
(* whatever its name; what is then neither wanted nor dropped goes too.    *)
BuildForeignKeyStatements(spec, table) ==
  LET current == ListTableForeignKeys(table)
      wanted(fk) == AnySeq(spec.foreignKeys, LAMBDA s : ForeignKeyEquals(fk, s))
      missing == Where(spec.foreignKeys, LAMBDA s : ~AnySeq(current, LAMBDA fk : ForeignKeyEquals(fk, s)))
      replaced == IF current = <<>> \/ missing = <<>> THEN <<>> ELSE <<current[Len(current)].name>>
      dropped(fk) == AnySeq(replaced, LAMBDA n : n = fk.name)
  IN FlatMap(LAMBDA s : [i \in DOMAIN replaced |-> RemoveConstraintStatement(replaced[i])]
                        \o <<AddForeignKeyStatement(s)>>, missing)
     \o FlatMap(LAMBDA fk : IF wanted(fk) \/ dropped(fk) THEN <<>> ELSE <<RemoveConstraintStatement(fk.name)>>,
                current)

(* The two passes over named objects shared by checks, exclusions,         *)
(* triggers and policies: create what is new, drop and create what differs,*)
(* and then drop what is no longer wanted.                                 *)
NamedDiff(desired, current, Name(_), Same(_, _), Add(_), Drop(_)) ==
     FlatMap(LAMBDA d : IF ~HasName(current, Name(d)) THEN <<Add(d)>>
                        ELSE IF Same(ByName(current, Name(d)), d) THEN <<>>
                        ELSE <<Drop(Name(d)), Add(d)>>, desired)
  \o FlatMap(LAMBDA c : IF AnySeq(desired, LAMBDA d : Name(d) = c.name) THEN <<>> ELSE <<Drop(c.name)>>,
             current)

\* Mutant: checks are compared as they are written.
checkExprWritten(c, d) == c.expr = d.expr

checkExprEquivalent(c, d) == CanonicalizeSQLExpr(c.expr) = CanonicalizeSQLExpr(d.expr)

AddCheckConstraintStatement(c) == Statement("addCheck", [c EXCEPT !.name = GenerateCheckName(c)])

BuildCheckConstraintStatements(spec, table) ==
  NamedDiff(spec.checks, ListTableCheckConstraints(table), GenerateCheckName, checkExprEquivalent,
            AddCheckConstraintStatement, RemoveConstraintStatement)

AddExclusionConstraintStatement(c) ==
  Statement("addExclusion", [c EXCEPT !.name = GenerateExclusionName(c)])

BuildExclusionConstraintStatements(spec, table) ==
  NamedDiff(spec.exclusions, ListTableExclusionConstraints(table), GenerateExclusionName, ExclusionEquals,
            AddExclusionConstraintStatement, RemoveConstraintStatement)

(* A unique index without method, predicate or ordered elements is a       *)
(* constraint of the table it is created with.                             *)
isInlineFoldableUniqueIndex(idx) ==
  idx.unique /\ normalizeIndexMethod(idx.method) = "" /\ idx.where = NoValue /\ idx.elements = <<>>

DropIndex(table, n) ==
  IF n \in ListTableConstraints(table) THEN RemoveConstraintStatement(n) ELSE RemoveIndexStatement(n)

AddIndexStatement(idx) == Statement("addIndex", NamedIndex(idx))

BuildIndexStatements(spec, table) ==
  LET desired == [i \in DOMAIN spec.indexes |-> NamedIndex(spec.indexes[i])]
      current == ListTableIndexes(table)
      kept(c) == AnySeq(desired, LAMBDA d : IndexEquals(c, d))
      new == Where(desired, LAMBDA d : /\ table.exists \/ ~isInlineFoldableUniqueIndex(d)
                                       /\ ~AnySeq(current, LAMBDA c : IndexEquals(c, d)))
  IN FlatMap(LAMBDA d : (IF HasName(current, d.name) THEN <<DropIndex(table, d.name)>> ELSE <<>>)
                        \o <<AddIndexStatement(d)>>, new)
     \o FlatMap(LAMBDA c : IF kept(c) \/ HasName(new, c.name) THEN <<>> ELSE <<DropIndex(table, c.name)>>,
                current)

-----------------------------------------------------------------------------
(* Triggers are compared by what pg_get_triggerdef makes of them.          *)
triggerCreateStatement(t) == Statement("createTrigger", t)
dropTriggerStatement(n) == Statement("dropTriggerIfExists", n)

BuildTriggerStatements(spec, table) ==
  NamedDiff(spec.triggers, ListTableTriggers(table), LAMBDA t : t.name,
            LAMBDA c, d : CanonicalizeSQLExpr(c.expr) = CanonicalizeSQLExpr(d.expr),
            triggerCreateStatement, dropTriggerStatement)

CreatePolicyStatement(p) == Statement("createPolicy", p)
RemovePolicyStatement(n) == Statement("dropPolicyIfExists", n)

rowSecurityToggleStatement(op, desired, current, on, off) ==
  CASE desired = on /\ ~current -> <<Statement(op, TRUE)>>
    [] desired = off /\ current -> <<Statement(op, FALSE)>>
    [] OTHER -> <<>>

\* Mutant: no rowLevelSecurity is an empty list of policies.
BuildRowLevelSecurityAlways(spec, table) ==
  IF spec.rls = NoValue THEN [i \in DOMAIN table.policies |-> RemovePolicyStatement(table.policies[i].name)]
  ELSE NamedDiff(spec.policies, ListTablePolicies(table), LAMBDA p : p.name, AttributesEqual,
                 CreatePolicyStatement, RemovePolicyStatement)

(* Nothing of a table whose spec has no rowLevelSecurity is touched.       *)
BuildRowLevelSecurityStatements(spec, table) ==
  IF spec.rls = NoValue THEN <<>>
  ELSE rowSecurityToggleStatement("rowSecurity", spec.rls[1].enable, table.rls.enable, "enable", "disable")
       \o rowSecurityToggleStatement("forceSecurity", spec.rls[1].force, table.rls.force, "force", "noforce")
       \o NamedDiff(spec.policies, ListTablePolicies(table), LAMBDA p : p.name, AttributesEqual,
                    CreatePolicyStatement, RemovePolicyStatement)

(* What an existing table may not be planned with: objects without a name  *)
(* and words that are neither on nor off.                                  *)
Unmanageable(spec) ==
  \/ HasName(spec.triggers, NoName)
  \/ /\ spec.rls # NoValue
     /\ \/ HasName(spec.policies, NoName)
        \/ spec.rls[1].enable \notin {"", "enable", "disable"}
        \/ spec.rls[1].force \notin {"", "force", "noforce"}

-----------------------------------------------------------------------------
(* The target of "on conflict": the key's columns, else the generated name *)
(* of a unique index, else none.                                           *)
findConflictInferenceSpec(spec) ==
  CASE spec.primaryKey # <<>> -> "key"
    [] spec.primaryKey = <<>> /\ AnySeq(spec.indexes, LAMBDA i : i.unique) -> "indexName"
    [] OTHER -> "none"

SeedDataStatements(spec) ==
  IF spec.seedData THEN <<Statement("seed", findConflictInferenceSpec(spec))>> ELSE <<>>

InlineIndexes(spec) ==
  LET unique == Where(spec.indexes, isInlineFoldableUniqueIndex)
  IN [i \in DOMAIN unique |-> [unique[i] EXCEPT !.name = GenerateIndexName(unique[i]), !.constraint = TRUE]]

CreateTableStatements(spec) ==
     <<Statement("createTable",
         [NoTable EXCEPT !.exists = TRUE,
            !.columns = [i \in DOMAIN spec.columns |-> schemaColumnToColumn(spec.columns[i])],
            !.primaryKey = spec.primaryKey,
            !.indexes = InlineIndexes(spec),
            !.foreignKeys = [i \in DOMAIN spec.foreignKeys |-> AddForeignKeyStatement(spec.foreignKeys[i]).arg],
            !.checks = [i \in DOMAIN spec.checks |-> AddCheckConstraintStatement(spec.checks[i]).arg],
            !.exclusions = [i \in DOMAIN spec.exclusions |->
                              AddExclusionConstraintStatement(spec.exclusions[i]).arg]])>>
  \o [i \in DOMAIN spec.triggers |-> triggerCreateStatement(spec.triggers[i])]
  \o (IF spec.rls = NoValue THEN <<>>
      ELSE (IF spec.rls[1].enable = "enable" THEN <<Statement("rowSecurity", TRUE)>> ELSE <<>>)
        \o (IF spec.rls[1].force = "force" THEN <<Statement("forceSecurity", TRUE)>> ELSE <<>>)
        \o [i \in DOMAIN spec.policies |-> CreatePolicyStatement(spec.policies[i])])

PlanPostgresTable(spec, table) ==
  CASE spec.isDeleted -> Result(IF table.exists THEN <<Statement("dropTable", "")>> ELSE <<>>)
    [] ~spec.isDeleted /\ ~table.exists ->
         Result(CreateTableStatements(spec) \o SeedDataStatements(spec) \o BuildIndexStatements(spec, table))
    [] OTHER ->
         IF Unmanageable(spec) THEN PlanError
         ELSE Result(   BuildColumnStatements(spec, table)
                     \o BuildPrimaryKeyStatements(spec, table)
                     \o BuildForeignKeyStatements(spec, table)
                     \o BuildCheckConstraintStatements(spec, table)
                     \o BuildIndexStatements(spec, table)
                     \o BuildExclusionConstraintStatements(spec, table)
                     \o BuildTriggerStatements(spec, table)
                     \o BuildRowLevelSecurityStatements(spec, table)
                     \o SeedDataStatements(spec))

(* Seed rows of a Table without a schema: the key is the one the table has.*)
PlanPostgresTableSeedDataOnly(spec, table) ==
  IF spec.seedData /\ ~table.exists THEN PlanError
  ELSE Result(SeedDataStatements([EmptySpec EXCEPT !.seedData = spec.seedData, !.primaryKey = table.primaryKey]))
=============================================================================
