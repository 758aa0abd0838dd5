------------------------------ MODULE Planning ------------------------------
(***************************************************************************)
(* One table of one database: its spec is edited, planned by the engine's  *)
(* plugin and applied statement by statement, while the application that   *)
(* owns the rows goes on writing.  The process that applies may be killed; *)
(* the table is then planned again from where it was left.                 *)
(***************************************************************************)
EXTENDS Planners, Engine
GE == INSTANCE Generator

CONSTANTS
  Engines,        \* the engines to run
  Specs(_),       \* the specs an engine's table may have
  MaxEdits,       \* how often the spec is edited
  MaxWrites,      \* how often the application writes
  MaxInterrupts   \* how often applying is cut short

ASSUME BoundsAssumption == MaxEdits \in Nat /\ MaxWrites \in Nat /\ MaxInterrupts \in Nat
ASSUME EnginesAssumption == Engines \subseteq {"postgres", "timescaledb", "mysql", "sqlite", "rqlite", "cassandra"}
\* A spec has the fields of EmptySpec; what are slices in Go are sequences, and
\* every column has a name.
ASSUME SpecsAssumption == \A e \in Engines : \A s \in Specs(e) : IsSpec(s)

VARIABLES
  engine, spec,
  table,        \* the table as committed
  session,      \* what an open transaction sees, if one is open
  statements,   \* what is left to run of the plan
  phase,        \* "idle", "planned", "applying", "applied", "refused", "failed"
  nulledSince,  \* history: the columns that got a null since the table was
                \* planned and were not filled after it
  left          \* how many edits, writes and interrupts are left

vars == <<engine, spec, table, session, statements, phase, nulledSince, left>>

Init ==
  /\ engine \in Engines
  /\ spec \in Specs(engine)
  /\ table = NoTable
  /\ session = <<>>
  /\ statements = <<>>
  /\ phase = "idle"
  /\ nulledSince = {}
  /\ left = [edits |-> MaxEdits, writes |-> MaxWrites, interrupts |-> MaxInterrupts]

-----------------------------------------------------------------------------
Plan ==
  /\ phase = "idle"
  /\ LET result == PlanTableSchema(engine, spec, table)
     IN /\ statements' = result.statements
        /\ phase' = IF result.error THEN "refused" ELSE "planned"
  /\ nulledSince' = {}
  /\ UNCHANGED <<engine, spec, table, session, left>>

(* rqlite takes all statements in one call, as one transaction.            *)
StartDeploy ==
  /\ phase = "planned"
  /\ phase' = "applying"
  /\ session' = IF engine = "rqlite" THEN <<View(table)>> ELSE <<>>
  /\ UNCHANGED <<engine, spec, table, statements, nulledSince, left>>

Seen == IF session = <<>> THEN View(table) ELSE session[1]

(* Outside a transaction every statement is committed as it runs.          *)
ExecuteStatement ==
  /\ phase = "applying" /\ statements # <<>>
  /\ LET s == Head(statements)
         w == Outcome(engine, Seen, s)
     IN /\ Runs(engine, Seen, s)
        /\ CASE s.op = "begin" -> session' = <<View(table)>> /\ UNCHANGED table
             [] s.op = "commit" -> session' = <<>> /\ table' = Seen.table
             [] OTHER -> IF session = <<>> THEN table' = w.table /\ UNCHANGED session
                         ELSE session' = <<w>> /\ UNCHANGED table
        /\ nulledSince' = IF s.op = "fillNulls" THEN nulledSince \ {s.arg} ELSE nulledSince
  /\ statements' = Tail(statements)
  /\ UNCHANGED <<engine, spec, phase, left>>

(* A statement that fails ends the deployment and closes the connection.   *)
StatementFails ==
  /\ phase = "applying" /\ statements # <<>>
  /\ ~Runs(engine, Seen, Head(statements))
  /\ phase' = "failed" /\ session' = <<>>
  /\ UNCHANGED <<engine, spec, table, statements, nulledSince, left>>

FinishDeploy ==
  /\ phase = "applying" /\ statements = <<>>
  /\ phase' = "applied"
  /\ table' = Seen.table /\ session' = <<>>
  /\ UNCHANGED <<engine, spec, statements, nulledSince, left>>

\* Mutant: the open transaction survives.
InterruptInTransaction ==
  /\ phase = "applying" /\ left.interrupts > 0
  /\ phase' = "idle" /\ statements' = <<>>
  /\ left' = [left EXCEPT !.interrupts = @ - 1]
  /\ UNCHANGED <<engine, spec, table, session, nulledSince>>

Interrupt ==
  /\ phase = "applying" /\ left.interrupts > 0
  /\ phase' = "idle" /\ session' = <<>> /\ statements' = <<>>
  /\ left' = [left EXCEPT !.interrupts = @ - 1]
  /\ UNCHANGED <<engine, spec, table, nulledSince>>

Edit(s) ==
  /\ phase \in {"applied", "refused", "failed"} /\ left.edits > 0
  /\ s # spec
  /\ spec' = s /\ phase' = "idle" /\ statements' = <<>>
  /\ left' = [left EXCEPT !.edits = @ - 1]
  /\ UNCHANGED <<engine, table, session, nulledSince>>

Nullable(t) == {t.columns[i].name : i \in {i \in DOMAIN t.columns : t.columns[i].notNull # "true"}}

(* The application inserts a row with values for some columns and nulls    *)
(* for others; the rest get their default or a null, where one is allowed. *)
AppWrite(given, nulled) ==
  LET unset == {i \in DOMAIN table.columns : table.columns[i].name \notin given \cup nulled}
      defaulted == {table.columns[i].name : i \in {i \in unset : table.columns[i].default # NoValue}}
      nulls == ColumnNames(table) \ (given \cup defaulted)
  IN /\ table.exists /\ session = <<>> /\ left.writes > 0
     /\ given # {}
     /\ \A i \in unset : table.columns[i].default # NoValue \/ table.columns[i].notNull # "true"
     /\ table' = [table EXCEPT !.filled = @ \cup given \cup defaulted, !.nulls = @ \cup nulls]
     /\ nulledSince' = nulledSince \cup nulls
     /\ left' = [left EXCEPT !.writes = @ - 1]
     /\ UNCHANGED <<engine, spec, session, statements, phase>>

Next ==
  \/ Plan \/ StartDeploy \/ ExecuteStatement \/ StatementFails \/ FinishDeploy \/ Interrupt
  \/ \E s \in Specs(engine) : Edit(s)
  \/ \E given \in {ColumnNames(table), Range(table.primaryKey)} :
       \E nulled \in {{}, Nullable(table) \ given} : AppWrite(given, nulled)

Spec == Init /\ [][Next]_vars

-----------------------------------------------------------------------------
(* Every variable has its type; rows have values for columns only, and a    *)
(* transaction is open only while statements run.                           *)
TypeOK ==
  /\ engine \in Engines /\ spec \in Specs(engine)
  /\ phase \in {"idle", "planned", "applying", "applied", "refused", "failed"}
  /\ table.filled \cup table.nulls \subseteq ColumnNames(table)
  /\ phase # "applying" => session = <<>>

(* The rows hold nulls where the spec wants none and gives no default.     *)
RowsForbid(s) ==
  /\ s.op \in {"setNotNull", "addColumn", "modifyColumn"}
  /\ AnySeq(spec.columns, LAMBDA c : /\ c.notNull = "true" /\ c.default = NoValue
                                      /\ (c.name \in table.nulls \/ c.name \notin ColumnNames(table)))

(* A new table cannot be filled from the old one when the same edit adds a *)
(* column or when nulls would have to become the column's default, nor     *)
(* take the name of an index the old one still has.                        *)
CopyRefused(s) ==
  /\ engine \in SqliteLike
  /\ \/ s.op = "copyRows" /\ ~(s.arg \subseteq ColumnNames(table))
     \/ s.op = "copyRows" /\ AnySeq(spec.columns, LAMBDA c : c.notNull = "true" /\ c.name \in table.nulls)
     \/ s.op = "addIndex" /\ HasName(table.indexes, s.arg.name)

(* The nulls of a column are filled and then forbidden by two statements,  *)
(* outside a transaction: a null the application writes in between makes   *)
(* the second one fail.                                                    *)
NullWrittenSince(s) ==
  \/ s.op = "setNotNull" /\ s.arg \in nulledSince
  \/ s.op = "modifyColumn" /\ s.arg.name \in nulledSince

(* A statement of a plan fails only where the rows themselves forbid what  *)
(* the spec asks for, where a null was written after the nulls were filled,*)
(* or in a copy that is then rolled back; whatever else the application    *)
(* writes between planning and running it and whatever an interrupted plan *)
(* left behind.  A default is set and the nulls that were there when the   *)
(* table was planned are filled before "not null", what is added is not    *)
(* there yet and what is dropped still is.                                 *)
PlanApplies ==
  phase = "failed" =>
    LET s == Head(statements) IN RowsForbid(s) \/ NullWrittenSince(s) \/ CopyRefused(s)

(* The schema a table has, without its rows and the order of things.       *)
Schema(t) ==
  [t EXCEPT !.columns = Range(@), !.foreignKeys = Range(@), !.checks = Range(@), !.exclusions = Range(@),
            !.indexes = {[@[i] EXCEPT !.constraint = FALSE] : i \in DOMAIN @},
            !.triggers = Range(@), !.policies = Range(@),
            !.charset = MY!TableCharset(t), !.collation = MY!TableCollation(t), !.filled = {}, !.nulls = {}, !.seeds = 0]

(* What creating the spec on an empty database gives.                      *)
FromScratch(e, s) ==
  LET plan == PlanTableSchema(e, s, NoTable).statements
      seen[i \in 0..Len(plan)] == IF i = 0 THEN View(NoTable) ELSE Outcome(e, seen[i - 1], plan[i])
  IN seen[Len(plan)].table

(* What a spec manages of it: row-level security and cassandra's           *)
(* properties only where it speaks of them, and of a hypertable, which is  *)
(* made once and never changed or undone, that it is on its time column.   *)
Managed(s, t) ==
  [Schema(t) EXCEPT
     !.rls = IF s.rls = NoValue THEN NoTable.rls ELSE @,
     !.policies = IF s.rls = NoValue THEN {} ELSE @,
     !.properties = IF s.properties = NoValue THEN NoValue ELSE @,
     !.hypertable = IF s.hypertable = NoValue THEN NoValue ELSE [i \in DOMAIN @ |-> @[i].time],
     !.indexes = {i \in @ : t.hypertable # NoValue => i.cols # t.hypertable[1].time}]

(* Altering a table along any sequence of specs ends in the schema that    *)
(* creating the last spec, where it can be created, would have given.      *)
SpecReached ==
  phase = "applied" /\ spec.hasSchema /\ ~PlanTableSchema(engine, spec, NoTable).error =>
    Managed(spec, table) = Managed(spec, FromScratch(engine, spec))

(* The specs that can be settled on sqlite, rqlite and cassandra: what is   *)
(* read back of the table can say what the spec says.  Sqlite's foreign     *)
(* keys and autoincrement never read back as written; of cassandra's        *)
(* properties some are not read at all, and those every table has, the      *)
(* chances and the maps, must all be in the spec, written as they are read  *)
(* back.  A name is one column's and one index's, and sqlite's indexes have *)
(* a name, columns and uniqueness only.                                     *)
IsColumn(c) ==
  /\ DOMAIN c = DOMAIN Column("", "", "", NoValue)
  /\ \A i \in DOMAIN c.default : "meaning" \in DOMAIN c.default[i]

IsPlain(idx) == idx = Index(idx.name, idx.cols, idx.unique) /\ IsSequence(idx.cols)

SettlesInSqlite(s) ==
  /\ s.foreignKeys = <<>>
  /\ \A c \in Range(s.columns) : c.autoIncrement # "true"
  /\ \A d \in Range(s.indexes) : IsPlain(d)
  /\ \A d, x \in Range(s.indexes) : NamedIndex(d).name = NamedIndex(x).name => d = x

SettlesInCassandra(s) ==
  s.properties # NoValue =>
    LET wanted == s.properties[1]
    IN /\ CS!Chances \cup CS!Maps \subseteq DOMAIN wanted
       /\ DOMAIN wanted \subseteq CS!Chances \cup CS!Maps \cup {"comment"}
       /\ \A p \in DOMAIN wanted : CS!Printed(p, KeptValue(wanted[p])) = wanted[p]

Settles(e, s) ==
  /\ \A c \in Range(s.columns) : IsColumn(c)
  /\ \A c, d \in Range(s.columns) : c.name = d.name => c = d
  /\ e \in SqliteLike => SettlesInSqlite(s)
  /\ e = "cassandra" => SettlesInCassandra(s)

ConvergingEngines == SqliteLike \cup {"cassandra"}
SpecsSettle == \A e \in Engines \cap ConvergingEngines : \A s \in Specs(e) : Settles(e, s)

(* Planning a spec again that was just applied finds nothing to do but its *)
(* seed rows.                                                              *)
ReplanIsEmpty ==
  phase = "applied" =>
    \A i \in DOMAIN PlanTableSchema(engine, spec, table).statements :
       PlanTableSchema(engine, spec, table).statements[i].op = "seed"

(* Once a spec with seed rows is applied they are in the table, also when  *)
(* the rows were copied to a new table or the deployment was cut short     *)
(* before; cassandra's planner leaves them out beside a schema.            *)
SeedsArrive ==
  phase = "applied" /\ spec.seedData /\ ~spec.isDeleted /\ ~(engine = "cassandra" /\ spec.hasSchema) =>
    table.seeds > 0

(* The YAML generated from a live table describes that table: planned, it  *)
(* changes nothing, but that checks, exclusions and triggers, which it     *)
(* leaves out, are dropped.  Mysql's integers come out as decimals, and    *)
(* timescaledb's tables without a schema.                                  *)
GeneratedInSync ==
  phase = "applied" /\ table.exists /\ engine \notin {"mysql", "timescaledb"} =>
    \A i \in DOMAIN PlanTableSchema(engine, GE!generateTableYAML(engine, table), table).statements :
      LET s == PlanTableSchema(engine, GE!generateTableYAML(engine, table), table).statements[i]
      IN \/ s.op = "dropConstraint" /\ s.arg \in NamesOf(table.checks) \cup NamesOf(table.exclusions)
         \/ s.op = "dropTriggerIfExists"

(* No step loses the values of a column the spec keeps: not an alteration, *)
(* not a copy into a new table, not one that is cut short.                 *)
RowsKept ==
  [][~spec.isDeleted => \A n \in table.filled : ~spec.hasSchema \/ HasName(spec.columns, n) => n \in table'.filled]_vars

(* What a table has exactly as the spec wants it is never dropped while    *)
(* the spec is applied: no key, index, constraint or policy is missing     *)
(* for a moment because something else changed.                            *)
WantedNeverDropped ==
  [][LET have == Schema(table) want == Schema(FromScratch(engine, spec)) then == Schema(table')
     IN table.exists /\ spec.hasSchema /\ ~spec.isDeleted =>
          /\ have.foreignKeys \cap want.foreignKeys \subseteq then.foreignKeys
          /\ have.indexes \cap want.indexes \subseteq then.indexes
          /\ have.checks \cap want.checks \subseteq then.checks
          /\ have.exclusions \cap want.exclusions \subseteq then.exclusions
          /\ have.triggers \cap want.triggers \subseteq then.triggers
          /\ have.policies \cap want.policies \subseteq then.policies]_vars

(* The policies of a table whose spec says nothing of row-level security   *)
(* are left as they are.                                                   *)
UnmanagedPoliciesKept ==
  [][spec.rls = NoValue /\ ~spec.isDeleted => table'.policies = table.policies]_vars
=============================================================================
