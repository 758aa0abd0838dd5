------------------------------ MODULE Planners ------------------------------
(***************************************************************************)
(* The planners of the plugins, and which of them plans a Table            *)
(* (pkg/database/plugin, PlanTableSchema of every plugin).                 *)
(***************************************************************************)
EXTENDS SchemaTypes
PG == INSTANCE PostgresPlanner
TS == INSTANCE TimescalePlanner
MY == INSTANCE MysqlPlanner
SQ == INSTANCE SqlitePlanner
RQ == INSTANCE RqlitePlanner
CS == INSTANCE CassandraPlanner

(* A Table without a schema for its engine has only seed rows.             *)
PlanTableSchema(e, s, t) ==
  CASE e = "postgres" -> IF s.hasSchema THEN PG!PlanPostgresTable(s, t) ELSE PG!PlanPostgresTableSeedDataOnly(s, t)
    [] e = "timescaledb" ->
         IF s.hasSchema THEN TS!PlanTimescaleDBTable(s, t) ELSE PG!PlanPostgresTableSeedDataOnly(s, t)
    [] e = "mysql" -> IF s.hasSchema THEN MY!PlanMysqlTable(s, t) ELSE MY!PlanMysqlTableSeedDataOnly(s, t)
    [] e = "sqlite" -> IF s.hasSchema THEN SQ!PlanSqliteTable(s, t) ELSE SQ!PlanSqliteTableSeedDataOnly(s, t)
    [] e = "rqlite" -> IF s.hasSchema THEN RQ!PlanRqliteTable(s, t) ELSE RQ!PlanRqliteTableSeedDataOnly(s, t)
    [] e = "cassandra" ->
         IF s.hasSchema THEN CS!planCassandraTable(s, t) ELSE CS!planCassandraTableSeedDataOnly(s, t)
=============================================================================
