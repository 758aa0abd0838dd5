---------------------------- MODULE MCPlanning ----------------------------
(***************************************************************************)
(* Small sets of specs for Planning: for each engine the edits its planner *)
(* can make.  Every spec may be edited into every other one.               *)
(***************************************************************************)
EXTENDS Planning

ID == Column("id", <<"integer", "">>, "true", NoValue)
Base == [EmptySpec EXCEPT !.primaryKey = <<"id">>, !.columns = <<ID>>]

Loose == Column("a", <<"varchar", "10">>, "unset", NoValue)
Strict == Column("a", <<"varchar", "10">>, "true", NoValue)
Required == Column("a", <<"varchar", "10">>, "true", <<Expr("x")>>)
Narrow == Column("b", <<"varchar", "10">>, "unset", <<Expr("y")>>)
Wide == Column("b", <<"varchar", "20">>, "unset", <<Expr("z")>>)

With(cols) == [Base EXCEPT !.columns = <<ID>> \o cols]
Deleted(s) == [s EXCEPT !.isDeleted = TRUE]
SeedOnly == [EmptySpec EXCEPT !.hasSchema = FALSE, !.seedData = TRUE]

Secured(command) ==
  [With(<<Loose>>) EXCEPT
     !.rls = <<[enable |-> "enable", force |-> "force"]>>,
     !.policies = <<Policy(<<"p">>, command, {"app"}, Expr("mine")), Policy(<<"q">>, "", {}, Expr("all"))>>,
     !.triggers = <<Constraint(<<"stamp">>, Expr("on update"))>>]

Guarded(limit) ==
  [With(<<Loose, Wide>>) EXCEPT
     !.checks = <<Constraint(<<"small">>, Expr(limit)), Constraint(NoName, Expr("a > 1"))>>,
     !.exclusions = <<Constraint(<<"apart">>, Expr("ranges"))>>,
     !.indexes = <<Index(NoName, <<"a">>, TRUE), Index(NoName, <<"b">>, FALSE), [Index(<<"part">>, <<"a">>, FALSE) EXCEPT !.where = <<Expr("a > 1")>>]>>]

Linked(onDelete) == [With(<<Loose>>) EXCEPT !.foreignKeys = <<ForeignKey(NoName, <<"a">>, "parent", onDelete)>>]
Keyless == [With(<<Loose>>) EXCEPT !.primaryKey = <<>>]

TwoKeys(parentKey) ==
  [With(<<Loose, Wide>>) EXCEPT
     !.foreignKeys = <<ForeignKey(parentKey, <<"a">>, "parent", ""), ForeignKey(NoName, <<"b">>, "other", "")>>]

PostgresSpecs ==
  {With(<<Loose>>), With(<<Strict>>), With(<<Required, Narrow>>), Secured("SELECT"), Secured("ALL"),
   Guarded("a < 3"), Guarded("a < 5"), [With(<<Loose, Wide>>) EXCEPT !.seedData = TRUE], 
   Linked("CASCADE"), Linked(""), Keyless, Deleted(Base), SeedOnly}

Indexed(idx) == [With(<<Loose, Wide>>) EXCEPT !.indexes = idx]
Charset(charset, collation) == [With(<<Loose>>) EXCEPT !.charset = charset, !.collation = collation]

MysqlSpecs ==
  {With(<<Loose>>), With(<<Strict>>), With(<<Required, Narrow>>), [With(<<Loose, Wide>>) EXCEPT !.seedData = TRUE],
   Indexed(<<Index(NoName, <<"a">>, TRUE), Index(NoName, <<"b">>, FALSE)>>), Indexed(<<Index(NoName, <<"a">>, FALSE)>>),
   Charset("utf8", ""), Charset("", "utf8_ci"), Keyless, Linked("CASCADE"), Deleted(Base), SeedOnly}

SqliteSpecs ==
  {With(<<Loose>>), With(<<Strict>>), With(<<Required, Narrow>>), [With(<<Loose, Wide>>) EXCEPT !.seedData = TRUE],
   Indexed(<<Index(NoName, <<"a">>, TRUE), Index(NoName, <<"b">>, FALSE)>>), Indexed(<<Index(NoName, <<"a">>, FALSE)>>),
   Keyless, Deleted(Base), SeedOnly}

Blank == Column("e", <<"varchar", "10">>, "unset", <<RQ!EmptyStringSentinel>>)
RqliteSpecs == SqliteSpecs \cup {With(<<Blank>>), With(<<Loose, Blank>>)}

Time == Column("t", <<"timestamptz", "">>, "true", NoValue)
Series(cols) == [With(<<Time>> \o cols) EXCEPT !.primaryKey = <<"id", "t">>]
Hyper(cols, h) == [Series(cols) EXCEPT !.hypertable = <<h>>]
OnTime == [TS!Hypertable(<<"t">>) EXCEPT !.migrateData = TRUE]
OnNothing == [OnTime EXCEPT !.partitioning = <<"a">>]

TimescaleSpecs ==
  {Series(<<Loose>>), Hyper(<<Loose>>, OnTime), Hyper(<<Required, Narrow>>, OnTime), Hyper(<<Strict>>, OnNothing),
   [Hyper(<<Loose, Wide>>, [OnTime EXCEPT !.retained = TRUE, !.segmentBy = <<"a">>]) EXCEPT !.seedData = TRUE],
   [Hyper(<<Loose, Wide>>, OnTime) EXCEPT !.indexes = <<Index(NoName, <<"a", "t">>, TRUE)>>],
   Deleted(Series(<<>>)), SeedOnly}

Word(n, type) == Column(n, <<type, "">>, "unset", NoValue)
Described(comment, compaction) ==
  [With(<<Word("a", "text")>>) EXCEPT
     !.properties = <<[comment |-> comment, bloom_filter_fp_chance |-> "0.010000", crc_check_chance |-> "1.000000",
                       dclocal_read_repair_chance |-> "0.100000", caching |-> "all keys",
                       compaction |-> compaction, compression |-> "lz4 in full"]>>]

CassandraSpecs ==
  {With(<<Word("a", "varchar")>>), With(<<Word("a", "text"), Word("b", "varchar")>>), With(<<Word("b", "text")>>),
   Described("one", "tiered in full"), Described("", "leveled in full"), Deleted(Base), SeedOnly}

(* Two foreign keys, the first of which is renamed.                        *)
ForeignKeySpecs(e) == {TwoKeys(<<"old">>), TwoKeys(<<"new">>)}

MCSpecs(e) ==
  CASE e = "postgres" -> PostgresSpecs
    [] e = "timescaledb" -> TimescaleSpecs
    [] e = "mysql" -> MysqlSpecs
    [] e = "sqlite" -> SqliteSpecs
    [] e = "rqlite" -> RqliteSpecs
    [] e = "cassandra" -> CassandraSpecs

\* What the convergence theorems ask of the specs holds of these.
ASSUME SettleAssumption == SpecsSettle
=============================================================================
