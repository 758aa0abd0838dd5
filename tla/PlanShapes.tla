----------------------------- MODULE PlanShapes -----------------------------
(***************************************************************************)
(* What a plan consists of, for any spec and any table: which statements   *)
(* each engine's planner may plan, and in which order those come that make *)
(* a table, drop it or copy its rows to a new one.                         *)
(***************************************************************************)
EXTENDS Planners, SequenceFacts

\* The columns a spec keeps: a Table without a schema keeps all of them.
Kept(sp, n) == ~sp.hasSchema \/ HasName(sp.columns, n)

TableOps == {"createTable", "dropTable", "renameTable", "copyRows", "dropOldTable", "begin", "commit"}
PolicyOps == {"createPolicy", "dropPolicyIfExists"}
PolicyEngines == {"postgres", "timescaledb"}

\* A statement that alters the table and drops nothing the spec keeps.
Harmless(e, sp, st) ==
  /\ st.op \notin TableOps
  /\ st.op = "dropColumn" => ~Kept(sp, st.arg)
  /\ st.op \in {"addColumn", "modifyColumn"} => "name" \in DOMAIN st.arg
  /\ st.op \in PolicyOps => e \in PolicyEngines /\ sp.rls # NoValue

Each(e, sp, q) == IsSequence(q) /\ \A st \in Range(q) : Harmless(e, sp, st)

\* What planning needs to know of the table.
IsTable(t) ==
  /\ DOMAIN t = DOMAIN NoTable
  /\ IsSequence(t.columns) /\ \A c \in Range(t.columns) : "name" \in DOMAIN c
  /\ IsSequence(t.foreignKeys) /\ IsSequence(t.indexes) /\ IsSequence(t.checks)
  /\ IsSequence(t.exclusions) /\ IsSequence(t.triggers) /\ IsSequence(t.policies)

\* A statement that makes the spec's table, without rows and policies.
IsCreate(sp, st) ==
  /\ st.op = "createTable" /\ IsTable(st.arg) /\ st.arg.exists
  /\ NamesOf(st.arg.columns) = NamesOf(sp.columns)
  /\ st.arg.filled = {} /\ st.arg.nulls = {} /\ st.arg.seeds = 0 /\ st.arg.policies = <<>>

\* The plan of a new table, and one that ends with the seed rows in it.
Creating(e, sp, q) ==
  /\ IsSequence(q) /\ q # <<>> /\ IsCreate(sp, q[1])
  /\ \A i \in DOMAIN q : i # 1 => Harmless(e, sp, q[i])

Seeded(q) == \E st \in Range(q) : st.op = "seed"

\* Cassandra's planner leaves the seed rows out beside a schema.
SeedsDue(e, sp) == sp.seedData /\ ~sp.isDeleted /\ ~(e = "cassandra" /\ sp.hasSchema)

\* A copy with k statements left before the indexes of the new table: "begin",
\* where sqlite's planner has it, the old table renamed and the new one made.
\* Then the rows are copied, column by column of the spec, the old table goes,
\* and with sqlite the transaction ends.
Copying(e, sp, q, k) ==
  LET end == IF e = "sqlite" THEN 2 ELSE 1
  IN /\ IsSequence(q)
     /\ k = 3 => q[1].op = "begin"
     /\ k >= 2 => q[k - 1].op = "renameTable"
     /\ k >= 1 => IsCreate(sp, q[k])
     /\ \E c \in 1..Len(q) :
          /\ c > k /\ c + end <= Len(q)
          /\ \A i \in (k + 1)..(c - 1) : q[i].op = "addIndex"
          /\ q[c].op = "copyRows" /\ q[c].arg = NamesOf(sp.columns)
          /\ q[c + 1].op = "dropOldTable"
          /\ e = "sqlite" => q[c + 2].op = "commit"
          /\ \A i \in (c + end + 1)..Len(q) : Harmless(e, sp, q[i])

\* What planning sp for table t may return.
PlanShape(e, sp, t, q) ==
  /\ IsSequence(q)
  /\ SeedsDue(e, sp) => Seeded(q)
  /\ \/ Each(e, sp, q) /\ (t.exists \/ q = <<>>)
     \/ Creating(e, sp, q) /\ ~t.exists
     \/ q = <<[op |-> "dropTable", arg |-> ""]>> /\ sp.isDeleted
     \/ /\ t.exists /\ sp.hasSchema
        /\ \/ e = "sqlite" /\ Copying(e, sp, q, 3)
           \/ e = "rqlite" /\ Copying(e, sp, q, 2)

Shaped(e, sp, t, result) == result.error \/ PlanShape(e, sp, t, result.statements)

-----------------------------------------------------------------------------
(* Sequences of harmless statements.                                       *)

LEMMA EachLiteral ==
  ASSUME NEW e, NEW sp
  PROVE  /\ Each(e, sp, <<>>)
         /\ \A a : Harmless(e, sp, a) => Each(e, sp, <<a>>)
         /\ \A a, b : Harmless(e, sp, a) /\ Harmless(e, sp, b) => Each(e, sp, <<a, b>>)
  BY Literals DEF Each

LEMMA EachConcat ==
  ASSUME NEW e, NEW sp, NEW q, Each(e, sp, q), NEW r, Each(e, sp, r)
  PROVE  Each(e, sp, q \o r)
  BY Concatenated DEF Each

LEMMA EachMapped ==
  ASSUME NEW e, NEW sp, NEW s, IsSequence(s), NEW f, f = [i \in DOMAIN s |-> f[i]],
         \A i \in DOMAIN s : Harmless(e, sp, f[i])
  PROVE  Each(e, sp, f)
  <1>1. IsSequence(f)
    BY SequenceDomain, FunctionSequence
  <1> QED
    BY <1>1 DEF Each, Range

LEMMA EachFlat ==
  ASSUME NEW e, NEW sp, NEW s, IsSequence(s), NEW f, f = [i \in DOMAIN s |-> f[i]],
         \A i \in DOMAIN s : Each(e, sp, f[i])
  PROVE  Each(e, sp, Flatten(f))
  <1>1. IsSequence(f)
    BY SequenceDomain, FunctionSequence
  <1>2. \A i \in DOMAIN f : IsSequence(f[i])
    BY DEF Each
  <1>3. IsSequence(Flatten(f)) /\ Range(Flatten(f)) = UNION {Range(f[i]) : i \in DOMAIN f}
    BY <1>1, <1>2, Flattened
  <1> QED
    BY <1>3 DEF Each

\* A function of the elements of a sequence.
LEMMA Mapped ==
  ASSUME NEW s, IsSequence(s), NEW f, f = [i \in DOMAIN s |-> f[i]]
  PROVE  IsSequence(f) /\ DOMAIN f = DOMAIN s
  BY SequenceDomain, FunctionSequence

LEMMA CreatingOne ==
  ASSUME NEW e, NEW sp, NEW st, IsCreate(sp, st)
  PROVE  Creating(e, sp, <<st>>)
  <1>1. IsSequence(<<st>>) /\ <<st>> # <<>> /\ <<st>>[1] = st /\ DOMAIN <<st>> = {1}
    BY Literals
  <1> QED
    BY <1>1 DEF Creating

LEMMA CreatingThen ==
  ASSUME NEW e, NEW sp, NEW q, Creating(e, sp, q), NEW r, Each(e, sp, r)
  PROVE  Creating(e, sp, q \o r)
  <1>1. IsSequence(q) /\ IsSequence(r) /\ q # <<>>
    BY DEF Creating, Each
  <1>2. Len(q) \in Nat /\ Len(q) > 0
    BY <1>1, Tailed
  <1> DEFINE u == q \o r
  <1>3. /\ Len(r) \in Nat /\ DOMAIN q = 1..Len(q) /\ DOMAIN r = 1..Len(r) /\ DOMAIN u = 1..(Len(q) + Len(r))
        /\ \A i \in 1..(Len(q) + Len(r)) : u[i] = IF i <= Len(q) THEN q[i] ELSE r[i - Len(q)]
        /\ IsSequence(u)
    BY <1>1, ConcatenatedAt, Concatenated
  <1> HIDE DEF u
  <1>4. u # <<>> /\ u[1] = q[1]
    BY <1>2, <1>3
  <1>5. ASSUME NEW i \in DOMAIN u, i # 1 PROVE Harmless(e, sp, u[i])
    <2>1. CASE i <= Len(q)
      <3>1. i \in DOMAIN q /\ u[i] = q[i]
        BY <1>2, <1>3, <2>1
      <3> QED
        BY <1>5, <3>1 DEF Creating
    <2>2. CASE ~(i <= Len(q))
      <3>1. i - Len(q) \in DOMAIN r /\ u[i] = r[i - Len(q)]
        BY <1>2, <1>3, <2>2
      <3>2. r[i - Len(q)] \in Range(r)
        BY <3>1, <1>1, SequenceDomain
      <3> QED
        BY <3>1, <3>2 DEF Each
    <2> QED
      BY <2>1, <2>2
  <1>6. Creating(e, sp, u)
    BY <1>3, <1>4, <1>5 DEF Creating
  <1> QED
    BY <1>6 DEF u

LEMMA SeededConcat ==
  ASSUME NEW q, IsSequence(q), NEW r, IsSequence(r), Seeded(q) \/ Seeded(r)
  PROVE  Seeded(q \o r)
  BY Concatenated DEF Seeded

\* Plans that only alter, that make a table, and that drop one.
LEMMA AlteringShape ==
  ASSUME NEW e, NEW sp, NEW t, NEW q, Each(e, sp, q), t.exists \/ q = <<>>, SeedsDue(e, sp) => Seeded(q)
  PROVE  PlanShape(e, sp, t, q)
  BY Zenon DEF PlanShape, Each

LEMMA CreatingShape ==
  ASSUME NEW e, NEW sp, NEW t, NEW q, Creating(e, sp, q), ~t.exists, SeedsDue(e, sp) => Seeded(q)
  PROVE  PlanShape(e, sp, t, q)
  BY Zenon DEF PlanShape, Creating

LEMMA DroppingShape ==
  ASSUME NEW e, NEW sp, sp.isDeleted, NEW t, NEW q,
         q = IF t.exists THEN <<[op |-> "dropTable", arg |-> ""]>> ELSE <<>>
  PROVE  PlanShape(e, sp, t, q)
  <1>1. ~SeedsDue(e, sp)
    BY Zenon DEF SeedsDue
  <1>2. Each(e, sp, <<>>) /\ IsSequence(q)
    BY EachLiteral, Literals, Zenon
  <1> QED
    BY <1>1, <1>2, Zenon DEF PlanShape

\* Seed rows that replace the row of their key, and a plan of nothing else.
LEMMA KeySeeds ==
  ASSUME NEW e, NEW sp, NEW seeds, seeds = IF sp.seedData THEN <<[op |-> "seed", arg |-> "key"]>> ELSE <<>>
  PROVE  /\ Each(e, sp, seeds)
         /\ sp.seedData => Seeded(seeds)
         /\ ~sp.seedData => seeds = <<>>
  <1> DEFINE a == [op |-> "seed", arg |-> "key"]
  <1>1. Harmless(e, sp, a) /\ a.op = "seed"
    BY DEF Harmless, TableOps, PolicyOps
  <1>2. seeds = IF sp.seedData THEN <<a>> ELSE <<>>
    OBVIOUS
  <1> HIDE DEF a
  <1>3. Each(e, sp, <<a>>) /\ Seeded(<<a>>) /\ Each(e, sp, <<>>)
    BY <1>1, EachLiteral, Literals DEF Seeded
  <1> QED
    BY <1>2, <1>3

LEMMA SeedsShape ==
  ASSUME NEW e, NEW sp, NEW t, NEW seeds, seeds = IF sp.seedData THEN <<[op |-> "seed", arg |-> "key"]>> ELSE <<>>,
         NEW result,
         result = IF sp.seedData /\ ~t.exists THEN [error |-> TRUE, statements |-> <<>>]
                  ELSE [error |-> FALSE, statements |-> seeds]
  PROVE  Shaped(e, sp, t, result)
  <1>1. /\ Each(e, sp, seeds) /\ (sp.seedData => Seeded(seeds)) /\ (~sp.seedData => seeds = <<>>)
    BY KeySeeds
  <1>2. CASE sp.seedData /\ ~t.exists
    BY <1>2 DEF Shaped
  <1>3. CASE ~(sp.seedData /\ ~t.exists)
    <2>1. PlanShape(e, sp, t, seeds)
      BY <1>1, <1>3, AlteringShape DEF SeedsDue
    <2> QED
      BY <1>3, <2>1 DEF Shaped
  <1> QED
    BY <1>2, <1>3

-----------------------------------------------------------------------------
(* Postgres.                                                               *)

LEMMA PGSame ==
  /\ \A s : PG!Flatten(s) = Flatten(s)
  /\ \A s, n : PG!HasName(s, n) = HasName(s, n)
  /\ \A op, arg : PG!Statement(op, arg) = [op |-> op, arg |-> arg]
  BY DEF PG!Flatten, Flatten, PG!HasName, HasName, PG!NamesOf, NamesOf, PG!Statement

LEMMA PGAlterColumn ==
  ASSUME NEW e, NEW sp, sp.hasSchema, NEW existing
  PROVE  Each(e, sp, PG!AlterColumnStatements(sp, existing))
  <1> DEFINE column == PG!schemaColumnToColumn(PG!ByName(sp.columns, existing.name))
             change == PG!ChangeColumn(existing, column, sp.primaryKey)
             notNull == PG!AddNotNullStatements(existing, column)
             alter == IF column.type[1] \in {"serial", "bigserial"} \/ PG!NoChange(change) THEN <<>>
                      ELSE <<PG!Statement("alterColumn", change)>>
  <1>1. CASE ~HasName(sp.columns, existing.name)
    <2>1. PG!AlterColumnStatements(sp, existing) = <<[op |-> "dropColumn", arg |-> existing.name]>>
      BY <1>1, PGSame DEF PG!AlterColumnStatements
    <2>2. Harmless(e, sp, [op |-> "dropColumn", arg |-> existing.name])
      BY <1>1 DEF Harmless, Kept, TableOps, PolicyOps
    <2> QED
      BY <2>1, <2>2, EachLiteral
  <1>2. CASE HasName(sp.columns, existing.name)
    <2>1. PG!AlterColumnStatements(sp, existing) \in {<<>>, notNull, alter}
      <3>1. PG!AlterColumnStatements(sp, existing) =
               CASE PG!columnsMatch(existing, column) -> <<>>
                 [] ~PG!columnsMatch(existing, column) /\ column.notNull = "true" /\ existing.notNull # "true" ->
                      notNull
                 [] OTHER -> alter
        BY <1>2, PGSame, Zenon DEF PG!AlterColumnStatements
      <3> HIDE DEF column, change, notNull, alter
      <3>2. CASE PG!columnsMatch(existing, column)
        BY <3>1, <3>2, Zenon
      <3>3. CASE ~PG!columnsMatch(existing, column) /\ column.notNull = "true" /\ existing.notNull # "true"
        BY <3>1, <3>3, Zenon
      <3>4. CASE ~PG!columnsMatch(existing, column) /\ ~(column.notNull = "true" /\ existing.notNull # "true")
        BY <3>1, <3>4, Zenon
      <3> QED
        BY <3>2, <3>3, <3>4
    <2>2. Each(e, sp, notNull)
      <3> DEFINE a == [op |-> "setDefault", arg |-> [name |-> column.name, default |-> column.default]]
                 b == [op |-> "fillNulls", arg |-> column.name]
                 c == [op |-> "setNotNull", arg |-> column.name]
      <3>1. Harmless(e, sp, a) /\ Harmless(e, sp, b) /\ Harmless(e, sp, c)
        BY SMTT(30) DEF Harmless, TableOps, PolicyOps
      <3>2. PICK x, y : notNull = x \o y \o <<c>> /\ x \in {<<>>, <<a>>} /\ y \in {<<>>, <<b>>}
        BY PGSame DEF PG!AddNotNullStatements
      <3> HIDE DEF a, b, c, notNull
      <3>3. Each(e, sp, x) /\ Each(e, sp, y) /\ Each(e, sp, <<c>>)
        BY <3>1, <3>2, EachLiteral
      <3>4. Each(e, sp, x \o y)
        BY <3>3, EachConcat
      <3> QED
        BY <3>2, <3>3, <3>4, EachConcat
    <2>3. Each(e, sp, alter)
      <3>1. Harmless(e, sp, [op |-> "alterColumn", arg |-> change])
        BY DEF Harmless, TableOps, PolicyOps
      <3> HIDE DEF column, change
      <3> QED
        BY <3>1, EachLiteral, PGSame
    <2> HIDE DEF notNull, alter
    <2> QED
      BY <2>1, <2>2, <2>3, EachLiteral
  <1> QED
    BY <1>1, <1>2

LEMMA PGColumns ==
  ASSUME NEW e, NEW sp, IsSpec(sp), sp.hasSchema, NEW t, IsTable(t)
  PROVE  Each(e, sp, PG!BuildColumnStatements(sp, t))
  <1> DEFINE f == [i \in DOMAIN t.columns |-> PG!AlterColumnStatements(sp, PG!ExistingColumn(t.columns[i]))]
             g == [i \in DOMAIN sp.columns |->
                     IF HasName(t.columns, sp.columns[i].name) THEN <<>>
                     ELSE <<[op |-> "addColumn", arg |-> PG!schemaColumnToColumn(sp.columns[i])]>>]
  <1>1. PG!BuildColumnStatements(sp, t) = Flatten(f) \o Flatten(g)
    BY PGSame DEF PG!BuildColumnStatements, PG!FlatMap, PG!InsertColumnStatement
  <1>2. Each(e, sp, Flatten(f))
    <2>1. \A i \in DOMAIN t.columns : Each(e, sp, f[i])
      BY PGAlterColumn
    <2>2. f = [i \in DOMAIN t.columns |-> f[i]]
      OBVIOUS
    <2> HIDE DEF f
    <2> QED
      BY <2>1, <2>2, EachFlat DEF IsTable
  <1>3. Each(e, sp, Flatten(g))
    <2>1. ASSUME NEW i \in DOMAIN sp.columns
          PROVE  Harmless(e, sp, [op |-> "addColumn", arg |-> PG!schemaColumnToColumn(sp.columns[i])])
      <3>1. "name" \in DOMAIN sp.columns[i]
        BY DEF IsSpec, Range
      <3> QED
        BY <3>1 DEF Harmless, TableOps, PolicyOps, PG!schemaColumnToColumn
    <2>2. \A i \in DOMAIN sp.columns : Each(e, sp, g[i])
      BY <2>1, EachLiteral
    <2>3. g = [i \in DOMAIN sp.columns |-> g[i]]
      OBVIOUS
    <2> HIDE DEF g
    <2> QED
      BY <2>2, <2>3, EachFlat DEF IsSpec
  <1> HIDE DEF f, g
  <1> QED
    BY <1>1, <1>2, <1>3, EachConcat

LEMMA PGPrimaryKey ==
  ASSUME NEW e, NEW sp, NEW t
  PROVE  Each(e, sp, PG!BuildPrimaryKeyStatements(sp, t))
  <1> DEFINE a == [op |-> "dropConstraint", arg |-> PG!GenerateKeyName]
             b == [op |-> "addPrimaryKey", arg |-> sp.primaryKey]
  <1>1. Harmless(e, sp, a) /\ Harmless(e, sp, b)
    BY DEF Harmless, TableOps, PolicyOps
  <1>2. \/ PG!BuildPrimaryKeyStatements(sp, t) = <<>>
        \/ \E x, y : PG!BuildPrimaryKeyStatements(sp, t) = x \o y /\ x \in {<<>>, <<a>>} /\ y \in {<<>>, <<b>>}
    BY PGSame DEF PG!BuildPrimaryKeyStatements, PG!RemoveConstraintStatement
  <1> HIDE DEF a, b
  <1>3. ASSUME NEW x, NEW y, x \in {<<>>, <<a>>}, y \in {<<>>, <<b>>} PROVE Each(e, sp, x \o y)
    <2>1. Each(e, sp, x) /\ Each(e, sp, y)
      BY <1>1, <1>3, EachLiteral
    <2> QED
      BY <2>1, EachConcat
  <1>4. CASE PG!BuildPrimaryKeyStatements(sp, t) = <<>>
    BY <1>4, EachLiteral
  <1>5. ASSUME NEW x, NEW y, PG!BuildPrimaryKeyStatements(sp, t) = x \o y, x \in {<<>>, <<a>>}, y \in {<<>>, <<b>>}
        PROVE  Each(e, sp, PG!BuildPrimaryKeyStatements(sp, t))
    BY <1>3, <1>5
  <1> QED
    BY <1>2, <1>4, <1>5

\* What "Where" leaves is a sequence.
LEMMA Filtered ==
  ASSUME NEW s, IsSequence(s), NEW f, f = [i \in DOMAIN s |-> f[i]],
         \A i \in DOMAIN s : f[i] \in {<<>>, <<s[i]>>}
  PROVE  IsSequence(Flatten(f)) /\ Range(Flatten(f)) \subseteq Range(s)
  <1>1. IsSequence(f) /\ DOMAIN f = DOMAIN s
    BY Mapped
  <1>2. \A i \in DOMAIN f : IsSequence(f[i]) /\ Range(f[i]) \subseteq Range(s)
    <2> SUFFICES ASSUME NEW i \in DOMAIN s PROVE IsSequence(f[i]) /\ Range(f[i]) \subseteq Range(s)
      BY <1>1
    <2>1. f[i] = <<>> \/ f[i] = <<s[i]>>
      OBVIOUS
    <2>2. s[i] \in Range(s)
      BY SequenceDomain
    <2> QED
      BY <2>1, <2>2, Literals
  <1> QED
    BY <1>1, <1>2, Flattened

LEMMA PGForeignKeys ==
  ASSUME NEW e, NEW sp, IsSpec(sp), NEW t, IsTable(t)
  PROVE  Each(e, sp, PG!BuildForeignKeyStatements(sp, t))
  <1> DEFINE current == PG!ListTableForeignKeys(t)
             absent(s) == ~PG!AnySeq(current, LAMBDA fk : PG!ForeignKeyEquals(fk, s))
             h == [i \in DOMAIN sp.foreignKeys |->
                     IF absent(sp.foreignKeys[i]) THEN <<sp.foreignKeys[i]>> ELSE <<>>]
             missing == Flatten(h)
             replaced == IF current = <<>> \/ missing = <<>> THEN <<>> ELSE <<current[Len(current)].name>>
             drops == [i \in DOMAIN replaced |-> PG!RemoveConstraintStatement(replaced[i])]
             f == [i \in DOMAIN missing |-> drops \o <<PG!AddForeignKeyStatement(missing[i])>>]
             kept(fk) == PG!AnySeq(sp.foreignKeys, LAMBDA s : PG!ForeignKeyEquals(fk, s))
                           \/ PG!AnySeq(replaced, LAMBDA n : n = fk.name)
             g == [i \in DOMAIN current |->
                     IF kept(current[i]) THEN <<>> ELSE <<PG!RemoveConstraintStatement(current[i].name)>>]
  <1>1. PG!BuildForeignKeyStatements(sp, t) = Flatten(f) \o Flatten(g)
    BY PGSame, Zenon DEF PG!BuildForeignKeyStatements, PG!FlatMap, PG!Where
  <1>2. IsSequence(missing)
    <2>1. IsSequence(sp.foreignKeys) /\ h = [i \in DOMAIN sp.foreignKeys |-> h[i]]
      BY DEF IsSpec
    <2>2. \A i \in DOMAIN sp.foreignKeys : h[i] \in {<<>>, <<sp.foreignKeys[i]>>}
      OBVIOUS
    <2> HIDE DEF h
    <2> QED
      BY <2>1, <2>2, Filtered
  <1>3. IsSequence(current)
    BY Mapped, Zenon DEF IsTable, PG!ListTableForeignKeys
  <1>4. \A n : Harmless(e, sp, PG!RemoveConstraintStatement(n))
    BY PGSame DEF Harmless, TableOps, PolicyOps, PG!RemoveConstraintStatement
  <1>5. \A fk : Harmless(e, sp, PG!AddForeignKeyStatement(fk))
    BY PGSame DEF Harmless, TableOps, PolicyOps, PG!AddForeignKeyStatement
  <1>6. Each(e, sp, drops)
    <2>1. IsSequence(replaced)
      BY Literals
    <2> HIDE DEF replaced
    <2> QED
      BY <2>1, <1>4, EachMapped
  <1>7. Each(e, sp, Flatten(f))
    <2> HIDE DEF missing, drops
    <2>1. \A i \in DOMAIN missing : Each(e, sp, <<PG!AddForeignKeyStatement(missing[i])>>)
      BY <1>5, EachLiteral
    <2>2. \A i \in DOMAIN missing : Each(e, sp, f[i])
      BY <1>6, <2>1, EachConcat
    <2>3. f = [i \in DOMAIN missing |-> f[i]]
      OBVIOUS
    <2> HIDE DEF f
    <2> QED
      BY <1>2, <2>2, <2>3, EachFlat
  <1>8. Each(e, sp, Flatten(g))
    <2> HIDE DEF current, kept
    <2>1. \A i \in DOMAIN current : Each(e, sp, g[i])
      BY <1>4, EachLiteral
    <2>2. g = [i \in DOMAIN current |-> g[i]]
      OBVIOUS
    <2> HIDE DEF g
    <2> QED
      BY <1>3, <2>1, <2>2, EachFlat
  <1> HIDE DEF f, g
  <1> QED
    BY <1>1, <1>7, <1>8, EachConcat

LEMMA PGChecks ==
  ASSUME NEW e, NEW sp, IsSpec(sp), NEW t, IsTable(t)
  PROVE  Each(e, sp, PG!BuildCheckConstraintStatements(sp, t))
  <1> DEFINE current == PG!ListTableCheckConstraints(t)
             f == [i \in DOMAIN sp.checks |->
                     IF ~HasName(current, PG!GenerateCheckName(sp.checks[i])) THEN <<PG!AddCheckConstraintStatement(sp.checks[i])>>
                     ELSE IF PG!checkExprEquivalent(PG!ByName(current, PG!GenerateCheckName(sp.checks[i])), sp.checks[i]) THEN <<>>
                     ELSE <<PG!RemoveConstraintStatement(PG!GenerateCheckName(sp.checks[i])), PG!AddCheckConstraintStatement(sp.checks[i])>>]
             g == [i \in DOMAIN current |->
                     IF PG!AnySeq(sp.checks, LAMBDA d : PG!GenerateCheckName(d) = current[i].name) THEN <<>>
                     ELSE <<PG!RemoveConstraintStatement(current[i].name)>>]
  <1>1. PG!BuildCheckConstraintStatements(sp, t) = Flatten(f) \o Flatten(g)
    BY PGSame DEF PG!BuildCheckConstraintStatements, PG!NamedDiff, PG!FlatMap
  <1>2. \A n : Harmless(e, sp, PG!RemoveConstraintStatement(n))
    BY PGSame DEF Harmless, TableOps, PolicyOps, PG!RemoveConstraintStatement
  <1>3. \A c : Harmless(e, sp, PG!AddCheckConstraintStatement(c))
    BY PGSame DEF Harmless, TableOps, PolicyOps, PG!AddCheckConstraintStatement
  <1>4. IsSequence(current) /\ IsSequence(sp.checks)
    BY Mapped DEF IsTable, IsSpec, PG!ListTableCheckConstraints
  <1> HIDE DEF current
  <1>5. Each(e, sp, Flatten(f))
    <2>1. \A i \in DOMAIN sp.checks : Each(e, sp, f[i])
      BY <1>2, <1>3, EachLiteral
    <2>2. f = [i \in DOMAIN sp.checks |-> f[i]]
      OBVIOUS
    <2> HIDE DEF f
    <2> QED
      BY <1>4, <2>1, <2>2, EachFlat
  <1>6. Each(e, sp, Flatten(g))
    <2>1. \A i \in DOMAIN current : Each(e, sp, g[i])
      BY <1>2, EachLiteral
    <2>2. g = [i \in DOMAIN current |-> g[i]]
      OBVIOUS
    <2> HIDE DEF g
    <2> QED
      BY <1>4, <2>1, <2>2, EachFlat
  <1> HIDE DEF f, g
  <1> QED
    BY <1>1, <1>5, <1>6, EachConcat

LEMMA PGExclusions ==
  ASSUME NEW e, NEW sp, IsSpec(sp), NEW t, IsTable(t)
  PROVE  Each(e, sp, PG!BuildExclusionConstraintStatements(sp, t))
  <1> DEFINE current == PG!ListTableExclusionConstraints(t)
             f == [i \in DOMAIN sp.exclusions |->
                     IF ~HasName(current, PG!GenerateExclusionName(sp.exclusions[i])) THEN <<PG!AddExclusionConstraintStatement(sp.exclusions[i])>>
                     ELSE IF PG!ExclusionEquals(PG!ByName(current, PG!GenerateExclusionName(sp.exclusions[i])), sp.exclusions[i]) THEN <<>>
                     ELSE <<PG!RemoveConstraintStatement(PG!GenerateExclusionName(sp.exclusions[i])), PG!AddExclusionConstraintStatement(sp.exclusions[i])>>]
             g == [i \in DOMAIN current |->
                     IF PG!AnySeq(sp.exclusions, LAMBDA d : PG!GenerateExclusionName(d) = current[i].name) THEN <<>>
                     ELSE <<PG!RemoveConstraintStatement(current[i].name)>>]
  <1>1. PG!BuildExclusionConstraintStatements(sp, t) = Flatten(f) \o Flatten(g)
    BY PGSame DEF PG!BuildExclusionConstraintStatements, PG!NamedDiff, PG!FlatMap
  <1>2. \A n : Harmless(e, sp, PG!RemoveConstraintStatement(n))
    BY PGSame DEF Harmless, TableOps, PolicyOps, PG!RemoveConstraintStatement
  <1>3. \A c : Harmless(e, sp, PG!AddExclusionConstraintStatement(c))
    BY PGSame DEF Harmless, TableOps, PolicyOps, PG!AddExclusionConstraintStatement
  <1>4. IsSequence(current) /\ IsSequence(sp.exclusions)
    BY Mapped DEF IsTable, IsSpec, PG!ListTableExclusionConstraints
  <1> HIDE DEF current
  <1>5. Each(e, sp, Flatten(f))
    <2>1. \A i \in DOMAIN sp.exclusions : Each(e, sp, f[i])
      BY <1>2, <1>3, EachLiteral
    <2>2. f = [i \in DOMAIN sp.exclusions |-> f[i]]
      OBVIOUS
    <2> HIDE DEF f
    <2> QED
      BY <1>4, <2>1, <2>2, EachFlat
  <1>6. Each(e, sp, Flatten(g))
    <2>1. \A i \in DOMAIN current : Each(e, sp, g[i])
      BY <1>2, EachLiteral, Zenon
    <2>2. g = [i \in DOMAIN current |-> g[i]]
      BY ZenonT(60)
    <2> HIDE DEF g
    <2> QED
      BY <1>4, <2>1, <2>2, EachFlat
  <1> HIDE DEF f, g
  <1> QED
    BY <1>1, <1>5, <1>6, EachConcat

LEMMA PGTriggers ==
  ASSUME NEW e, NEW sp, IsSpec(sp), NEW t, IsTable(t)
  PROVE  Each(e, sp, PG!BuildTriggerStatements(sp, t))
  <1> DEFINE current == PG!ListTableTriggers(t)
             f == [i \in DOMAIN sp.triggers |->
                     IF ~HasName(current, sp.triggers[i].name) THEN <<PG!triggerCreateStatement(sp.triggers[i])>>
                     ELSE IF PG!CanonicalizeSQLExpr(PG!ByName(current, sp.triggers[i].name).expr) = PG!CanonicalizeSQLExpr(sp.triggers[i].expr) THEN <<>>
                     ELSE <<PG!dropTriggerStatement(sp.triggers[i].name), PG!triggerCreateStatement(sp.triggers[i])>>]
             g == [i \in DOMAIN current |->
                     IF PG!AnySeq(sp.triggers, LAMBDA d : d.name = current[i].name) THEN <<>>
                     ELSE <<PG!dropTriggerStatement(current[i].name)>>]
  <1>1. PG!BuildTriggerStatements(sp, t) = Flatten(f) \o Flatten(g)
    BY PGSame DEF PG!BuildTriggerStatements, PG!NamedDiff, PG!FlatMap
  <1>2. \A n : Harmless(e, sp, PG!dropTriggerStatement(n))
    BY PGSame DEF Harmless, TableOps, PolicyOps, PG!dropTriggerStatement
  <1>3. \A c : Harmless(e, sp, PG!triggerCreateStatement(c))
    BY PGSame DEF Harmless, TableOps, PolicyOps, PG!triggerCreateStatement
  <1>4. IsSequence(current) /\ IsSequence(sp.triggers)
    BY Mapped DEF IsTable, IsSpec, PG!ListTableTriggers
  <1> HIDE DEF current
  <1>5. Each(e, sp, Flatten(f))
    <2>1. \A i \in DOMAIN sp.triggers : Each(e, sp, f[i])
      BY <1>2, <1>3, EachLiteral
    <2>2. f = [i \in DOMAIN sp.triggers |-> f[i]]
      OBVIOUS
    <2> HIDE DEF f
    <2> QED
      BY <1>4, <2>1, <2>2, EachFlat
  <1>6. Each(e, sp, Flatten(g))
    <2>1. \A i \in DOMAIN current : Each(e, sp, g[i])
      BY <1>2, EachLiteral
    <2>2. g = [i \in DOMAIN current |-> g[i]]
      OBVIOUS
    <2> HIDE DEF g
    <2> QED
      BY <1>4, <2>1, <2>2, EachFlat
  <1> HIDE DEF f, g
  <1> QED
    BY <1>1, <1>5, <1>6, EachConcat

LEMMA PGPolicies ==
  ASSUME NEW e, NEW sp, IsSpec(sp), NEW t, IsTable(t), e \in PolicyEngines, sp.rls # NoValue
  PROVE  Each(e, sp, PG!NamedDiff(sp.policies, PG!ListTablePolicies(t), LAMBDA p : p.name, PG!AttributesEqual,
                             PG!CreatePolicyStatement, PG!RemovePolicyStatement))
  <1> DEFINE current == PG!ListTablePolicies(t)
             f == [i \in DOMAIN sp.policies |->
                     IF ~HasName(current, sp.policies[i].name) THEN <<PG!CreatePolicyStatement(sp.policies[i])>>
                     ELSE IF PG!AttributesEqual(PG!ByName(current, sp.policies[i].name), sp.policies[i]) THEN <<>>
                     ELSE <<PG!RemovePolicyStatement(sp.policies[i].name), PG!CreatePolicyStatement(sp.policies[i])>>]
             g == [i \in DOMAIN current |->
                     IF PG!AnySeq(sp.policies, LAMBDA d : d.name = current[i].name) THEN <<>>
                     ELSE <<PG!RemovePolicyStatement(current[i].name)>>]
  <1>1. PG!NamedDiff(sp.policies, PG!ListTablePolicies(t), LAMBDA p : p.name, PG!AttributesEqual,
                             PG!CreatePolicyStatement, PG!RemovePolicyStatement) = Flatten(f) \o Flatten(g)
    BY PGSame DEF PG!NamedDiff, PG!FlatMap
  <1>2. \A n : Harmless(e, sp, PG!RemovePolicyStatement(n))
    BY PGSame DEF Harmless, TableOps, PolicyOps, PG!RemovePolicyStatement
  <1>3. \A c : Harmless(e, sp, PG!CreatePolicyStatement(c))
    BY PGSame DEF Harmless, TableOps, PolicyOps, PG!CreatePolicyStatement
  <1>4. IsSequence(current) /\ IsSequence(sp.policies)
    BY Mapped, Zenon DEF IsTable, IsSpec, PG!ListTablePolicies
  <1> HIDE DEF current
  <1>5. Each(e, sp, Flatten(f))
    <2>1. \A i \in DOMAIN sp.policies : Each(e, sp, f[i])
      BY <1>2, <1>3, EachLiteral
    <2>2. f = [i \in DOMAIN sp.policies |-> f[i]]
      OBVIOUS
    <2> HIDE DEF f
    <2> QED
      BY <1>4, <2>1, <2>2, EachFlat
  <1>6. Each(e, sp, Flatten(g))
    <2>1. \A i \in DOMAIN current : Each(e, sp, g[i])
      BY <1>2, EachLiteral
    <2>2. g = [i \in DOMAIN current |-> g[i]]
      OBVIOUS
    <2> HIDE DEF g
    <2> QED
      BY <1>4, <2>1, <2>2, EachFlat
  <1> HIDE DEF f, g
  <1> QED
    BY <1>1, <1>5, <1>6, EachConcat

LEMMA PGRowSecurity ==
  ASSUME NEW e \in PolicyEngines, NEW sp, IsSpec(sp), NEW t, IsTable(t)
  PROVE  Each(e, sp, PG!BuildRowLevelSecurityStatements(sp, t))
  <1>1. CASE sp.rls = PG!NoValue
    BY <1>1, EachLiteral DEF PG!BuildRowLevelSecurityStatements
  <1>2. CASE sp.rls # PG!NoValue
    <2> DEFINE enable == PG!rowSecurityToggleStatement("rowSecurity", sp.rls[1].enable, t.rls.enable, "enable", "disable")
               force == PG!rowSecurityToggleStatement("forceSecurity", sp.rls[1].force, t.rls.force, "force", "noforce")
    <2>1. ASSUME NEW op \in {"rowSecurity", "forceSecurity"}, NEW desired, NEW current, NEW on, NEW off
          PROVE  Each(e, sp, PG!rowSecurityToggleStatement(op, desired, current, on, off))
      <3> DEFINE q == PG!rowSecurityToggleStatement(op, desired, current, on, off)
      <3>1. q = CASE desired = on /\ ~current -> <<PG!Statement(op, TRUE)>>
                  [] desired = off /\ current -> <<PG!Statement(op, FALSE)>>
                  [] OTHER -> <<>>
        BY DEF PG!rowSecurityToggleStatement
      <3>2. \A b : Harmless(e, sp, PG!Statement(op, b))
        BY PGSame DEF Harmless, TableOps, PolicyOps
      <3> HIDE DEF q
      <3>3. q \in {<<PG!Statement(op, TRUE)>>, <<PG!Statement(op, FALSE)>>, <<>>}
        <4>1. CASE desired = on /\ ~current /\ ~(desired = off /\ current)
          BY <3>1, <4>1, Zenon
        <4>2. CASE ~(desired = on /\ ~current) /\ desired = off /\ current
          BY <3>1, <4>2, Zenon
        <4>3. CASE ~(desired = on /\ ~current) /\ ~(desired = off /\ current)
          BY <3>1, <4>3, Zenon
        <4> QED
          BY <4>1, <4>2, <4>3
      <3> QED
        BY <3>2, <3>3, EachLiteral DEF q
    <2>2. Each(e, sp, enable) /\ Each(e, sp, force)
      BY <2>1
    <2>3. Each(e, sp, PG!NamedDiff(sp.policies, PG!ListTablePolicies(t), LAMBDA p : p.name, PG!AttributesEqual,
                                   PG!CreatePolicyStatement, PG!RemovePolicyStatement))
      BY <1>2, PGPolicies DEF PG!NoValue, NoValue
    <2>4. PG!BuildRowLevelSecurityStatements(sp, t) =
             enable \o force \o PG!NamedDiff(sp.policies, PG!ListTablePolicies(t), LAMBDA p : p.name, PG!AttributesEqual,
                                             PG!CreatePolicyStatement, PG!RemovePolicyStatement)
      BY <1>2 DEF PG!BuildRowLevelSecurityStatements
    <2> HIDE DEF enable, force
    <2>5. Each(e, sp, enable \o force)
      BY <2>2, EachConcat
    <2> QED
      BY <2>3, <2>4, <2>5, EachConcat
  <1> QED
    BY <1>1, <1>2

LEMMA PGIndexes ==
  ASSUME NEW e, NEW sp, IsSpec(sp), NEW t, IsTable(t)
  PROVE  Each(e, sp, PG!BuildIndexStatements(sp, t))
  <1> DEFINE desired == [i \in DOMAIN sp.indexes |-> PG!NamedIndex(sp.indexes[i])]
             current == PG!ListTableIndexes(t)
             isNew(d) == /\ t.exists \/ ~PG!isInlineFoldableUniqueIndex(d)
                         /\ ~PG!AnySeq(current, LAMBDA c : PG!IndexEquals(c, d))
             h == [i \in DOMAIN desired |-> IF isNew(desired[i]) THEN <<desired[i]>> ELSE <<>>]
             new == Flatten(h)
             f == [i \in DOMAIN new |->
                     (IF HasName(current, new[i].name) THEN <<PG!DropIndex(t, new[i].name)>> ELSE <<>>)
                     \o <<PG!AddIndexStatement(new[i])>>]
             g == [i \in DOMAIN current |->
                     IF PG!AnySeq(desired, LAMBDA d : PG!IndexEquals(current[i], d)) \/ HasName(new, current[i].name)
                     THEN <<>> ELSE <<PG!DropIndex(t, current[i].name)>>]
  <1>1. PG!BuildIndexStatements(sp, t) = Flatten(f) \o Flatten(g)
    BY PGSame, Zenon DEF PG!BuildIndexStatements, PG!FlatMap, PG!Where
  <1>2. IsSequence(new)
    <2>1. IsSequence(desired)
      BY Mapped DEF IsSpec
    <2> HIDE DEF desired, isNew
    <2>2. h = [i \in DOMAIN desired |-> h[i]] /\ \A i \in DOMAIN desired : h[i] \in {<<>>, <<desired[i]>>}
      OBVIOUS
    <2> HIDE DEF h
    <2> QED
      BY <2>1, <2>2, Filtered
  <1>3. IsSequence(current)
    BY Mapped, Zenon DEF IsTable, PG!ListTableIndexes
  <1>4. \A n : Harmless(e, sp, PG!DropIndex(t, n))
    BY PGSame DEF Harmless, TableOps, PolicyOps, PG!DropIndex, PG!RemoveConstraintStatement, PG!RemoveIndexStatement
  <1>5. \A d : Harmless(e, sp, PG!AddIndexStatement(d))
    BY PGSame DEF Harmless, TableOps, PolicyOps, PG!AddIndexStatement
  <1> HIDE DEF desired, current, new
  <1>6. Each(e, sp, Flatten(f))
    <2>1. ASSUME NEW i \in DOMAIN new PROVE Each(e, sp, f[i])
      <3>1. Each(e, sp, <<PG!AddIndexStatement(new[i])>>)
        BY <1>5, EachLiteral
      <3>2. Each(e, sp, IF HasName(current, new[i].name) THEN <<PG!DropIndex(t, new[i].name)>> ELSE <<>>)
        BY <1>4, EachLiteral
      <3> QED
        BY <3>1, <3>2, EachConcat
    <2>2. f = [i \in DOMAIN new |-> f[i]]
      OBVIOUS
    <2> HIDE DEF f
    <2> QED
      BY <1>2, <2>1, <2>2, EachFlat
  <1>7. Each(e, sp, Flatten(g))
    <2>1. \A i \in DOMAIN current : Each(e, sp, g[i])
      BY <1>4, EachLiteral
    <2>2. g = [i \in DOMAIN current |-> g[i]]
      OBVIOUS
    <2> HIDE DEF g
    <2> QED
      BY <1>3, <2>1, <2>2, EachFlat
  <1> HIDE DEF f, g
  <1> QED
    BY <1>1, <1>6, <1>7, EachConcat

LEMMA PGSeeds ==
  ASSUME NEW e, NEW sp, NEW schema
  PROVE  /\ Each(e, sp, PG!SeedDataStatements(schema))
         /\ schema.seedData => Seeded(PG!SeedDataStatements(schema))
         /\ ~schema.seedData => PG!SeedDataStatements(schema) = <<>>
  <1> DEFINE a == [op |-> "seed", arg |-> PG!findConflictInferenceSpec(schema)]
  <1>1. PG!SeedDataStatements(schema) = IF schema.seedData THEN <<a>> ELSE <<>>
    BY PGSame DEF PG!SeedDataStatements
  <1>2. Harmless(e, sp, a) /\ a.op = "seed"
    BY DEF Harmless, TableOps, PolicyOps
  <1> HIDE DEF a
  <1>3. Each(e, sp, <<a>>) /\ Seeded(<<a>>) /\ Each(e, sp, <<>>)
    BY <1>2, EachLiteral, Literals DEF Seeded
  <1> QED
    BY <1>1, <1>3

LEMMA PGCreateTable ==
  ASSUME NEW e \in PolicyEngines, NEW sp, IsSpec(sp)
  PROVE  Creating(e, sp, PG!CreateTableStatements(sp))
  <1> DEFINE columns == [i \in DOMAIN sp.columns |-> PG!schemaColumnToColumn(sp.columns[i])]
             fks == [i \in DOMAIN sp.foreignKeys |-> PG!AddForeignKeyStatement(sp.foreignKeys[i]).arg]
             checks == [i \in DOMAIN sp.checks |-> PG!AddCheckConstraintStatement(sp.checks[i]).arg]
             exclusions == [i \in DOMAIN sp.exclusions |-> PG!AddExclusionConstraintStatement(sp.exclusions[i]).arg]
             arg == [PG!NoTable EXCEPT !.exists = TRUE, !.columns = columns, !.primaryKey = sp.primaryKey,
                       !.indexes = PG!InlineIndexes(sp), !.foreignKeys = fks, !.checks = checks,
                       !.exclusions = exclusions]
             triggers == [i \in DOMAIN sp.triggers |-> PG!triggerCreateStatement(sp.triggers[i])]
             enable == IF sp.rls[1].enable = "enable" THEN <<PG!Statement("rowSecurity", TRUE)>> ELSE <<>>
             force == IF sp.rls[1].force = "force" THEN <<PG!Statement("forceSecurity", TRUE)>> ELSE <<>>
             policies == [i \in DOMAIN sp.policies |-> PG!CreatePolicyStatement(sp.policies[i])]
             security == IF sp.rls = PG!NoValue THEN <<>> ELSE enable \o force \o policies
  <1>1. PG!CreateTableStatements(sp) = <<PG!Statement("createTable", arg)>> \o triggers \o security
    BY DEF PG!CreateTableStatements
  <1>2. IsSequence(columns) /\ NamesOf(columns) = NamesOf(sp.columns) /\ \A c \in Range(columns) : "name" \in DOMAIN c
    <2>1. \A i \in DOMAIN sp.columns :
             "name" \in DOMAIN columns[i] /\ columns[i].name = sp.columns[i].name
      BY DEF IsSpec, Range, PG!schemaColumnToColumn
    <2>2. IsSequence(columns) /\ DOMAIN columns = DOMAIN sp.columns
      BY Mapped DEF IsSpec
    <2> HIDE DEF columns
    <2> QED
      BY <2>1, <2>2 DEF NamesOf, Range
  <1>3. IsSequence(fks) /\ IsSequence(checks) /\ IsSequence(exclusions)
    BY Mapped DEF IsSpec
  <1>4. IsSequence(PG!InlineIndexes(sp))
    <2> DEFINE h == [i \in DOMAIN sp.indexes |->
                       IF PG!isInlineFoldableUniqueIndex(sp.indexes[i]) THEN <<sp.indexes[i]>> ELSE <<>>]
               u == Flatten(h)
    <2>1. h = [i \in DOMAIN sp.indexes |-> h[i]] /\ \A i \in DOMAIN sp.indexes : h[i] \in {<<>>, <<sp.indexes[i]>>}
      OBVIOUS
    <2>2. PG!InlineIndexes(sp) = [i \in DOMAIN u |-> [u[i] EXCEPT !.name = PG!GenerateIndexName(u[i]),
                                                                   !.constraint = TRUE]]
      BY PGSame, Zenon DEF PG!InlineIndexes, PG!Where, PG!FlatMap
    <2>3. IsSequence(u)
      <3> HIDE DEF h
      <3> QED
        BY <2>1, Filtered DEF IsSpec
    <2> HIDE DEF u
    <2> QED
      BY <2>2, <2>3, Mapped, Zenon
  <1>5. IsCreate(sp, PG!Statement("createTable", arg))
    <2> HIDE DEF columns, fks, checks, exclusions
    <2>1. /\ DOMAIN arg = DOMAIN NoTable /\ arg.exists = TRUE /\ arg.columns = columns /\ arg.foreignKeys = fks
          /\ arg.indexes = PG!InlineIndexes(sp) /\ arg.checks = checks /\ arg.exclusions = exclusions
          /\ arg.triggers = <<>> /\ arg.policies = <<>> /\ arg.filled = {} /\ arg.nulls = {} /\ arg.seeds = 0
      BY DEF PG!NoTable, NoTable
    <2> HIDE DEF arg
    <2> QED
      BY <1>2, <1>3, <1>4, <2>1, PGSame, Literals DEF IsCreate, IsTable
  <1>6. Each(e, sp, triggers)
    <2>1. \A x : Harmless(e, sp, PG!triggerCreateStatement(x))
      BY PGSame DEF Harmless, TableOps, PolicyOps, PG!triggerCreateStatement
    <2> QED
      BY <2>1, EachMapped DEF IsSpec
  <1>7. Each(e, sp, security)
    <2>1. CASE sp.rls = PG!NoValue
      BY <2>1, EachLiteral
    <2>2. CASE sp.rls # PG!NoValue
      <3>1. \A x : Harmless(e, sp, PG!CreatePolicyStatement(x))
        BY <2>2, PGSame DEF Harmless, TableOps, PolicyOps, PG!CreatePolicyStatement, PG!NoValue, NoValue
      <3>2. Each(e, sp, policies)
        BY <3>1, EachMapped DEF IsSpec
      <3>3. Harmless(e, sp, PG!Statement("rowSecurity", TRUE)) /\ Harmless(e, sp, PG!Statement("forceSecurity", TRUE))
        BY PGSame DEF Harmless, TableOps, PolicyOps
      <3>4. Each(e, sp, enable) /\ Each(e, sp, force)
        BY <3>3, EachLiteral
      <3> HIDE DEF enable, force, policies
      <3>5. Each(e, sp, enable \o force)
        BY <3>4, EachConcat
      <3> QED
        BY <2>2, <3>2, <3>5, EachConcat
    <2> QED
      BY <2>1, <2>2
  <1> HIDE DEF arg, triggers, security
  <1>8. Creating(e, sp, <<PG!Statement("createTable", arg)>> \o triggers)
    BY <1>5, <1>6, CreatingOne, CreatingThen
  <1> QED
    BY <1>1, <1>7, <1>8, CreatingThen

LEMMA PGPlan ==
  ASSUME NEW e \in PolicyEngines, NEW sp, IsSpec(sp), sp.hasSchema, NEW t, IsTable(t)
  PROVE  Shaped(e, sp, t, PG!PlanPostgresTable(sp, t))
  <1> DEFINE result == PG!PlanPostgresTable(sp, t)
             seeds == PG!SeedDataStatements(sp)
  <1>0. Each(e, sp, seeds) /\ (sp.seedData => Seeded(seeds))
    BY PGSeeds
  <1> HIDE DEF seeds
  <1>1. CASE sp.isDeleted
    <2>1. result = PG!Result(IF t.exists THEN <<PG!Statement("dropTable", "")>> ELSE <<>>)
      BY <1>1, Zenon DEF PG!PlanPostgresTable
    <2> HIDE DEF result
    <2>2. result.statements = IF t.exists THEN <<[op |-> "dropTable", arg |-> ""]>> ELSE <<>>
      BY <2>1, PGSame, Zenon DEF PG!Result
    <2> QED
      BY <1>1, <2>2, DroppingShape, Zenon DEF Shaped, result
  <1>2. CASE ~sp.isDeleted /\ ~t.exists
    <2> DEFINE a == PG!CreateTableStatements(sp) b == PG!BuildIndexStatements(sp, t)
    <2>1. result = PG!Result(a \o seeds \o b)
      BY <1>2, Zenon DEF PG!PlanPostgresTable, seeds
    <2>2. result.statements = a \o seeds \o b
      BY <2>1 DEF PG!Result
    <2>3. Creating(e, sp, a) /\ Each(e, sp, b)
      BY PGCreateTable, PGIndexes
    <2> HIDE DEF a, b
    <2>4. Creating(e, sp, a \o seeds)
      BY <1>0, <2>3, CreatingThen
    <2>5. Creating(e, sp, a \o seeds \o b)
      BY <2>3, <2>4, CreatingThen
    <2>6. sp.seedData => Seeded(a \o seeds \o b)
      <3>1. IsSequence(a) /\ IsSequence(seeds) /\ IsSequence(a \o seeds) /\ IsSequence(b)
        BY <1>0, <2>3, <2>4 DEF Creating, Each
      <3> QED
        BY <1>0, <3>1, SeededConcat
    <2>7. PlanShape(e, sp, t, a \o seeds \o b)
      BY <1>2, <2>5, <2>6, CreatingShape DEF SeedsDue
    <2> QED
      BY <2>2, <2>7 DEF Shaped
  <1>3. CASE ~sp.isDeleted /\ t.exists /\ PG!Unmanageable(sp)
    <2>1. result = PG!PlanError
      BY <1>3, Zenon DEF PG!PlanPostgresTable
    <2> QED
      BY <2>1 DEF Shaped, PG!PlanError
  <1>4. CASE ~sp.isDeleted /\ t.exists /\ ~PG!Unmanageable(sp)
    <2> DEFINE a == PG!BuildColumnStatements(sp, t)
               b == PG!BuildPrimaryKeyStatements(sp, t)
               c == PG!BuildForeignKeyStatements(sp, t)
               d == PG!BuildCheckConstraintStatements(sp, t)
               f == PG!BuildIndexStatements(sp, t)
               g == PG!BuildExclusionConstraintStatements(sp, t)
               h == PG!BuildTriggerStatements(sp, t)
               i == PG!BuildRowLevelSecurityStatements(sp, t)
               body == a \o b \o c \o d \o f \o g \o h \o i
    <2>1. result = PG!Result(body \o seeds)
      BY <1>4, Zenon DEF PG!PlanPostgresTable, seeds
    <2>2. result.statements = body \o seeds
      BY <2>1 DEF PG!Result
    <2>3. /\ Each(e, sp, a) /\ Each(e, sp, b) /\ Each(e, sp, c) /\ Each(e, sp, d) /\ Each(e, sp, f)
          /\ Each(e, sp, g) /\ Each(e, sp, h) /\ Each(e, sp, i)
      BY PGColumns, PGPrimaryKey, PGForeignKeys, PGChecks, PGIndexes, PGExclusions, PGTriggers, PGRowSecurity
    <2> HIDE DEF a, b, c, d, f, g, h, i
    <2>4. Each(e, sp, a \o b \o c \o d)
      BY <2>3, EachConcat
    <2>5. Each(e, sp, body)
      BY <2>3, <2>4, EachConcat
    <2> HIDE DEF body
    <2>6. Each(e, sp, body \o seeds)
      BY <1>0, <2>5, EachConcat
    <2>7. sp.seedData => Seeded(body \o seeds)
      BY <1>0, <2>5, SeededConcat DEF Each
    <2>8. PlanShape(e, sp, t, body \o seeds)
      BY <1>4, <2>6, <2>7, AlteringShape DEF SeedsDue
    <2> QED
      BY <2>2, <2>8 DEF Shaped
  <1> QED
    BY <1>1, <1>2, <1>3, <1>4

\* Seed rows alone, planned for any Table without a schema.
LEMMA PGSeedDataOnly ==
  ASSUME NEW e, NEW sp, NEW t
  PROVE  Shaped(e, sp, t, PG!PlanPostgresTableSeedDataOnly(sp, t))
  <1> DEFINE schema == [PG!EmptySpec EXCEPT !.seedData = sp.seedData, !.primaryKey = t.primaryKey]
             seeds == PG!SeedDataStatements(schema)
  <1>1. schema.seedData = sp.seedData
    BY DEF PG!EmptySpec
  <1> HIDE DEF schema
  <1>2. /\ Each(e, sp, seeds) /\ (sp.seedData => Seeded(seeds)) /\ (~sp.seedData => seeds = <<>>)
    BY <1>1, PGSeeds
  <1>3. PG!PlanPostgresTableSeedDataOnly(sp, t) =
          IF sp.seedData /\ ~t.exists THEN PG!PlanError ELSE PG!Result(seeds)
    BY DEF PG!PlanPostgresTableSeedDataOnly, schema
  <1> HIDE DEF seeds
  <1>4. CASE sp.seedData /\ ~t.exists
    BY <1>3, <1>4 DEF Shaped, PG!PlanError
  <1>5. CASE ~(sp.seedData /\ ~t.exists)
    <2>1. PlanShape(e, sp, t, seeds)
      BY <1>2, <1>5, AlteringShape DEF SeedsDue
    <2> QED
      BY <1>3, <1>5, <2>1 DEF Shaped, PG!Result
  <1> QED
    BY <1>4, <1>5

-----------------------------------------------------------------------------
(* Timescaledb: postgres' planner, its own indexes and the hypertable.     *)

LEMMA TSSame ==
  /\ \A s : TS!Flatten(s) = Flatten(s) /\ TS!PG!Flatten(s) = Flatten(s)
  /\ \A s, n : TS!HasName(s, n) = HasName(s, n) /\ TS!PG!HasName(s, n) = HasName(s, n)
  /\ \A op, arg : TS!Statement(op, arg) = [op |-> op, arg |-> arg]
  /\ \A op, arg : TS!PG!Statement(op, arg) = [op |-> op, arg |-> arg]
  BY DEF TS!Flatten, TS!PG!Flatten, Flatten, TS!HasName, TS!PG!HasName, HasName, TS!NamesOf,
         TS!PG!NamesOf, NamesOf, TS!Statement, TS!PG!Statement

\* What it takes from postgres' planner is what postgres' planner does.
LEMMA TSPostgres ==
  /\ \A c : TS!PG!ExistingColumn(c) = PG!ExistingColumn(c)
  /\ \A sp, c : TS!PG!AlterColumnStatements(sp, c) = PG!AlterColumnStatements(sp, c)
  /\ \A c : TS!PG!schemaColumnToColumn(c) = PG!schemaColumnToColumn(c)
  /\ \A sp, t : TS!PG!BuildPrimaryKeyStatements(sp, t) = PG!BuildPrimaryKeyStatements(sp, t)
  /\ \A sp, t : TS!PG!BuildForeignKeyStatements(sp, t) = PG!BuildForeignKeyStatements(sp, t)
  /\ \A sp : TS!PG!SeedDataStatements(sp) = PG!SeedDataStatements(sp)
  /\ \A sp : TS!PG!CreateTableStatements(sp) = PG!CreateTableStatements(sp)
  /\ \A t, n : TS!PG!DropIndex(t, n) = PG!DropIndex(t, n)
  /\ \A d : TS!PG!AddIndexStatement(d) = PG!AddIndexStatement(d)
  /\ \A t : TS!PG!ListTableIndexes(t) = PG!ListTableIndexes(t)
  <1>1. ASSUME NEW c PROVE TS!PG!ExistingColumn(c) = PG!ExistingColumn(c)
    BY SMTT(30)
    DEF TS!PG!ExistingColumn, PG!ExistingColumn, TS!PG!UDTNameToDataType, PG!UDTNameToDataType,
        TS!PG!InCatalogAll, PG!InCatalogAll, TS!PG!InCatalog, PG!InCatalog
  <1>2. ASSUME NEW sp, NEW c PROVE TS!PG!AlterColumnStatements(sp, c) = PG!AlterColumnStatements(sp, c)
    BY Zenon
    DEF TS!PG!AlterColumnStatements, PG!AlterColumnStatements, TS!PG!HasName, PG!HasName, TS!PG!Statement,
        PG!Statement, TS!PG!schemaColumnToColumn, PG!schemaColumnToColumn, TS!PG!ByName, PG!ByName,
        TS!PG!ChangeColumn, PG!ChangeColumn, TS!PG!columnsMatch, PG!columnsMatch,
        TS!PG!AddNotNullStatements, PG!AddNotNullStatements, TS!PG!NoChange, PG!NoChange, TS!PG!NamesOf,
        PG!NamesOf, TS!PG!maybeParseParameterizedColumnType, PG!maybeParseParameterizedColumnType,
        TS!PG!unaliasParameterizedColumnType, PG!unaliasParameterizedColumnType,
        TS!PG!unaliasUnparameterizedColumnType, PG!unaliasUnparameterizedColumnType, 
        TS!PG!NoValue, PG!NoValue, TS!PG!columnDefaultsEqual, PG!columnDefaultsEqual,
        TS!PG!Range, PG!Range, TS!PG!BoolsEqual, PG!BoolsEqual, TS!PG!Canonical,
        PG!Canonical, TS!PG!CanonicalizeSQLExpr, PG!CanonicalizeSQLExpr
  <1>3. ASSUME NEW c PROVE TS!PG!schemaColumnToColumn(c) = PG!schemaColumnToColumn(c)
    BY
    DEF TS!PG!schemaColumnToColumn, PG!schemaColumnToColumn, TS!PG!maybeParseParameterizedColumnType,
        PG!maybeParseParameterizedColumnType, TS!PG!unaliasParameterizedColumnType,
        PG!unaliasParameterizedColumnType, TS!PG!unaliasUnparameterizedColumnType,
        PG!unaliasUnparameterizedColumnType
  <1>4. ASSUME NEW sp, NEW t PROVE TS!PG!BuildPrimaryKeyStatements(sp, t) = PG!BuildPrimaryKeyStatements(sp, t)
    BY
    DEF TS!PG!BuildPrimaryKeyStatements, PG!BuildPrimaryKeyStatements, TS!PG!KeyConstraintEquals,
        PG!KeyConstraintEquals, TS!PG!RemoveConstraintStatement, PG!RemoveConstraintStatement,
        TS!PG!GenerateKeyName, PG!GenerateKeyName, TS!PG!Statement, PG!Statement
  <1>5. ASSUME NEW sp, NEW t PROVE TS!PG!BuildForeignKeyStatements(sp, t) = PG!BuildForeignKeyStatements(sp, t)
    BY Zenon
    DEF TS!PG!BuildForeignKeyStatements, PG!BuildForeignKeyStatements, TS!PG!ListTableForeignKeys,
        PG!ListTableForeignKeys, TS!PG!AnySeq, PG!AnySeq, TS!PG!ForeignKeyEquals, PG!ForeignKeyEquals,
        TS!PG!Where, PG!Where, TS!PG!FlatMap, PG!FlatMap, TS!PG!RemoveConstraintStatement,
        PG!RemoveConstraintStatement, TS!PG!AddForeignKeyStatement, PG!AddForeignKeyStatement,
        TS!PG!ScannedColumns, PG!ScannedColumns, TS!PG!NoName, PG!NoName, TS!PG!normalizeOnDelete,
        PG!normalizeOnDelete, TS!PG!SameColumns, PG!SameColumns, TS!PG!Flatten, PG!Flatten,
        TS!PG!Statement, PG!Statement, TS!PG!GenerateFKName, PG!GenerateFKName, TS!PG!Range, PG!Range
  <1>6. ASSUME NEW sp PROVE TS!PG!SeedDataStatements(sp) = PG!SeedDataStatements(sp)
    BY
    DEF TS!PG!SeedDataStatements, PG!SeedDataStatements, TS!PG!Statement, PG!Statement,
        TS!PG!findConflictInferenceSpec, PG!findConflictInferenceSpec, TS!PG!AnySeq, PG!AnySeq
  <1>7. ASSUME NEW sp PROVE TS!PG!CreateTableStatements(sp) = PG!CreateTableStatements(sp)
    BY
    DEF TS!PG!CreateTableStatements, PG!CreateTableStatements, TS!PG!Statement, PG!Statement,
        TS!PG!NoTable, PG!NoTable, TS!PG!schemaColumnToColumn, PG!schemaColumnToColumn,
        TS!PG!InlineIndexes, PG!InlineIndexes, TS!PG!AddForeignKeyStatement, PG!AddForeignKeyStatement,
        TS!PG!AddCheckConstraintStatement, PG!AddCheckConstraintStatement,
        TS!PG!AddExclusionConstraintStatement, PG!AddExclusionConstraintStatement,
        TS!PG!triggerCreateStatement, PG!triggerCreateStatement, TS!PG!NoValue, PG!NoValue,
        TS!PG!CreatePolicyStatement, PG!CreatePolicyStatement, TS!PG!maybeParseParameterizedColumnType,
        PG!maybeParseParameterizedColumnType, TS!PG!unaliasParameterizedColumnType,
        PG!unaliasParameterizedColumnType, TS!PG!unaliasUnparameterizedColumnType,
        PG!unaliasUnparameterizedColumnType, TS!PG!Where, PG!Where, TS!PG!isInlineFoldableUniqueIndex,
        PG!isInlineFoldableUniqueIndex, TS!PG!GenerateIndexName, PG!GenerateIndexName,
        TS!PG!GenerateFKName, PG!GenerateFKName, TS!PG!GenerateCheckName, PG!GenerateCheckName,
        TS!PG!GenerateExclusionName, PG!GenerateExclusionName, TS!PG!FlatMap, PG!FlatMap,
        TS!PG!normalizeIndexMethod, PG!normalizeIndexMethod, TS!PG!NoName, PG!NoName, TS!PG!Flatten,
        PG!Flatten
  <1>8. ASSUME NEW t, NEW n PROVE TS!PG!DropIndex(t, n) = PG!DropIndex(t, n)
    BY
    DEF TS!PG!DropIndex, PG!DropIndex, TS!PG!ListTableConstraints, PG!ListTableConstraints,
        TS!PG!RemoveConstraintStatement, PG!RemoveConstraintStatement, TS!PG!RemoveIndexStatement,
        PG!RemoveIndexStatement, TS!PG!NamesOf, PG!NamesOf, TS!PG!Where, PG!Where, TS!PG!GenerateKeyName,
        PG!GenerateKeyName, TS!PG!Statement, PG!Statement, TS!PG!FlatMap, PG!FlatMap, TS!PG!Flatten,
        PG!Flatten
  <1>9. ASSUME NEW d PROVE TS!PG!AddIndexStatement(d) = PG!AddIndexStatement(d)
    BY
    DEF TS!PG!AddIndexStatement, PG!AddIndexStatement, TS!PG!Statement, PG!Statement, TS!PG!NamedIndex,
        PG!NamedIndex, TS!PG!NoName, PG!NoName, TS!PG!GenerateIndexName, PG!GenerateIndexName
  <1>10. ASSUME NEW t PROVE TS!PG!ListTableIndexes(t) = PG!ListTableIndexes(t)
    BY
    DEF TS!PG!ListTableIndexes, PG!ListTableIndexes, TS!PG!InCatalogAll, PG!InCatalogAll, TS!PG!InCatalog,
        PG!InCatalog
  <1> QED
    BY <1>1, <1>2, <1>3, <1>4, <1>5, <1>6, <1>7, <1>8, <1>9, <1>10

LEMMA TSSchema ==
  ASSUME NEW e, NEW sp, IsSpec(sp)
  PROVE  /\ IsSpec(TS!toPostgresTableSchema(sp))
         /\ TS!toPostgresTableSchema(sp).hasSchema = sp.hasSchema
         /\ TS!toPostgresTableSchema(sp).seedData = sp.seedData
         /\ \A q : Each(e, TS!toPostgresTableSchema(sp), q) => Each(e, sp, q)
         /\ \A q : Creating(e, TS!toPostgresTableSchema(sp), q) => Creating(e, sp, q)
  <1> DEFINE schema == TS!toPostgresTableSchema(sp)
  <1>1. /\ DOMAIN schema = DOMAIN EmptySpec /\ schema.hasSchema = sp.hasSchema /\ schema.seedData = sp.seedData
        /\ schema.columns = sp.columns /\ schema.foreignKeys = sp.foreignKeys /\ schema.indexes = sp.indexes
        /\ schema.triggers = sp.triggers /\ schema.hypertable = sp.hypertable
        /\ schema.checks = <<>> /\ schema.exclusions = <<>> /\ schema.policies = <<>> /\ schema.rls = NoValue
    BY DEF IsSpec, EmptySpec, TS!toPostgresTableSchema, TS!NoValue, NoValue
  <1> HIDE DEF schema
  <1>2. IsSpec(schema)
    BY <1>1, Literals DEF IsSpec
  <1>3. \A st : Harmless(e, schema, st) => Harmless(e, sp, st)
    BY <1>1 DEF Harmless, Kept
  <1>4. \A q : Each(e, schema, q) => Each(e, sp, q)
    BY <1>3 DEF Each
  <1>5. \A q : Creating(e, schema, q) => Creating(e, sp, q)
    BY <1>1, <1>3 DEF Creating, IsCreate
  <1> QED
    BY <1>1, <1>2, <1>4, <1>5 DEF schema

LEMMA TSColumns ==
  ASSUME NEW e, NEW sp, IsSpec(sp), sp.hasSchema, NEW t, IsTable(t)
  PROVE  Each(e, sp, TS!PG!BuildColumnStatements(sp, t))
  <1> DEFINE f == [i \in DOMAIN t.columns |-> TS!PG!AlterColumnStatements(sp, TS!PG!ExistingColumn(t.columns[i]))]
             g == [i \in DOMAIN sp.columns |->
                     IF HasName(t.columns, sp.columns[i].name) THEN <<>>
                     ELSE <<[op |-> "addColumn", arg |-> TS!PG!schemaColumnToColumn(sp.columns[i])]>>]
  <1>1. TS!PG!BuildColumnStatements(sp, t) = Flatten(f) \o Flatten(g)
    BY TSSame DEF TS!PG!BuildColumnStatements, TS!PG!FlatMap, TS!PG!InsertColumnStatement
  <1>2. Each(e, sp, Flatten(f))
    <2>1. \A i \in DOMAIN t.columns : Each(e, sp, f[i])
      BY PGAlterColumn, TSPostgres
    <2>2. f = [i \in DOMAIN t.columns |-> f[i]]
      OBVIOUS
    <2> HIDE DEF f
    <2> QED
      BY <2>1, <2>2, EachFlat DEF IsTable
  <1>3. Each(e, sp, Flatten(g))
    <2>1. ASSUME NEW i \in DOMAIN sp.columns
          PROVE  Harmless(e, sp, [op |-> "addColumn", arg |-> TS!PG!schemaColumnToColumn(sp.columns[i])])
      <3>1. "name" \in DOMAIN sp.columns[i]
        BY DEF IsSpec, Range
      <3>2. "name" \in DOMAIN TS!PG!schemaColumnToColumn(sp.columns[i])
        BY <3>1 DEF TS!PG!schemaColumnToColumn
      <3> QED
        BY <3>2 DEF Harmless, TableOps, PolicyOps
    <2>2. \A i \in DOMAIN sp.columns : Each(e, sp, g[i])
      BY <2>1, EachLiteral
    <2>3. g = [i \in DOMAIN sp.columns |-> g[i]]
      OBVIOUS
    <2> HIDE DEF g
    <2> QED
      BY <2>2, <2>3, EachFlat DEF IsSpec
  <1> HIDE DEF f, g
  <1> QED
    BY <1>1, <1>2, <1>3, EachConcat

LEMMA TSIndexes ==
  ASSUME NEW e, NEW sp, IsSpec(sp), NEW t, IsTable(t)
  PROVE  Each(e, sp, TS!BuildIndexStatements(sp, t))
  <1> DEFINE desired == [i \in DOMAIN sp.indexes |-> TS!NamedIndex(sp.indexes[i])]
             current == TS!PG!ListTableIndexes(t)
             h == [i \in DOMAIN desired |->
                     IF ~TS!AnySeq(current, LAMBDA c : TS!IndexEquals(c, desired[i])) THEN <<desired[i]>> ELSE <<>>]
             new == Flatten(h)
             f == [i \in DOMAIN new |->
                     (IF HasName(current, new[i].name) THEN <<TS!PG!DropIndex(t, new[i].name)>> ELSE <<>>)
                     \o <<TS!PG!AddIndexStatement(new[i])>>]
             kept(c) == TS!AnySeq(desired, LAMBDA d : TS!IndexEquals(c, d)) \/ TS!KeptForHypertable(sp, c)
             g == [i \in DOMAIN current |->
                     IF kept(current[i]) \/ HasName(new, current[i].name)
                     THEN <<>> ELSE <<TS!PG!DropIndex(t, current[i].name)>>]
  <1>1. TS!BuildIndexStatements(sp, t) = Flatten(f) \o Flatten(g)
    BY TSSame, Zenon DEF TS!BuildIndexStatements, TS!FlatMap, TS!Where
  <1>2. IsSequence(new)
    <2>1. IsSequence(desired)
      BY Mapped DEF IsSpec
    <2> HIDE DEF desired
    <2>2. h = [i \in DOMAIN desired |-> h[i]] /\ \A i \in DOMAIN desired : h[i] \in {<<>>, <<desired[i]>>}
      OBVIOUS
    <2> HIDE DEF h
    <2> QED
      BY <2>1, <2>2, Filtered
  <1>3. IsSequence(current)
    BY Mapped, Zenon DEF IsTable, TS!PG!ListTableIndexes
  <1>4. \A n : Harmless(e, sp, TS!PG!DropIndex(t, n))
    BY TSSame DEF Harmless, TableOps, PolicyOps, TS!PG!DropIndex, TS!PG!RemoveConstraintStatement,
                  TS!PG!RemoveIndexStatement
  <1>5. \A d : Harmless(e, sp, TS!PG!AddIndexStatement(d))
    BY TSSame DEF Harmless, TableOps, PolicyOps, TS!PG!AddIndexStatement
  <1> HIDE DEF desired, current, new, kept
  <1>6. Each(e, sp, Flatten(f))
    <2>1. ASSUME NEW i \in DOMAIN new PROVE Each(e, sp, f[i])
      <3>1. Each(e, sp, <<TS!PG!AddIndexStatement(new[i])>>)
        BY <1>5, EachLiteral
      <3>2. Each(e, sp, IF HasName(current, new[i].name) THEN <<TS!PG!DropIndex(t, new[i].name)>> ELSE <<>>)
        BY <1>4, EachLiteral
      <3> QED
        BY <3>1, <3>2, EachConcat
    <2>2. f = [i \in DOMAIN new |-> f[i]]
      OBVIOUS
    <2> HIDE DEF f
    <2> QED
      BY <1>2, <2>1, <2>2, EachFlat
  <1>7. Each(e, sp, Flatten(g))
    <2>1. \A i \in DOMAIN current : Each(e, sp, g[i])
      BY <1>4, EachLiteral
    <2>2. g = [i \in DOMAIN current |-> g[i]]
      OBVIOUS
    <2> HIDE DEF g
    <2> QED
      BY <1>3, <2>1, <2>2, EachFlat
  <1> HIDE DEF f, g
  <1> QED
    BY <1>1, <1>6, <1>7, EachConcat

\* The hypertable, and what is only made with a new table.
LEMMA TSHypertable ==
  ASSUME NEW e, NEW sp, NEW h
  PROVE  /\ Each(e, sp, TS!createHypertableStatement(h))
         /\ Each(e, sp, TS!createHypertableStatement(h) \o TS!createCompressionStatements(h)
                        \o TS!createRetentionStatements(h))
  <1> DEFINE a == [op |-> "createHypertable", arg |-> h]
             b == [op |-> "compressBy", arg |-> h.segmentBy]
             c == [op |-> "addCompressionPolicy", arg |-> ""]
             d == [op |-> "addRetentionPolicy", arg |-> ""]
  <1>1. Harmless(e, sp, a) /\ Harmless(e, sp, b) /\ Harmless(e, sp, c) /\ Harmless(e, sp, d)
    BY DEF Harmless, TableOps, PolicyOps
  <1>2. TS!createHypertableStatement(h) \in {<<>>, <<a>>}
    BY TSSame DEF TS!createHypertableStatement
  <1>3. PICK x, y : TS!createCompressionStatements(h) = x \o y /\ x \in {<<>>, <<b>>} /\ y \in {<<>>, <<c>>}
    BY TSSame, Zenon DEF TS!createCompressionStatements
  <1>4. TS!createRetentionStatements(h) \in {<<>>, <<d>>}
    BY TSSame, Zenon DEF TS!createRetentionStatements
  <1> HIDE DEF a, b, c, d
  <1>5. Each(e, sp, TS!createHypertableStatement(h))
    BY <1>1, <1>2, EachLiteral
  <1>6. Each(e, sp, x) /\ Each(e, sp, y)
    BY <1>1, <1>3, EachLiteral
  <1>7. Each(e, sp, TS!createCompressionStatements(h))
    BY <1>3, <1>6, EachConcat
  <1>8. Each(e, sp, TS!createRetentionStatements(h))
    BY <1>1, <1>4, EachLiteral
  <1> QED
    BY <1>5, <1>7, <1>8, EachConcat

LEMMA TSPlan ==
  ASSUME NEW e \in PolicyEngines, NEW sp, IsSpec(sp), sp.hasSchema, NEW t, IsTable(t)
  PROVE  Shaped(e, sp, t, TS!PlanTimescaleDBTable(sp, t))
  <1> DEFINE result == TS!PlanTimescaleDBTable(sp, t)
             schema == TS!toPostgresTableSchema(sp)
             seeds == TS!PG!SeedDataStatements(schema)
             f == [i \in DOMAIN sp.hypertable |->
                     TS!createHypertableStatement(sp.hypertable[i]) \o TS!createCompressionStatements(sp.hypertable[i])
                     \o TS!createRetentionStatements(sp.hypertable[i])]
             g == [i \in DOMAIN sp.hypertable |-> TS!createHypertableStatement(sp.hypertable[i])]
             create == TS!PG!CreateTableStatements(schema) \o Flatten(f)
             hyper == IF t.hypertable # TS!NoValue THEN <<>> ELSE Flatten(g)
             alter == TS!PG!BuildColumnStatements(schema, t)
                   \o TS!PG!BuildPrimaryKeyStatements(schema, t)
                   \o TS!PG!BuildForeignKeyStatements(schema, t)
                   \o TS!BuildIndexStatements(sp, t) \o hyper
  <1>0. /\ IsSpec(schema) /\ schema.hasSchema = sp.hasSchema /\ schema.seedData = sp.seedData
        /\ \A q : Each(e, schema, q) => Each(e, sp, q)
        /\ \A q : Creating(e, schema, q) => Creating(e, sp, q)
    BY TSSchema
  <1> HIDE DEF schema
  <1>1. Each(e, sp, seeds) /\ (sp.seedData => Seeded(seeds))
    BY <1>0, PGSeeds, TSPostgres
  <1> HIDE DEF seeds
  <1>2. CASE sp.isDeleted
    <2>1. result = TS!Result(IF t.exists THEN <<TS!Statement("dropTable", "")>> ELSE <<>>)
      BY <1>2, Zenon DEF TS!PlanTimescaleDBTable
    <2> HIDE DEF result
    <2>2. result.statements = IF t.exists THEN <<[op |-> "dropTable", arg |-> ""]>> ELSE <<>>
      BY <2>1, TSSame, Zenon DEF TS!Result
    <2> QED
      BY <1>2, <2>2, DroppingShape, Zenon DEF Shaped, result
  <1>3. CASE ~sp.isDeleted /\ TS!PlanFails(sp, t)
    <2>1. result = TS!PlanError
      BY <1>3, Zenon DEF TS!PlanTimescaleDBTable
    <2> QED
      BY <2>1 DEF Shaped, TS!PlanError
  <1>4. CASE ~sp.isDeleted /\ ~TS!PlanFails(sp, t)
    <2>1. result = TS!Result((IF ~t.exists THEN TS!CreateTableStatements(sp)
                              ELSE TS!PG!BuildColumnStatements(schema, t)
                                \o TS!PG!BuildPrimaryKeyStatements(schema, t)
                                \o TS!PG!BuildForeignKeyStatements(schema, t)
                                \o TS!BuildIndexStatements(sp, t)
                                \o TS!BuildHypertableStatements(sp, t)) \o seeds)
      BY <1>4, Zenon DEF TS!PlanTimescaleDBTable, seeds, schema
    <2>2. /\ TS!CreateTableStatements(sp) = create
          /\ TS!BuildHypertableStatements(sp, t) = hyper
      BY TSSame DEF TS!CreateTableStatements, TS!BuildHypertableStatements, TS!FlatMap, schema
    <2>3. result.statements = (IF ~t.exists THEN create ELSE alter) \o seeds
      <3> HIDE DEF create, hyper
      <3> QED
        BY <2>1, <2>2 DEF TS!Result
    <2>4. CASE ~t.exists
      <3>1. Creating(e, sp, TS!PG!CreateTableStatements(schema))
        BY <1>0, PGCreateTable, TSPostgres
      <3>2. Each(e, sp, Flatten(f))
        <4>1. \A i \in DOMAIN sp.hypertable : Each(e, sp, f[i])
          BY TSHypertable
        <4>2. f = [i \in DOMAIN sp.hypertable |-> f[i]]
          OBVIOUS
        <4> HIDE DEF f
        <4> QED
          BY <4>1, <4>2, EachFlat DEF IsSpec
      <3> HIDE DEF f
      <3>3. Creating(e, sp, create)
        BY <3>1, <3>2, CreatingThen
      <3> HIDE DEF create
      <3>4. Creating(e, sp, create \o seeds)
        BY <1>1, <3>3, CreatingThen
      <3>5. sp.seedData => Seeded(create \o seeds)
        BY <1>1, <3>3, SeededConcat DEF Creating, Each
      <3>6. PlanShape(e, sp, t, create \o seeds)
        BY <2>4, <3>4, <3>5, CreatingShape DEF SeedsDue
      <3>7. result.statements = create \o seeds
        BY <2>3, <2>4
      <3> QED
        BY <3>6, <3>7 DEF Shaped
    <2>5. CASE t.exists
      <3>1. /\ Each(e, sp, TS!PG!BuildColumnStatements(schema, t))
            /\ Each(e, sp, TS!PG!BuildPrimaryKeyStatements(schema, t))
            /\ Each(e, sp, TS!PG!BuildForeignKeyStatements(schema, t))
            /\ Each(e, sp, TS!BuildIndexStatements(sp, t))
        BY <1>0, TSColumns, PGPrimaryKey, PGForeignKeys, TSIndexes, TSPostgres
      <3>2. Each(e, sp, hyper)
        <4>1. \A i \in DOMAIN sp.hypertable : Each(e, sp, g[i])
          BY TSHypertable
        <4>2. g = [i \in DOMAIN sp.hypertable |-> g[i]]
          OBVIOUS
        <4> HIDE DEF g
        <4>3. Each(e, sp, Flatten(g))
          BY <4>1, <4>2, EachFlat DEF IsSpec
        <4> QED
          BY <4>3, EachLiteral
      <3> HIDE DEF hyper
      <3>3. Each(e, sp, alter)
        BY <3>1, <3>2, EachConcat
      <3> HIDE DEF alter
      <3>4. Each(e, sp, alter \o seeds)
        BY <1>1, <3>3, EachConcat
      <3>5. sp.seedData => Seeded(alter \o seeds)
        BY <1>1, <3>3, SeededConcat DEF Each
      <3>6. PlanShape(e, sp, t, alter \o seeds)
        BY <2>5, <3>4, <3>5, AlteringShape DEF SeedsDue
      <3>7. result.statements = alter \o seeds
        BY <2>3, <2>5
      <3> QED
        BY <3>6, <3>7 DEF Shaped
    <2> QED
      BY <2>4, <2>5
  <1> QED
    BY <1>2, <1>3, <1>4

-----------------------------------------------------------------------------
(* Mysql.                                                                  *)

LEMMA MYSame ==
  /\ \A s : MY!Flatten(s) = Flatten(s)
  /\ \A s, n : MY!HasName(s, n) = HasName(s, n)
  /\ \A s, n : MY!ByName(s, n) = ByName(s, n)
  /\ \A op, arg : MY!Statement(op, arg) = [op |-> op, arg |-> arg]
  BY DEF MY!Flatten, Flatten, MY!HasName, HasName, MY!NamesOf, NamesOf, MY!ByName, ByName,
         MY!Statement

LEMMA MYCharset ==
  ASSUME NEW e, NEW sp, NEW t
  PROVE  Each(e, sp, MY!buildTableCharsetAndCollationStatements(sp, t))
  <1> DEFINE existing == <<MY!TableCharset(t), MY!TableCollation(t)>>
             database == <<MY!DatabaseCharset, MY!DefaultCollation(MY!DatabaseCharset)>>
             wanted == CASE sp.collation = "" /\ sp.charset = "" -> database
                         [] sp.collation # "" /\ sp.charset = "" -> <<MY!CharsetOf(sp.collation), sp.collation>>
                         [] OTHER -> <<sp.charset, sp.collation>>
  <1>1. MY!buildTableCharsetAndCollationStatements(sp, t) =
          IF wanted = existing \/ (sp.collation = "" /\ sp.charset = existing[1])
          THEN <<>> ELSE <<MY!Statement("convertTo", wanted)>>
    BY Zenon DEF MY!buildTableCharsetAndCollationStatements
  <1> HIDE DEF existing, wanted
  <1>2. Harmless(e, sp, MY!Statement("convertTo", wanted))
    BY MYSame DEF Harmless, TableOps, PolicyOps
  <1> QED
    BY <1>1, <1>2, EachLiteral, Zenon

LEMMA MYKeys ==
  ASSUME NEW e, NEW sp, NEW t
  PROVE  /\ Each(e, sp, MY!buildRemovePrimaryKeyStatements(sp, t))
         /\ Each(e, sp, MY!buildAddPrimaryKeyStatements(sp, t))
  <1>1. Harmless(e, sp, MY!Statement("dropPrimaryKey", "")) /\ Harmless(e, sp, MY!Statement("addPrimaryKey", sp.primaryKey))
    BY MYSame, Zenon DEF Harmless, TableOps, PolicyOps
  <1> QED
    BY <1>1, EachLiteral, Zenon DEF MY!buildRemovePrimaryKeyStatements, MY!buildAddPrimaryKeyStatements

\* A column is modified through statements that carry all of it.
LEMMA MYModifyColumn ==
  ASSUME NEW e, NEW sp, NEW existing, NEW column, "name" \in DOMAIN column
  PROVE  Each(e, sp, MY!AlterModifyColumnStatement(existing, column))
  <1> DEFINE a == MY!ModifyColumn(existing, column, existing.notNull)
             b == MY!Statement("fillNulls", column.name)
             c == MY!ModifyColumn(existing, column, column.notNull)
  <1>1. \A notNull : Harmless(e, sp, MY!ModifyColumn(existing, column, notNull))
    <2> SUFFICES ASSUME NEW notNull PROVE Harmless(e, sp, MY!ModifyColumn(existing, column, notNull))
      OBVIOUS
    <2> DEFINE same == column.charset = existing.charset /\ column.collation = existing.collation
               modified == [column EXCEPT !.notNull = notNull, !.charset = IF same THEN "" ELSE @,
                                          !.collation = IF same THEN "" ELSE @]
    <2>1. MY!ModifyColumn(existing, column, notNull) = [op |-> "modifyColumn", arg |-> modified]
      BY MYSame, Zenon DEF MY!ModifyColumn
    <2>2. "name" \in DOMAIN modified
      OBVIOUS
    <2> HIDE DEF modified
    <2> QED
      BY <2>1, <2>2 DEF Harmless, TableOps, PolicyOps
  <1>2. Harmless(e, sp, a) /\ Harmless(e, sp, b) /\ Harmless(e, sp, c)
    BY <1>1, MYSame DEF Harmless, TableOps, PolicyOps
  <1>3. PICK x, y : MY!ddlWithNotNull(existing, column) = x \o y \o <<c>> /\ x \in {<<>>, <<a>>} /\ y \in {<<>>, <<b>>}
    BY DEF MY!ddlWithNotNull
  <1>4. MY!AlterModifyColumnStatement(existing, column) \in {MY!ddlWithNotNull(existing, column), <<c>>}
    BY DEF MY!AlterModifyColumnStatement
  <1> HIDE DEF a, b, c
  <1>5. Each(e, sp, x) /\ Each(e, sp, y) /\ Each(e, sp, <<c>>)
    BY <1>2, <1>3, EachLiteral
  <1>6. Each(e, sp, x \o y)
    BY <1>5, EachConcat
  <1>7. Each(e, sp, MY!ddlWithNotNull(existing, column))
    BY <1>3, <1>5, <1>6, EachConcat
  <1> QED
    BY <1>4, <1>5, <1>7

LEMMA MYAlterColumn ==
  ASSUME NEW e, NEW sp, IsSpec(sp), sp.hasSchema, NEW existing, NEW charset, NEW collation
  PROVE  Each(e, sp, MY!AlterColumnStatements(sp, existing, charset, collation))
  <1> DEFINE desired == MY!schemaColumnToColumn(ByName(sp.columns, existing.name))
             column == IF desired.name \in MY!Range(sp.primaryKey)
                       THEN MY!ensureColumnConstraintsNotNullTrue(desired) ELSE desired
  <1>1. CASE ~HasName(sp.columns, existing.name)
    <2>1. MY!AlterColumnStatements(sp, existing, charset, collation) = <<[op |-> "dropColumn", arg |-> existing.name]>>
      BY <1>1, MYSame DEF MY!AlterColumnStatements
    <2>2. Harmless(e, sp, [op |-> "dropColumn", arg |-> existing.name])
      BY <1>1 DEF Harmless, Kept, TableOps, PolicyOps
    <2> QED
      BY <2>1, <2>2, EachLiteral
  <1>2. CASE HasName(sp.columns, existing.name)
    <2>1. MY!AlterColumnStatements(sp, existing, charset, collation) \in {<<>>, MY!AlterModifyColumnStatement(existing, column)}
      BY <1>2, MYSame DEF MY!AlterColumnStatements
    <2>2. "name" \in DOMAIN ByName(sp.columns, existing.name)
      BY <1>2, Found DEF IsSpec
    <2>3. "name" \in DOMAIN desired
      BY <2>2 DEF MY!schemaColumnToColumn
    <2> HIDE DEF desired
    <2>4. "name" \in DOMAIN column
      BY <2>3 DEF MY!ensureColumnConstraintsNotNullTrue
    <2> HIDE DEF column
    <2> QED
      BY <2>1, <2>4, MYModifyColumn, EachLiteral
  <1> QED
    BY <1>1, <1>2

LEMMA MYColumns ==
  ASSUME NEW e, NEW sp, IsSpec(sp), sp.hasSchema, NEW t, IsTable(t)
  PROVE  Each(e, sp, MY!buildColumnStatements(sp, t))
  <1> DEFINE f == [i \in DOMAIN t.columns |->
                     MY!AlterColumnStatements(sp, MY!ExistingColumn(t.columns[i]), MY!TableCharset(t),
                                              MY!TableCollation(t))]
             g == [i \in DOMAIN sp.columns |->
                     IF HasName(t.columns, sp.columns[i].name) THEN <<>>
                     ELSE <<[op |-> "addColumn", arg |-> MY!schemaColumnToColumn(sp.columns[i])]>>]
  <1>1. MY!buildColumnStatements(sp, t) = Flatten(f) \o Flatten(g)
    BY MYSame DEF MY!buildColumnStatements, MY!FlatMap, MY!InsertColumnStatement
  <1>2. Each(e, sp, Flatten(f))
    <2>1. \A i \in DOMAIN t.columns : Each(e, sp, f[i])
      BY MYAlterColumn
    <2>2. f = [i \in DOMAIN t.columns |-> f[i]]
      OBVIOUS
    <2> HIDE DEF f
    <2> QED
      BY <2>1, <2>2, EachFlat DEF IsTable
  <1>3. Each(e, sp, Flatten(g))
    <2>1. ASSUME NEW i \in DOMAIN sp.columns
          PROVE  Harmless(e, sp, [op |-> "addColumn", arg |-> MY!schemaColumnToColumn(sp.columns[i])])
      <3>1. "name" \in DOMAIN sp.columns[i]
        BY DEF IsSpec, Range
      <3>2. "name" \in DOMAIN MY!schemaColumnToColumn(sp.columns[i])
        BY <3>1, SMTT(30) DEF MY!schemaColumnToColumn
      <3> QED
        BY <3>2 DEF Harmless, TableOps, PolicyOps
    <2>2. \A i \in DOMAIN sp.columns : Each(e, sp, g[i])
      BY <2>1, EachLiteral
    <2>3. g = [i \in DOMAIN sp.columns |-> g[i]]
      OBVIOUS
    <2> HIDE DEF g
    <2> QED
      BY <2>2, <2>3, EachFlat DEF IsSpec
  <1> HIDE DEF f, g
  <1> QED
    BY <1>1, <1>2, <1>3, EachConcat

LEMMA MYForeignKeys ==
  ASSUME NEW e, NEW sp, IsSpec(sp), NEW t, IsTable(t)
  PROVE  Each(e, sp, MY!buildForeignKeyStatements(sp, t))
  <1> DEFINE current == MY!ListTableForeignKeys(t)
             absent(s) == ~MY!AnySeq(current, LAMBDA fk : MY!ForeignKeyEquals(fk, s))
             h == [i \in DOMAIN sp.foreignKeys |->
                     IF absent(sp.foreignKeys[i]) THEN <<sp.foreignKeys[i]>> ELSE <<>>]
             missing == Flatten(h)
             replaced == IF current = <<>> THEN <<>> ELSE <<MY!RemoveForeignKeyStatement(current[Len(current)].name)>>
             f == [i \in DOMAIN missing |-> replaced \o <<MY!AddForeignKeyStatement(missing[i])>>]
             wanted(fk) == MY!AnySeq(sp.foreignKeys, LAMBDA s : MY!ForeignKeyEquals(fk, s))
             g == [i \in DOMAIN current |->
                     IF wanted(current[i]) THEN <<>> ELSE <<MY!RemoveForeignKeyStatement(current[i].name)>>]
  <1>1. MY!buildForeignKeyStatements(sp, t) = Flatten(f) \o Flatten(g)
    BY MYSame DEF MY!buildForeignKeyStatements, MY!FlatMap, MY!Where
  <1>2. IsSequence(missing)
    <2>1. IsSequence(sp.foreignKeys) /\ h = [i \in DOMAIN sp.foreignKeys |-> h[i]]
      BY DEF IsSpec
    <2>2. \A i \in DOMAIN sp.foreignKeys : h[i] \in {<<>>, <<sp.foreignKeys[i]>>}
      OBVIOUS
    <2> HIDE DEF h
    <2> QED
      BY <2>1, <2>2, Filtered
  <1>3. IsSequence(current)
    BY Mapped, Zenon DEF IsTable, MY!ListTableForeignKeys
  <1>4. \A n : Harmless(e, sp, MY!RemoveForeignKeyStatement(n))
    BY MYSame DEF Harmless, TableOps, PolicyOps, MY!RemoveForeignKeyStatement
  <1>5. \A fk : Harmless(e, sp, MY!AddForeignKeyStatement(fk))
    BY MYSame DEF Harmless, TableOps, PolicyOps, MY!AddForeignKeyStatement
  <1>6. Each(e, sp, replaced)
    BY <1>4, EachLiteral
  <1>7. Each(e, sp, Flatten(f))
    <2> HIDE DEF missing, replaced
    <2>1. \A i \in DOMAIN missing : Each(e, sp, <<MY!AddForeignKeyStatement(missing[i])>>)
      BY <1>5, EachLiteral
    <2>2. \A i \in DOMAIN missing : Each(e, sp, f[i])
      BY <1>6, <2>1, EachConcat
    <2>3. f = [i \in DOMAIN missing |-> f[i]]
      OBVIOUS
    <2> HIDE DEF f
    <2> QED
      BY <1>2, <2>2, <2>3, EachFlat
  <1>8. Each(e, sp, Flatten(g))
    <2> HIDE DEF current, wanted
    <2>1. \A i \in DOMAIN current : Each(e, sp, g[i])
      BY <1>4, EachLiteral
    <2>2. g = [i \in DOMAIN current |-> g[i]]
      OBVIOUS
    <2> HIDE DEF g
    <2> QED
      BY <1>3, <2>1, <2>2, EachFlat
  <1> HIDE DEF f, g
  <1> QED
    BY <1>1, <1>7, <1>8, EachConcat

LEMMA MYIndexes ==
  ASSUME NEW e, NEW sp, IsSpec(sp), NEW t, IsTable(t)
  PROVE  /\ Each(e, sp, MY!buildRemoveIndexStatements(sp, t))
         /\ Each(e, sp, MY!buildAddIndexStatements(sp, t))
  <1> DEFINE h == [i \in DOMAIN t.indexes |->
                     IF ~HasName(t.foreignKeys, t.indexes[i].name) THEN <<t.indexes[i]>> ELSE <<>>]
             current == Flatten(h)
             kept(c) == MY!AnySeq(sp.indexes, LAMBDA d : MY!IndexEquals(c, MY!NamedIndex(d)))
             there(d) == MY!AnySeq(current, LAMBDA c : MY!IndexEquals(c, MY!NamedIndex(d)))
             f == [i \in DOMAIN current |->
                     IF kept(current[i]) THEN <<>> ELSE <<MY!RemoveIndexStatement(current[i].name)>>]
             g == [i \in DOMAIN sp.indexes |->
                     IF there(sp.indexes[i]) THEN <<>> ELSE <<MY!AddIndexStatement(sp.indexes[i])>>]
  <1>1. MY!ListTableIndexes(t) = current
    BY MYSame DEF MY!ListTableIndexes, MY!Where, MY!FlatMap
  <1>2. IsSequence(current)
    <2>1. h = [i \in DOMAIN t.indexes |-> h[i]] /\ \A i \in DOMAIN t.indexes : h[i] \in {<<>>, <<t.indexes[i]>>}
      OBVIOUS
    <2> HIDE DEF h
    <2> QED
      BY <2>1, Filtered DEF IsTable
  <1> HIDE DEF current
  <1>3. MY!buildRemoveIndexStatements(sp, t) = Flatten(f) /\ MY!buildAddIndexStatements(sp, t) = Flatten(g)
    BY <1>1, MYSame DEF MY!buildRemoveIndexStatements, MY!buildAddIndexStatements, MY!FlatMap
  <1> HIDE DEF kept, there
  <1>4. \A n : Harmless(e, sp, MY!RemoveIndexStatement(n))
    BY MYSame DEF Harmless, TableOps, PolicyOps, MY!RemoveIndexStatement
  <1>5. \A d : Harmless(e, sp, MY!AddIndexStatement(d))
    BY MYSame DEF Harmless, TableOps, PolicyOps, MY!AddIndexStatement
  <1>6. Each(e, sp, Flatten(f))
    <2>1. \A i \in DOMAIN current : Each(e, sp, f[i])
      BY <1>4, EachLiteral
    <2>2. f = [i \in DOMAIN current |-> f[i]]
      OBVIOUS
    <2> HIDE DEF f
    <2> QED
      BY <1>2, <2>1, <2>2, EachFlat
  <1>7. Each(e, sp, Flatten(g))
    <2>1. \A i \in DOMAIN sp.indexes : Each(e, sp, g[i])
      BY <1>5, EachLiteral
    <2>2. g = [i \in DOMAIN sp.indexes |-> g[i]]
      OBVIOUS
    <2> HIDE DEF g
    <2> QED
      BY <2>1, <2>2, EachFlat DEF IsSpec
  <1> QED
    BY <1>3, <1>6, <1>7

LEMMA MYSeeds ==
  ASSUME NEW e, NEW sp
  PROVE  /\ Each(e, sp, MY!SeedDataStatements(sp))
         /\ sp.seedData => Seeded(MY!SeedDataStatements(sp))
         /\ ~sp.seedData => MY!SeedDataStatements(sp) = <<>>
  <1> DEFINE a == [op |-> "seed", arg |-> "key"]
  <1>1. MY!SeedDataStatements(sp) = IF sp.seedData THEN <<a>> ELSE <<>>
    BY MYSame DEF MY!SeedDataStatements
  <1>2. Harmless(e, sp, a) /\ a.op = "seed"
    BY DEF Harmless, TableOps, PolicyOps
  <1> HIDE DEF a
  <1>3. Each(e, sp, <<a>>) /\ Seeded(<<a>>) /\ Each(e, sp, <<>>)
    BY <1>2, EachLiteral, Literals DEF Seeded
  <1> QED
    BY <1>1, <1>3

LEMMA MYCreateTable ==
  ASSUME NEW e, NEW sp, IsSpec(sp)
  PROVE  Creating(e, sp, MY!CreateTableStatements(sp))
  <1> DEFINE columns == [i \in DOMAIN sp.columns |-> MY!schemaColumnToColumn(sp.columns[i])]
             fks == [i \in DOMAIN sp.foreignKeys |-> MY!AddForeignKeyStatement(sp.foreignKeys[i]).arg]
             indexes == [i \in DOMAIN sp.indexes |-> MY!NamedIndex(sp.indexes[i])]
             charset == IF sp.charset = "" /\ sp.collation # "" THEN MY!CharsetOf(sp.collation) ELSE sp.charset
             arg == [MY!NoTable EXCEPT !.exists = TRUE, !.columns = columns, !.primaryKey = sp.primaryKey,
                       !.foreignKeys = fks, !.indexes = indexes, !.charset = charset, !.collation = sp.collation]
  <1>1. MY!CreateTableStatements(sp) = <<[op |-> "createTable", arg |-> arg]>>
    BY MYSame DEF MY!CreateTableStatements
  <1>2. IsSequence(columns) /\ NamesOf(columns) = NamesOf(sp.columns) /\ \A c \in Range(columns) : "name" \in DOMAIN c
    <2>1. \A i \in DOMAIN sp.columns :
             "name" \in DOMAIN columns[i] /\ columns[i].name = sp.columns[i].name
      BY DEF IsSpec, Range, MY!schemaColumnToColumn
    <2>2. IsSequence(columns) /\ DOMAIN columns = DOMAIN sp.columns
      BY Mapped DEF IsSpec
    <2> HIDE DEF columns
    <2> QED
      BY <2>1, <2>2 DEF NamesOf, Range
  <1>3. IsSequence(fks) /\ IsSequence(indexes)
    BY Mapped DEF IsSpec
  <1>4. IsCreate(sp, [op |-> "createTable", arg |-> arg])
    <2> HIDE DEF columns, fks, indexes, charset
    <2>1. /\ DOMAIN arg = DOMAIN NoTable /\ arg.exists = TRUE /\ arg.columns = columns /\ arg.foreignKeys = fks
          /\ arg.indexes = indexes /\ arg.checks = <<>> /\ arg.exclusions = <<>>
          /\ arg.triggers = <<>> /\ arg.policies = <<>> /\ arg.filled = {} /\ arg.nulls = {} /\ arg.seeds = 0
      BY DEF MY!NoTable, NoTable
    <2> HIDE DEF arg
    <2> QED
      BY <1>2, <1>3, <2>1, Literals DEF IsCreate, IsTable
  <1> HIDE DEF arg
  <1> QED
    BY <1>1, <1>4, CreatingOne

LEMMA MYPlan ==
  ASSUME NEW e, NEW sp, IsSpec(sp), sp.hasSchema, NEW t, IsTable(t)
  PROVE  Shaped(e, sp, t, MY!PlanMysqlTable(sp, t))
  <1> DEFINE result == MY!PlanMysqlTable(sp, t)
             fails == MY!AnySeq(sp.columns, LAMBDA c : MY!UnknownType(MY!Unaliased(c.type)))
             seeds == MY!SeedDataStatements(sp)
             create == MY!CreateTableStatements(sp)
             alter == MY!buildTableCharsetAndCollationStatements(sp, t)
                   \o MY!buildRemovePrimaryKeyStatements(sp, t)
                   \o MY!buildRemoveIndexStatements(sp, t)
                   \o MY!buildColumnStatements(sp, t)
                   \o MY!buildAddPrimaryKeyStatements(sp, t)
                   \o MY!buildForeignKeyStatements(sp, t)
                   \o MY!buildAddIndexStatements(sp, t)
  <1>1. Each(e, sp, seeds) /\ (sp.seedData => Seeded(seeds))
    BY MYSeeds
  <1> HIDE DEF seeds
  <1>2. CASE sp.isDeleted
    <2>1. result = MY!Result(IF t.exists THEN <<MY!Statement("dropTable", "")>> ELSE <<>>)
      BY <1>2, Zenon DEF MY!PlanMysqlTable
    <2> HIDE DEF result
    <2>2. result.statements = IF t.exists THEN <<[op |-> "dropTable", arg |-> ""]>> ELSE <<>>
      BY <2>1, MYSame, Zenon DEF MY!Result
    <2> QED
      BY <1>2, <2>2, DroppingShape, Zenon DEF Shaped, result
  <1>3. CASE ~sp.isDeleted /\ fails
    <2>1. result = MY!PlanError
      BY <1>3, Zenon DEF MY!PlanMysqlTable
    <2> QED
      BY <2>1 DEF Shaped, MY!PlanError
  <1>4. CASE ~sp.isDeleted /\ ~fails
    <2>1. result = MY!Result((IF ~t.exists THEN create ELSE alter) \o seeds)
      BY <1>4, Zenon DEF MY!PlanMysqlTable, seeds
    <2>2. result.statements = (IF ~t.exists THEN create ELSE alter) \o seeds
      <3> HIDE DEF create, alter
      <3> QED
        BY <2>1 DEF MY!Result
    <2>3. CASE ~t.exists
      <3>1. Creating(e, sp, create)
        BY MYCreateTable
      <3> HIDE DEF create
      <3>2. Creating(e, sp, create \o seeds)
        BY <1>1, <3>1, CreatingThen
      <3>3. sp.seedData => Seeded(create \o seeds)
        BY <1>1, <3>1, SeededConcat DEF Creating, Each
      <3>4. PlanShape(e, sp, t, create \o seeds)
        BY <2>3, <3>2, <3>3, CreatingShape DEF SeedsDue
      <3>5. result.statements = create \o seeds
        BY <2>2, <2>3
      <3> QED
        BY <3>4, <3>5 DEF Shaped
    <2>4. CASE t.exists
      <3>1. Each(e, sp, alter)
        BY MYCharset, MYKeys, MYIndexes, MYColumns, MYForeignKeys, EachConcat
      <3> HIDE DEF alter
      <3>2. Each(e, sp, alter \o seeds)
        BY <1>1, <3>1, EachConcat
      <3>3. sp.seedData => Seeded(alter \o seeds)
        BY <1>1, <3>1, SeededConcat DEF Each
      <3>4. PlanShape(e, sp, t, alter \o seeds)
        BY <2>4, <3>2, <3>3, AlteringShape DEF SeedsDue
      <3>5. result.statements = alter \o seeds
        BY <2>2, <2>4
      <3> QED
        BY <3>4, <3>5 DEF Shaped
    <2> QED
      BY <2>3, <2>4
  <1> QED
    BY <1>2, <1>3, <1>4

LEMMA MYSeedDataOnly ==
  ASSUME NEW e, NEW sp, NEW t
  PROVE  Shaped(e, sp, t, MY!PlanMysqlTableSeedDataOnly(sp, t))
  <1> DEFINE seeds == MY!SeedDataStatements(sp)
  <1>1. MY!PlanMysqlTableSeedDataOnly(sp, t) =
          IF sp.seedData /\ ~t.exists THEN MY!PlanError ELSE MY!Result(seeds)
    BY DEF MY!PlanMysqlTableSeedDataOnly
  <1>2. /\ Each(e, sp, seeds) /\ (sp.seedData => Seeded(seeds)) /\ (~sp.seedData => seeds = <<>>)
    BY MYSeeds
  <1> HIDE DEF seeds
  <1>3. CASE sp.seedData /\ ~t.exists
    BY <1>1, <1>3 DEF Shaped, MY!PlanError
  <1>4. CASE ~(sp.seedData /\ ~t.exists)
    <2>1. PlanShape(e, sp, t, seeds)
      BY <1>2, <1>4, AlteringShape DEF SeedsDue
    <2> QED
      BY <1>1, <1>4, <2>1 DEF Shaped, MY!Result
  <1> QED
    BY <1>3, <1>4

-----------------------------------------------------------------------------
(* Cassandra.                                                              *)

LEMMA CSSame ==
  /\ \A s : CS!Flatten(s) = Flatten(s)
  /\ \A s, n : CS!HasName(s, n) = HasName(s, n)
  /\ \A op, arg : CS!Statement(op, arg) = [op |-> op, arg |-> arg]
  BY DEF CS!Flatten, Flatten, CS!HasName, HasName, CS!NamesOf, NamesOf, CS!Statement

LEMMA CSAlterColumn ==
  ASSUME NEW e, NEW sp, sp.hasSchema, NEW existing
  PROVE  Each(e, sp, CS!AlterColumnStatements(sp, existing))
  <1> DEFINE column == CS!schemaColumnToColumn(CS!ByName(sp.columns, existing.name))
             drop == [op |-> "dropColumn", arg |-> existing.name]
             retype == [op |-> "alterType", arg |-> [name |-> column.name, type |-> column.type]]
             known == HasName(sp.columns, existing.name)
             differs == ~CS!columnsMatch(existing, column) /\ existing.type # column.type
  <1>1. CS!AlterColumnStatements(sp, existing) =
           CASE ~known -> <<drop>> [] known /\ differs -> <<retype>> [] OTHER -> <<>>
    BY CSSame, Zenon DEF CS!AlterColumnStatements
  <1>2. Harmless(e, sp, retype) /\ (~known => Harmless(e, sp, drop))
    BY DEF Harmless, Kept, TableOps, PolicyOps
  <1> HIDE DEF column, drop, retype, known, differs
  <1>3. CASE ~known
    <2>1. CS!AlterColumnStatements(sp, existing) = <<drop>>
      BY <1>1, <1>3, Zenon
    <2> QED
      BY <1>2, <1>3, <2>1, EachLiteral
  <1>4. CASE known /\ differs
    <2>1. CS!AlterColumnStatements(sp, existing) = <<retype>>
      BY <1>1, <1>4, Zenon
    <2> QED
      BY <1>2, <2>1, EachLiteral
  <1>5. CASE known /\ ~differs
    <2>1. CS!AlterColumnStatements(sp, existing) = <<>>
      BY <1>1, <1>5, Zenon
    <2> QED
      BY <2>1, EachLiteral
  <1> QED
    BY <1>3, <1>4, <1>5

LEMMA CSColumns ==
  ASSUME NEW e, NEW sp, IsSpec(sp), sp.hasSchema, NEW t, IsTable(t)
  PROVE  Each(e, sp, CS!buildColumnStatements(sp, t))
  <1> DEFINE f == [i \in DOMAIN t.columns |-> CS!AlterColumnStatements(sp, CS!ExistingColumn(t.columns[i]))]
             g == [i \in DOMAIN sp.columns |->
                     IF HasName(t.columns, sp.columns[i].name) THEN <<>>
                     ELSE <<[op |-> "addColumn", arg |-> sp.columns[i]]>>]
  <1>1. CS!buildColumnStatements(sp, t) = Flatten(f) \o Flatten(g)
    BY CSSame DEF CS!buildColumnStatements, CS!FlatMap, CS!InsertColumnStatement
  <1>2. Each(e, sp, Flatten(f))
    <2>1. \A i \in DOMAIN t.columns : Each(e, sp, f[i])
      BY CSAlterColumn
    <2>2. f = [i \in DOMAIN t.columns |-> f[i]]
      OBVIOUS
    <2> HIDE DEF f
    <2> QED
      BY <2>1, <2>2, EachFlat DEF IsTable
  <1>3. Each(e, sp, Flatten(g))
    <2>1. ASSUME NEW i \in DOMAIN sp.columns
          PROVE  Harmless(e, sp, [op |-> "addColumn", arg |-> sp.columns[i]])
      <3>1. "name" \in DOMAIN sp.columns[i]
        BY DEF IsSpec, Range
      <3> QED
        BY <3>1 DEF Harmless, TableOps, PolicyOps
    <2>2. \A i \in DOMAIN sp.columns : Each(e, sp, g[i])
      BY <2>1, EachLiteral
    <2>3. g = [i \in DOMAIN sp.columns |-> g[i]]
      OBVIOUS
    <2> HIDE DEF g
    <2> QED
      BY <2>2, <2>3, EachFlat DEF IsSpec
  <1> HIDE DEF f, g
  <1> QED
    BY <1>1, <1>2, <1>3, EachConcat

LEMMA CSProperties ==
  ASSUME NEW e, NEW sp, NEW t
  PROVE  Each(e, sp, CS!buildPropertiesStatements(sp, t))
  <1>1. \/ CS!buildPropertiesStatements(sp, t) = <<>>
        \/ \E a : CS!buildPropertiesStatements(sp, t) = <<[op |-> "alterProperties", arg |-> a]>>
    BY CSSame, Zenon DEF CS!buildPropertiesStatements
  <1>2. \A a : Harmless(e, sp, [op |-> "alterProperties", arg |-> a])
    BY DEF Harmless, TableOps, PolicyOps
  <1> QED
    BY <1>1, <1>2, EachLiteral

LEMMA CSCreateTable ==
  ASSUME NEW e, NEW sp, IsSpec(sp)
  PROVE  Creating(e, sp, CS!CreateTableStatements(sp))
  <1> DEFINE arg == [CS!NoTable EXCEPT !.exists = TRUE, !.columns = sp.columns,
                       !.primaryKey = sp.primaryKey, !.properties = sp.properties]
  <1>1. CS!CreateTableStatements(sp) = <<[op |-> "createTable", arg |-> arg]>>
    BY CSSame DEF CS!CreateTableStatements
  <1>2. IsCreate(sp, [op |-> "createTable", arg |-> arg])
    <2>1. /\ DOMAIN arg = DOMAIN NoTable /\ arg.exists = TRUE /\ arg.columns = sp.columns /\ arg.foreignKeys = <<>>
          /\ arg.indexes = <<>> /\ arg.checks = <<>> /\ arg.exclusions = <<>>
          /\ arg.triggers = <<>> /\ arg.policies = <<>> /\ arg.filled = {} /\ arg.nulls = {} /\ arg.seeds = 0
      BY DEF CS!NoTable, NoTable
    <2> HIDE DEF arg
    <2> QED
      BY <2>1, Literals DEF IsCreate, IsTable, IsSpec
  <1> HIDE DEF arg
  <1> QED
    BY <1>1, <1>2, CreatingOne

LEMMA CSPlan ==
  ASSUME NEW sp, IsSpec(sp), sp.hasSchema, NEW t, IsTable(t)
  PROVE  Shaped("cassandra", sp, t, CS!planCassandraTable(sp, t))
  <1> DEFINE result == CS!planCassandraTable(sp, t)
             drop == IF t.exists THEN <<CS!Statement("dropTable", "")>> ELSE <<>>
             create == CS!CreateTableStatements(sp)
             alter == CS!buildColumnStatements(sp, t) \o CS!buildPropertiesStatements(sp, t)
             q == CASE sp.isDeleted -> drop [] ~sp.isDeleted /\ ~t.exists -> create [] OTHER -> alter
  <1>1. result.statements = q
    <2>1. result = CS!Result(q)
      BY Zenon DEF CS!planCassandraTable
    <2> HIDE DEF result, q
    <2> QED
      BY <2>1 DEF CS!Result
  <1>2. ~SeedsDue("cassandra", sp)
    BY DEF SeedsDue
  <1>3. Creating("cassandra", sp, create)
    BY CSCreateTable
  <1>4. Each("cassandra", sp, alter)
    BY CSColumns, CSProperties, EachConcat
  <1>5. drop = IF t.exists THEN <<[op |-> "dropTable", arg |-> ""]>> ELSE <<>>
    BY CSSame, Zenon
  <1> HIDE DEF result, create, alter, drop
  <1>6. CASE sp.isDeleted
    <2>1. q = drop
      BY <1>6, Zenon
    <2> QED
      BY <1>1, <1>5, <1>6, <2>1, DroppingShape, Zenon DEF Shaped, result
  <1>7. CASE ~sp.isDeleted /\ ~t.exists
    <2>1. q = create
      BY <1>7, Zenon
    <2> HIDE DEF q
    <2> QED
      BY <1>1, <1>2, <1>3, <1>7, <2>1, CreatingShape DEF Shaped, result
  <1>8. CASE ~sp.isDeleted /\ t.exists
    <2>1. q = alter
      BY <1>8, Zenon
    <2> HIDE DEF q
    <2> QED
      BY <1>1, <1>2, <1>4, <1>8, <2>1, AlteringShape DEF Shaped, result
  <1> QED
    BY <1>6, <1>7, <1>8

LEMMA CSSeedDataOnly ==
  ASSUME NEW e, NEW sp, NEW t
  PROVE  Shaped(e, sp, t, CS!planCassandraTableSeedDataOnly(sp, t))
  <1> DEFINE seeds == CS!SeedDataStatements(sp)
             a == [op |-> "seed", arg |-> "key"]
  <1>1. CS!planCassandraTableSeedDataOnly(sp, t) =
          IF sp.seedData /\ ~t.exists THEN CS!PlanError ELSE CS!Result(seeds)
    BY DEF CS!planCassandraTableSeedDataOnly
  <1>2. seeds = IF sp.seedData THEN <<a>> ELSE <<>>
    BY CSSame DEF CS!SeedDataStatements
  <1> HIDE DEF seeds
  <1> QED
    BY <1>1, <1>2, SeedsShape DEF CS!PlanError, CS!Result

-----------------------------------------------------------------------------
(* Sqlite.                                                                 *)

LEMMA SQSame ==
  /\ \A s : SQ!Flatten(s) = Flatten(s)
  /\ \A s, n : SQ!HasName(s, n) = HasName(s, n)
  /\ \A op, arg : SQ!Statement(op, arg) = [op |-> op, arg |-> arg]
  BY DEF SQ!Flatten, Flatten, SQ!HasName, HasName, SQ!NamesOf, NamesOf, SQ!Statement

LEMMA Prefixed ==
  ASSUME NEW a, NEW s, IsSequence(s)
  PROVE  /\ IsSequence(<<a>> \o s) /\ Len(<<a>> \o s) = Len(s) + 1 /\ (<<a>> \o s)[1] = a
         /\ \A i \in 1..Len(s) : (<<a>> \o s)[i + 1] = s[i]
  <1>1. IsSequence(<<a>>) /\ Len(<<a>>) = 1 /\ <<a>>[1] = a
    BY Literals
  <1>2. IsSequence(<<a>> \o s)
    BY <1>1, Concatenated
  <1> DEFINE u == <<a>> \o s
  <1>3. /\ Len(s) \in Nat /\ Len(u) = 1 + Len(s)
        /\ \A i \in 1..(1 + Len(s)) : u[i] = IF i <= 1 THEN <<a>>[i] ELSE s[i - 1]
    BY <1>1, ConcatenatedAt
  <1> HIDE DEF u
  <1>4. u[1] = a
    BY <1>1, <1>3
  <1>5. ASSUME NEW i \in 1..Len(s) PROVE u[i + 1] = s[i]
    <2>1. i + 1 \in 1..(1 + Len(s)) /\ ~(i + 1 <= 1) /\ i + 1 - 1 = i
      BY <1>3
    <2> QED
      BY <1>3, <2>1
  <1> QED
    BY <1>2, <1>3, <1>4, <1>5 DEF u

LEMMA Suffixed ==
  ASSUME NEW s, IsSequence(s), NEW r, IsSequence(r)
  PROVE  /\ IsSequence(s \o r) /\ Len(s \o r) = Len(s) + Len(r) /\ Len(s) \in Nat /\ Len(r) \in Nat
         /\ \A i \in 1..Len(s) : (s \o r)[i] = s[i]
         /\ \A i \in 1..Len(r) : (s \o r)[Len(s) + i] = r[i]
  <1>1. IsSequence(s \o r)
    BY Concatenated
  <1> DEFINE u == s \o r
  <1>2. /\ Len(s) \in Nat /\ Len(r) \in Nat /\ Len(u) = Len(s) + Len(r)
        /\ \A i \in 1..(Len(s) + Len(r)) : u[i] = IF i <= Len(s) THEN s[i] ELSE r[i - Len(s)]
    BY ConcatenatedAt
  <1> HIDE DEF u
  <1>3. \A i \in 1..Len(s) : u[i] = s[i]
    BY <1>2
  <1>4. ASSUME NEW i \in 1..Len(r) PROVE u[Len(s) + i] = r[i]
    <2>1. Len(s) + i \in 1..(Len(s) + Len(r)) /\ ~(Len(s) + i <= Len(s)) /\ Len(s) + i - Len(s) = i
      BY <1>2
    <2> QED
      BY <1>2, <2>1
  <1> QED
    BY <1>1, <1>2, <1>3, <1>4 DEF u

\* The statements of a copy, one by one.
CopyOf(q, rename, create, indexes, copy, drop) ==
  /\ q = <<rename>> \o (<<create>> \o indexes) \o <<copy, drop>>
  /\ IsSequence(q) /\ Len(q) = Len(indexes) + 4 /\ Len(indexes) \in Nat
  /\ q[1] = rename /\ q[2] = create
  /\ \A i \in 1..Len(indexes) : q[i + 2] = indexes[i]
  /\ q[Len(indexes) + 3] = copy /\ q[Len(indexes) + 4] = drop

LEMMA CopyParts ==
  ASSUME NEW rename, NEW create, NEW indexes, IsSequence(indexes), NEW copy, NEW drop
  PROVE  \E q : CopyOf(q, rename, create, indexes, copy, drop)
  <1> DEFINE u == <<create>> \o indexes
             v == <<rename>> \o u
             w == <<copy, drop>>
             q == v \o w
             n == Len(indexes)
  <1>1. /\ IsSequence(u) /\ Len(u) = n + 1 /\ u[1] = create /\ \A i \in 1..n : u[i + 1] = indexes[i]
        /\ n \in Nat
    <2>1. n \in Nat
      BY SequenceDomain
    <2> QED
      BY <2>1, Prefixed
  <1> HIDE DEF u
  <1>2. IsSequence(v) /\ Len(v) = Len(u) + 1 /\ v[1] = rename /\ \A i \in 1..Len(u) : v[i + 1] = u[i]
    BY <1>1, Prefixed
  <1>3. IsSequence(w) /\ Len(w) = 2 /\ w[1] = copy /\ w[2] = drop
    BY Literals
  <1>4. q = <<rename>> \o (<<create>> \o indexes) \o <<copy, drop>>
    BY DEF u
  <1> HIDE DEF v, w
  <1>5. /\ IsSequence(q) /\ Len(q) = Len(v) + Len(w)
        /\ \A i \in 1..Len(v) : q[i] = v[i]
        /\ \A i \in 1..Len(w) : q[Len(v) + i] = w[i]
    <2>1. IsSequence(v) /\ IsSequence(w)
      BY <1>2, <1>3
    <2> QED
      BY <2>1, Suffixed
  <1> HIDE DEF n, q
  <1>6. Len(v) = n + 2 /\ Len(q) = n + 4
    BY <1>1, <1>2, <1>3, <1>5
  <1>7. q[1] = rename
    BY <1>1, <1>2, <1>5, <1>6
  <1>8. q[2] = create
    <2>1. v[1 + 1] = u[1] /\ 1 + 1 = 2 /\ 2 \in 1..Len(v)
      BY <1>1, <1>2, <1>6
    <2> QED
      BY <1>1, <1>5, <2>1
  <1>9. ASSUME NEW i \in 1..n PROVE q[i + 2] = indexes[i]
    <2>1. i + 1 \in 1..Len(u) /\ i + 1 + 1 = i + 2 /\ i + 2 \in 1..Len(v)
      BY <1>1, <1>6
    <2>2. v[i + 1 + 1] = u[i + 1] /\ u[i + 1] = indexes[i]
      BY <1>1, <1>2, <2>1
    <2> QED
      BY <1>5, <2>1, <2>2
  <1>10. q[n + 3] = copy /\ q[n + 4] = drop
    <2>1. 1 \in 1..Len(w) /\ 2 \in 1..Len(w) /\ Len(v) + 1 = n + 3 /\ Len(v) + 2 = n + 4
      BY <1>1, <1>3, <1>6
    <2> QED
      BY <1>3, <1>5, <2>1
  <1>11. /\ IsSequence(q) /\ Len(q) = n + 4 /\ n \in Nat /\ q[1] = rename /\ q[2] = create
         /\ \A i \in 1..n : q[i + 2] = indexes[i]
         /\ q[n + 3] = copy /\ q[n + 4] = drop
    BY <1>1, <1>5, <1>6, <1>7, <1>8, <1>9, <1>10
  <1> QED
    BY <1>4, <1>11, Zenon DEF n, CopyOf

LEMMA RqliteCopy ==
  ASSUME NEW sp, NEW rename, rename.op = "renameTable", NEW create, IsCreate(sp, create),
         NEW indexes, IsSequence(indexes), \A i \in DOMAIN indexes : indexes[i].op = "addIndex",
         NEW copy, copy.op = "copyRows", copy.arg = NamesOf(sp.columns), NEW drop, drop.op = "dropOldTable",
         NEW seeds, Each("rqlite", sp, seeds)
  PROVE  Copying("rqlite", sp, (<<rename>> \o (<<create>> \o indexes) \o <<copy, drop>>) \o seeds, 2)
  <1> DEFINE n == Len(indexes)
             c == n + 3
  <1>0. PICK r : CopyOf(r, rename, create, indexes, copy, drop)
    BY CopyParts
  <1> HIDE DEF n
  <1> DEFINE q == r \o seeds
  <1>1. /\ IsSequence(r) /\ Len(r) = n + 4 /\ n \in Nat /\ r[1] = rename /\ r[2] = create
        /\ \A i \in 1..n : r[i + 2] = indexes[i]
        /\ r[n + 3] = copy /\ r[n + 4] = drop
    BY <1>0 DEF CopyOf, n
  <1>2. IsSequence(seeds) /\ DOMAIN indexes = 1..n
    BY SequenceDomain DEF Each, n
  <1>3. /\ IsSequence(q) /\ Len(q) = Len(r) + Len(seeds) /\ Len(seeds) \in Nat
        /\ \A i \in 1..Len(r) : q[i] = r[i]
        /\ \A i \in 1..Len(seeds) : q[Len(r) + i] = seeds[i]
    <2>1. IsSequence(r) /\ IsSequence(seeds)
      BY <1>1, <1>2
    <2> QED
      BY <2>1, Suffixed
  <1> HIDE DEF q
  <1>4. q[2 - 1] = rename /\ q[2] = create /\ q[c] = copy /\ q[c + 1] = drop
    <2>1. /\ 1 \in 1..Len(r) /\ 2 \in 1..Len(r) /\ c \in 1..Len(r) /\ c + 1 \in 1..Len(r)
          /\ 2 - 1 = 1 /\ c = n + 3 /\ c + 1 = n + 4
      BY <1>1
    <2> HIDE DEF c
    <2> QED
      BY <1>1, <1>3, <2>1
  <1>5. \A i \in (2 + 1)..(c - 1) : q[i].op = "addIndex"
    <2> SUFFICES ASSUME NEW i \in (2 + 1)..(c - 1) PROVE q[i].op = "addIndex"
      OBVIOUS
    <2>1. i - 2 \in 1..n /\ i - 2 + 2 = i /\ i \in 1..Len(r)
      BY <1>1
    <2>2. q[i] = indexes[i - 2]
      BY <1>1, <1>3, <2>1
    <2> QED
      BY <1>2, <2>1, <2>2
  <1>6. \A i \in (c + 1 + 1)..Len(q) : Harmless("rqlite", sp, q[i])
    <2> SUFFICES ASSUME NEW i \in (c + 1 + 1)..Len(q) PROVE Harmless("rqlite", sp, q[i])
      OBVIOUS
    <2>1. i - Len(r) \in 1..Len(seeds) /\ Len(r) + (i - Len(r)) = i
      BY <1>1, <1>3
    <2>2. q[i] = seeds[i - Len(r)] /\ seeds[i - Len(r)] \in Range(seeds)
      BY <1>2, <1>3, <2>1, SequenceDomain
    <2> QED
      BY <2>2 DEF Each
  <1>7. c \in 1..Len(q) /\ c > 2 /\ c + 1 <= Len(q)
    BY <1>1, <1>3
  <1> HIDE DEF c
  <1>8. Copying("rqlite", sp, q, 2)
    BY <1>3, <1>4, <1>5, <1>6, <1>7 DEF Copying
  <1> QED
    BY <1>0, <1>8 DEF q, CopyOf

LEMMA SqliteCopy ==
  ASSUME NEW sp, NEW rename, rename.op = "renameTable", NEW create, IsCreate(sp, create),
         NEW indexes, IsSequence(indexes), \A i \in DOMAIN indexes : indexes[i].op = "addIndex",
         NEW copy, copy.op = "copyRows", copy.arg = NamesOf(sp.columns), NEW drop, drop.op = "dropOldTable",
         NEW begin, begin.op = "begin", NEW commit, commit.op = "commit",
         NEW seeds, Each("sqlite", sp, seeds)
  PROVE  Copying("sqlite", sp,
                 (<<begin>> \o (<<rename>> \o (<<create>> \o indexes) \o <<copy, drop>>) \o <<commit>>) \o seeds, 3)
  <1> DEFINE n == Len(indexes)
             c == n + 4
  <1>0. PICK r : CopyOf(r, rename, create, indexes, copy, drop)
    BY CopyParts
  <1> HIDE DEF n
  <1> DEFINE u == <<begin>> \o r
             v == u \o <<commit>>
             q == v \o seeds
  <1>1. /\ IsSequence(r) /\ Len(r) = n + 4 /\ n \in Nat /\ r[1] = rename /\ r[2] = create
        /\ \A i \in 1..n : r[i + 2] = indexes[i]
        /\ r[n + 3] = copy /\ r[n + 4] = drop
    BY <1>0 DEF CopyOf, n
  <1>2. IsSequence(seeds) /\ DOMAIN indexes = 1..n
    BY SequenceDomain DEF Each, n
  <1>3. /\ IsSequence(u) /\ Len(u) = Len(r) + 1 /\ u[1] = begin
        /\ \A i \in 1..Len(r) : u[i + 1] = r[i]
    BY <1>1, Prefixed
  <1> HIDE DEF u
  <1>4. /\ IsSequence(v) /\ Len(v) = Len(u) + 1
        /\ \A i \in 1..Len(u) : v[i] = u[i]
        /\ v[Len(u) + 1] = commit
    <2>1. IsSequence(<<commit>>) /\ Len(<<commit>>) = 1 /\ <<commit>>[1] = commit /\ 1 \in 1..1
      BY Literals
    <2> QED
      <3>1. IsSequence(u)
        BY <1>3
      <3> DEFINE w == <<commit>>
      <3>2. IsSequence(w) /\ Len(w) = 1 /\ w[1] = commit
        BY <2>1
      <3> HIDE DEF w
      <3>3. /\ IsSequence(u \o w) /\ Len(u \o w) = Len(u) + Len(w)
            /\ \A i \in 1..Len(u) : (u \o w)[i] = u[i]
            /\ \A i \in 1..Len(w) : (u \o w)[Len(u) + i] = w[i]
        <4>1. IsSequence(u) /\ IsSequence(w)
          BY <3>1, <3>2
        <4> QED
          BY <4>1, Suffixed
      <3>4. v = u \o w
        BY DEF w
      <3> HIDE DEF v
      <3> QED
        BY <2>1, <3>2, <3>3, <3>4
  <1> HIDE DEF v
  <1>5. /\ IsSequence(q) /\ Len(q) = Len(v) + Len(seeds) /\ Len(seeds) \in Nat
        /\ \A i \in 1..Len(v) : q[i] = v[i]
        /\ \A i \in 1..Len(seeds) : q[Len(v) + i] = seeds[i]
    <2>1. IsSequence(v) /\ IsSequence(seeds)
      BY <1>2, <1>4
    <2> QED
      BY <2>1, Suffixed
  <1> HIDE DEF q
  <1>6. Len(u) = n + 5 /\ Len(v) = n + 6
    BY <1>1, <1>3, <1>4
  <1>7. \A i \in 1..(n + 4) : q[i + 1] = r[i]
    <2> SUFFICES ASSUME NEW i \in 1..(n + 4) PROVE q[i + 1] = r[i]
      OBVIOUS
    <2>1. i + 1 \in 1..Len(u) /\ i + 1 \in 1..Len(v) /\ i \in 1..Len(r)
      BY <1>1, <1>6
    <2> QED
      BY <1>3, <1>4, <1>5, <2>1
  <1>8. q[1] = begin
    <2>1. 1 \in 1..Len(u) /\ 1 \in 1..Len(v)
      BY <1>1, <1>6
    <2> QED
      BY <1>3, <1>4, <1>5, <2>1
  <1>9. q[c + 2] = commit
    <2>1. c + 2 = Len(u) + 1 /\ c + 2 \in 1..Len(v)
      BY <1>1, <1>6
    <2> QED
      BY <1>4, <1>5, <2>1
  <1>10. q[3 - 1] = rename /\ q[3] = create /\ q[c] = copy /\ q[c + 1] = drop
    <2>1. /\ 1 \in 1..(n + 4) /\ 2 \in 1..(n + 4) /\ n + 3 \in 1..(n + 4) /\ n + 4 \in 1..(n + 4)
          /\ 1 + 1 = 3 - 1 /\ 2 + 1 = 3 /\ n + 3 + 1 = c /\ n + 4 + 1 = c + 1
      BY <1>1
    <2> HIDE DEF c
    <2> QED
      BY <1>1, <1>7, <2>1
  <1>11. \A i \in (3 + 1)..(c - 1) : q[i].op = "addIndex"
    <2> SUFFICES ASSUME NEW i \in (3 + 1)..(c - 1) PROVE q[i].op = "addIndex"
      OBVIOUS
    <2>1. i - 3 \in 1..n /\ i - 3 + 2 \in 1..(n + 4) /\ i - 3 + 2 + 1 = i
      BY <1>1
    <2>2. q[i] = indexes[i - 3]
      BY <1>1, <1>7, <2>1
    <2> QED
      BY <1>2, <2>1, <2>2
  <1>12. \A i \in (c + 2 + 1)..Len(q) : Harmless("sqlite", sp, q[i])
    <2> SUFFICES ASSUME NEW i \in (c + 2 + 1)..Len(q) PROVE Harmless("sqlite", sp, q[i])
      OBVIOUS
    <2>1. i - Len(v) \in 1..Len(seeds) /\ Len(v) + (i - Len(v)) = i
      BY <1>1, <1>5, <1>6
    <2>2. q[i] = seeds[i - Len(v)] /\ seeds[i - Len(v)] \in Range(seeds)
      BY <1>2, <1>5, <2>1, SequenceDomain
    <2> QED
      BY <2>2 DEF Each
  <1>13. c \in 1..Len(q) /\ c > 3 /\ c + 2 <= Len(q)
    BY <1>1, <1>5, <1>6, SMTT(30)
  <1> HIDE DEF c
  <1>14. Copying("sqlite", sp, q, 3)
    BY <1>5, <1>8, <1>9, <1>10, <1>11, <1>12, <1>13 DEF Copying
  <1> QED
    BY <1>0, <1>14 DEF q, v, u, CopyOf

LEMMA SQIndexes ==
  ASSUME NEW e, NEW sp, NEW other, IsSpec(other), NEW t, IsTable(t)
  PROVE  Each(e, sp, SQ!BuildAlterIndexStatements(other, t))
  <1> DEFINE wanted(d) == SQ!AnySeq(t.indexes, LAMBDA c : SQ!IndexEquals(c, SQ!NamedIndex(d)))
             kept(c) == SQ!AnySeq(other.indexes, LAMBDA d : SQ!NamedIndex(d).name = c.name)
             remove(d) == IF HasName(t.indexes, SQ!NamedIndex(d).name)
                          THEN <<SQ!RemoveIndexStatement(SQ!ByName(t.indexes, SQ!NamedIndex(d).name))>> ELSE <<>>
             f == [i \in DOMAIN other.indexes |->
                     IF wanted(other.indexes[i]) THEN <<>>
                     ELSE remove(other.indexes[i]) \o <<SQ!AddIndexStatement(other.indexes[i])>>]
             g == [i \in DOMAIN t.indexes |->
                     IF kept(t.indexes[i]) THEN <<>> ELSE <<SQ!RemoveIndexStatement(t.indexes[i])>>]
  <1>1. SQ!BuildAlterIndexStatements(other, t) = Flatten(f) \o Flatten(g)
    BY SQSame DEF SQ!BuildAlterIndexStatements, SQ!FlatMap
  <1>2. \A c : Harmless(e, sp, SQ!RemoveIndexStatement(c))
    BY SQSame DEF Harmless, TableOps, PolicyOps, SQ!RemoveIndexStatement
  <1>3. \A d : Harmless(e, sp, SQ!AddIndexStatement(d))
    BY SQSame DEF Harmless, TableOps, PolicyOps, SQ!AddIndexStatement
  <1>4. \A d : Each(e, sp, remove(d)) /\ Each(e, sp, <<SQ!AddIndexStatement(d)>>)
    BY <1>2, <1>3, EachLiteral
  <1> HIDE DEF wanted, kept, remove
  <1>5. Each(e, sp, Flatten(f))
    <2>1. \A i \in DOMAIN other.indexes : Each(e, sp, f[i])
      BY <1>4, EachConcat, EachLiteral
    <2>2. f = [i \in DOMAIN other.indexes |-> f[i]]
      OBVIOUS
    <2> HIDE DEF f
    <2> QED
      BY <2>1, <2>2, EachFlat DEF IsSpec
  <1>6. Each(e, sp, Flatten(g))
    <2>1. \A i \in DOMAIN t.indexes : Each(e, sp, g[i])
      BY <1>2, EachLiteral
    <2>2. g = [i \in DOMAIN t.indexes |-> g[i]]
      OBVIOUS
    <2> HIDE DEF g
    <2> QED
      BY <2>1, <2>2, EachFlat DEF IsTable
  <1> HIDE DEF f, g
  <1> QED
    BY <1>1, <1>5, <1>6, EachConcat, SMTT(30)

\* A new table: its statement, and the ones that add its indexes.
NewTable(sp, q, create, indexes) ==
  /\ q = <<create>> \o indexes
  /\ IsCreate(sp, create) /\ IsSequence(indexes)
  /\ \A i \in DOMAIN indexes : indexes[i].op = "addIndex"

LEMMA SQCreateTable ==
  ASSUME NEW sp, NEW other, IsSpec(other), NamesOf(other.columns) = NamesOf(sp.columns)
  PROVE  \E create, indexes : NewTable(sp, SQ!CreateTableStatements(other), create, indexes)
  <1> DEFINE columns == [i \in DOMAIN other.columns |-> other.columns[i]]
             fks == [i \in DOMAIN other.foreignKeys |->
                       [other.foreignKeys[i] EXCEPT !.name = SQ!GenerateFKName(other.foreignKeys[i])]]
             arg == [SQ!NoTable EXCEPT !.exists = TRUE, !.columns = columns, !.primaryKey = other.primaryKey,
                       !.foreignKeys = fks]
             indexes == [i \in DOMAIN other.indexes |-> SQ!AddIndexStatement(other.indexes[i])]
  <1>1. SQ!CreateTableStatements(other) = <<[op |-> "createTable", arg |-> arg]>> \o indexes
    <2>1. SQ!CreateTableStatements(other) = <<SQ!Statement("createTable", arg)>> \o indexes
      BY Zenon DEF SQ!CreateTableStatements, SQ!schemaColumnToColumn
    <2> HIDE DEF arg, indexes
    <2>2. SQ!Statement("createTable", arg) = [op |-> "createTable", arg |-> arg]
      BY SQSame
    <2> QED
      BY <2>1, <2>2, Zenon
  <1>2. IsSequence(columns) /\ NamesOf(columns) = NamesOf(sp.columns) /\ \A c \in Range(columns) : "name" \in DOMAIN c
    <2>1. columns = other.columns
      BY SequenceDomain DEF IsSpec
    <2> HIDE DEF columns
    <2> QED
      BY <2>1 DEF IsSpec
  <1>3. IsSequence(fks)
    BY Mapped DEF IsSpec
  <1>4. IsSequence(indexes) /\ DOMAIN indexes = DOMAIN other.indexes
    BY Mapped DEF IsSpec
  <1>5. \A i \in DOMAIN other.indexes : indexes[i].op = "addIndex"
    BY SQSame DEF SQ!AddIndexStatement
  <1>6. IsCreate(sp, [op |-> "createTable", arg |-> arg])
    <2> HIDE DEF columns, fks
    <2>1. /\ DOMAIN arg = DOMAIN NoTable /\ arg.exists = TRUE /\ arg.columns = columns /\ arg.foreignKeys = fks
          /\ arg.indexes = <<>> /\ arg.checks = <<>> /\ arg.exclusions = <<>>
          /\ arg.triggers = <<>> /\ arg.policies = <<>> /\ arg.filled = {} /\ arg.nulls = {} /\ arg.seeds = 0
      BY DEF SQ!NoTable, NoTable
    <2> HIDE DEF arg
    <2> QED
      BY <1>2, <1>3, <2>1, Literals DEF IsCreate, IsTable
  <1> HIDE DEF arg, indexes
  <1>7. \A i \in DOMAIN indexes : indexes[i].op = "addIndex"
    BY <1>4, <1>5
  <1> QED
    BY <1>1, <1>4, <1>6, <1>7, Zenon DEF NewTable

\* What both do of it: a new table, and the copy into one.
LEMMA SQCreating ==
  ASSUME NEW e, NEW sp, NEW other, IsSpec(other), NamesOf(other.columns) = NamesOf(sp.columns)
  PROVE  Creating(e, sp, SQ!CreateTableStatements(other))
  <1>0. PICK create, indexes : NewTable(sp, SQ!CreateTableStatements(other), create, indexes)
    BY SQCreateTable
  <1>1. /\ SQ!CreateTableStatements(other) = <<create>> \o indexes
        /\ IsCreate(sp, create) /\ IsSequence(indexes)
        /\ \A i \in DOMAIN indexes : indexes[i].op = "addIndex"
    BY <1>0 DEF NewTable
  <1>2. Each(e, sp, indexes)
    <2>1. \A i \in DOMAIN indexes : Harmless(e, sp, indexes[i])
      BY <1>1 DEF Harmless, TableOps, PolicyOps
    <2>2. \A st \in Range(indexes) : Harmless(e, sp, st)
      BY <2>1 DEF Range
    <2> QED
      BY <1>1, <2>2 DEF Each
  <1>3. Creating(e, sp, <<create>>)
    BY <1>1, CreatingOne
  <1>4. Creating(e, sp, <<create>> \o indexes)
    BY <1>2, <1>3, CreatingThen
  <1> QED
    BY <1>1, <1>4

LEMMA SQCopying ==
  ASSUME NEW sp, NEW other, IsSpec(other), NamesOf(other.columns) = NamesOf(sp.columns), NEW seeds
  PROVE  /\ Each("rqlite", sp, seeds) => Copying("rqlite", sp, SQ!CopyTableStatements(other) \o seeds, 2)
         /\ Each("sqlite", sp, seeds) => Copying("sqlite", sp, SQ!RecreateTableStatements(other) \o seeds, 3)
  <1> DEFINE create == SQ!CreateTableStatements(other)
             rename == [op |-> "renameTable", arg |-> ""]
             copy == [op |-> "copyRows", arg |-> NamesOf(sp.columns)]
             drop == [op |-> "dropOldTable", arg |-> ""]
             begin == [op |-> "begin", arg |-> ""]
             commit == [op |-> "commit", arg |-> ""]
  <1>1. SQ!CopyTableStatements(other) = <<rename>> \o create \o <<copy, drop>>
    <2>1. SQ!CopyTableStatements(other) = <<SQ!Statement("renameTable", "")>> \o create
             \o <<SQ!Statement("copyRows", NamesOf(other.columns)), SQ!Statement("dropOldTable", "")>>
      BY Zenon DEF SQ!CopyTableStatements, NamesOf
    <2>2. /\ SQ!Statement("renameTable", "") = rename /\ SQ!Statement("dropOldTable", "") = drop
          /\ SQ!Statement("copyRows", NamesOf(other.columns)) = copy
      BY Zenon DEF SQ!Statement
    <2> HIDE DEF create, rename, copy, drop
    <2> QED
      BY <2>1, <2>2, Zenon
  <1>2. SQ!RecreateTableStatements(other) = <<begin>> \o SQ!CopyTableStatements(other) \o <<commit>>
    <2>1. SQ!Statement("begin", "") = begin /\ SQ!Statement("commit", "") = commit
      BY Zenon DEF SQ!Statement
    <2> HIDE DEF begin, commit
    <2> QED
      BY <2>1, Zenon DEF SQ!RecreateTableStatements
  <1>0. PICK first, indexes : NewTable(sp, create, first, indexes)
    BY SQCreateTable
  <1>3. /\ create = <<first>> \o indexes
        /\ IsCreate(sp, first) /\ IsSequence(indexes)
        /\ \A i \in DOMAIN indexes : indexes[i].op = "addIndex"
    BY <1>0 DEF NewTable
  <1>4. /\ rename.op = "renameTable" /\ copy.op = "copyRows" /\ copy.arg = NamesOf(sp.columns)
        /\ drop.op = "dropOldTable" /\ begin.op = "begin" /\ commit.op = "commit"
    OBVIOUS
  <1> HIDE DEF create, rename, copy, drop, begin, commit
  <1>5. ASSUME Each("rqlite", sp, seeds)
        PROVE  Copying("rqlite", sp, SQ!CopyTableStatements(other) \o seeds, 2)
    <2>1. Copying("rqlite", sp, (<<rename>> \o (<<first>> \o indexes) \o <<copy, drop>>) \o seeds, 2)
      BY <1>3, <1>4, <1>5, RqliteCopy
    <2> QED
      BY <1>1, <1>3, <2>1, Zenon
  <1>6. ASSUME Each("sqlite", sp, seeds)
        PROVE  Copying("sqlite", sp, SQ!RecreateTableStatements(other) \o seeds, 3)
    <2>1. Copying("sqlite", sp,
                  (<<begin>> \o (<<rename>> \o (<<first>> \o indexes) \o <<copy, drop>>) \o <<commit>>) \o seeds, 3)
      BY <1>3, <1>4, <1>6, SqliteCopy
    <2> QED
      BY <1>1, <1>2, <1>3, <2>1, Zenon
  <1> QED
    BY <1>5, <1>6

LEMMA SQCopySequence ==
  ASSUME NEW other, IsSpec(other)
  PROVE  IsSequence(SQ!CopyTableStatements(other))
  <1> DEFINE copy == SQ!CopyTableStatements(other)
             create == SQ!CreateTableStatements(other)
  <1>1. PICK x, y : copy = <<x>> \o create \o y /\ IsSequence(y)
    BY Literals, Zenon DEF SQ!CopyTableStatements
  <1>2. IsSequence(create)
    BY SQCreating DEF Creating
  <1> HIDE DEF copy, create
  <1> DEFINE u == <<x>>
  <1>3. IsSequence(u)
    BY Literals
  <1> HIDE DEF u
  <1>4. IsSequence(u \o create)
    BY <1>2, <1>3, Concatenated
  <1>5. IsSequence(u \o create \o y)
    BY <1>1, <1>4, Concatenated
  <1> QED
    BY <1>1, <1>5, Zenon DEF u, copy

LEMMA SQSeeds ==
  ASSUME NEW sp
  PROVE  SQ!SeedDataStatements(sp) = IF sp.seedData THEN <<[op |-> "seed", arg |-> "key"]>> ELSE <<>>
  BY SQSame DEF SQ!SeedDataStatements

\* A plan of a table that is not dropped: it is made, copied or altered.
LEMMA SqliteShape ==
  ASSUME NEW e \in {"sqlite", "rqlite"}, NEW sp, sp.hasSchema, NEW t,
         NEW create, Creating(e, sp, create), NEW alter, Each(e, sp, alter), NEW recreate,
         NEW seeds, seeds = IF sp.seedData THEN <<[op |-> "seed", arg |-> "key"]>> ELSE <<>>,
         IsSequence(recreate), Copying(e, sp, recreate \o seeds, IF e = "sqlite" THEN 3 ELSE 2),
         NEW body, body \in {alter, recreate}
  PROVE  PlanShape(e, sp, t, (IF t.exists THEN body ELSE create) \o seeds)
  <1>1. Each(e, sp, seeds) /\ (sp.seedData => Seeded(seeds))
    BY KeySeeds
  <1>2. CASE ~t.exists
    <2>1. Creating(e, sp, create \o seeds)
      BY <1>1, CreatingThen
    <2>2. sp.seedData => Seeded(create \o seeds)
      BY <1>1, SeededConcat DEF Creating, Each
    <2>3. PlanShape(e, sp, t, create \o seeds)
      BY <1>2, <2>1, <2>2, CreatingShape DEF SeedsDue
    <2> QED
      BY <1>2, <2>3, Zenon
  <1>3. CASE t.exists /\ body = alter
    <2>1. Each(e, sp, alter \o seeds)
      BY <1>1, EachConcat
    <2>2. sp.seedData => Seeded(alter \o seeds)
      BY <1>1, SeededConcat DEF Each
    <2>3. PlanShape(e, sp, t, alter \o seeds)
      BY <1>3, <2>1, <2>2, AlteringShape DEF SeedsDue
    <2> QED
      BY <1>3, <2>3, Zenon
  <1>4. CASE t.exists /\ body = recreate
    <2> DEFINE q == recreate \o seeds
    <2>1. sp.seedData => Seeded(q)
      BY <1>1, SeededConcat DEF Each
    <2>2. IsSequence(q)
      BY <1>1, Concatenated DEF Each
    <2>3. Copying(e, sp, q, IF e = "sqlite" THEN 3 ELSE 2)
      OBVIOUS
    <2> HIDE DEF q
    <2>4. \/ e = "sqlite" /\ Copying(e, sp, q, 3)
          \/ e = "rqlite" /\ Copying(e, sp, q, 2)
      BY <2>3
    <2>5. PlanShape(e, sp, t, q)
      BY <1>4, <2>1, <2>2, <2>4, Zenon DEF PlanShape, SeedsDue
    <2> QED
      BY <1>4, <2>5, Zenon DEF q
  <1> QED
    BY <1>2, <1>3, <1>4

LEMMA SQPlan ==
  ASSUME NEW sp, IsSpec(sp), sp.hasSchema, NEW t, IsTable(t)
  PROVE  Shaped("sqlite", sp, t, SQ!PlanSqliteTable(sp, t))
  <1> DEFINE e == "sqlite"
             seeds == SQ!SeedDataStatements(sp)
             create == SQ!CreateTableStatements(sp)
             recreate == SQ!RecreateTableStatements(sp)
             alter == SQ!AlterTableStatements(sp, t)
             body == SQ!buildStatements(sp, t)
             dropping == IF t.exists THEN <<SQ!Statement("dropTable", "")>> ELSE <<>>
             q == IF sp.isDeleted THEN dropping ELSE (IF t.exists THEN body ELSE create) \o seeds
             result == SQ!PlanSqliteTable(sp, t)
  <1>1. result.statements = q
    <2>1. result = SQ!Result(q)
      BY DEF SQ!PlanSqliteTable
    <2> HIDE DEF result, q
    <2> QED
      BY <2>1 DEF SQ!Result
  <1>2. body \in {alter, recreate}
    BY DEF SQ!buildStatements
  <1>3. seeds = IF sp.seedData THEN <<[op |-> "seed", arg |-> "key"]>> ELSE <<>>
    BY SQSeeds
  <1>4. Creating(e, sp, create)
    BY SQCreating
  <1>5. Copying(e, sp, recreate \o seeds, 3) /\ IsSequence(recreate)
    <2>1. Each(e, sp, seeds) /\ Each(e, sp, <<>>)
      BY <1>3, KeySeeds, EachLiteral
    <2>2. Copying(e, sp, recreate \o seeds, 3)
      BY <2>1, SQCopying
    <2>3. IsSequence(recreate)
      <3> DEFINE copy == SQ!CopyTableStatements(sp)
      <3>1. recreate = <<SQ!Statement("begin", "")>> \o copy \o <<SQ!Statement("commit", "")>>
        BY DEF SQ!RecreateTableStatements
      <3>2. IsSequence(copy)
        BY SQCopySequence
      <3> DEFINE x == <<SQ!Statement("begin", "")>>
                 y == <<SQ!Statement("commit", "")>>
      <3>3. IsSequence(x) /\ IsSequence(y)
        BY Literals, Zenon
      <3> HIDE DEF copy, recreate, x, y
      <3>4. IsSequence(x \o copy)
        BY <3>2, <3>3, Concatenated
      <3>5. IsSequence(x \o copy \o y)
        BY <3>3, <3>4, Concatenated
      <3> QED
        BY <3>1, <3>5, Zenon DEF x, y
    <2> QED
      BY <2>2, <2>3
  <1>6. Each(e, sp, alter)
    <2> DEFINE f == [i \in DOMAIN sp.columns |->
                       IF HasName(t.columns, sp.columns[i].name) THEN <<>>
                       ELSE <<[op |-> "addColumn", arg |-> sp.columns[i]]>>]
               g == [i \in DOMAIN t.columns |->
                       IF HasName(sp.columns, t.columns[i].name) THEN <<>>
                       ELSE <<[op |-> "dropColumn", arg |-> t.columns[i].name]>>]
    <2>1. alter = Flatten(f) \o SQ!BuildAlterIndexStatements(sp, t) \o Flatten(g)
      BY SQSame DEF SQ!AlterTableStatements, SQ!FlatMap, SQ!InsertColumnStatement, SQ!DropColumnStatement,
                    SQ!schemaColumnToColumn
    <2>2. Each(e, sp, Flatten(f))
      <3>1. ASSUME NEW i \in DOMAIN sp.columns PROVE Each(e, sp, f[i])
        <4>1. "name" \in DOMAIN sp.columns[i]
          BY DEF IsSpec, Range
        <4>2. Harmless(e, sp, [op |-> "addColumn", arg |-> sp.columns[i]])
          BY <4>1 DEF Harmless, TableOps, PolicyOps
        <4> QED
          BY <4>2, EachLiteral
      <3>2. f = [i \in DOMAIN sp.columns |-> f[i]]
        OBVIOUS
      <3> HIDE DEF f
      <3> QED
        BY <3>1, <3>2, EachFlat DEF IsSpec
    <2>3. Each(e, sp, Flatten(g))
      <3>1. ASSUME NEW i \in DOMAIN t.columns PROVE Each(e, sp, g[i])
        <4>1. ~HasName(sp.columns, t.columns[i].name) =>
                 Harmless(e, sp, [op |-> "dropColumn", arg |-> t.columns[i].name])
          BY DEF Harmless, Kept, TableOps, PolicyOps
        <4> QED
          BY <4>1, EachLiteral
      <3>2. g = [i \in DOMAIN t.columns |-> g[i]]
        OBVIOUS
      <3> HIDE DEF g
      <3> QED
        BY <3>1, <3>2, EachFlat DEF IsTable
    <2>4. Each(e, sp, SQ!BuildAlterIndexStatements(sp, t))
      BY SQIndexes
    <2> HIDE DEF alter, f, g
    <2> QED
      BY <2>1, <2>2, <2>3, <2>4, EachConcat
  <1>7. dropping = IF t.exists THEN <<[op |-> "dropTable", arg |-> ""]>> ELSE <<>>
    BY SQSame
  <1> HIDE DEF seeds, create, recreate, alter, body, dropping, result
  <1>8. PlanShape("sqlite", sp, t, q)
    <2>1. CASE sp.isDeleted
      <3>1. q = dropping
        BY <2>1, Zenon
      <3> HIDE DEF q
      <3> QED
        BY <1>7, <2>1, <3>1, DroppingShape, Zenon
    <2>2. CASE ~sp.isDeleted
      <3>1. PlanShape("sqlite", sp, t, (IF t.exists THEN body ELSE create) \o seeds)
        BY <1>2, <1>3, <1>4, <1>5, <1>6, SqliteShape
      <3> QED
        BY <2>2, <3>1, Zenon
    <2> QED
      BY <2>1, <2>2
  <1> HIDE DEF q
  <1> QED
    BY <1>1, <1>8 DEF Shaped, result

LEMMA SQSeedDataOnly ==
  ASSUME NEW e, NEW sp, NEW t
  PROVE  Shaped(e, sp, t, SQ!PlanSqliteTableSeedDataOnly(sp, t))
  <1> DEFINE seeds == SQ!SeedDataStatements(sp)
  <1>1. SQ!PlanSqliteTableSeedDataOnly(sp, t) =
          IF sp.seedData /\ ~t.exists THEN SQ!PlanError ELSE SQ!Result(seeds)
    BY DEF SQ!PlanSqliteTableSeedDataOnly
  <1>2. seeds = IF sp.seedData THEN <<[op |-> "seed", arg |-> "key"]>> ELSE <<>>
    BY SQSeeds
  <1> HIDE DEF seeds
  <1> QED
    BY <1>1, <1>2, SeedsShape DEF SQ!PlanError, SQ!Result

-----------------------------------------------------------------------------
(* Rqlite: sqlite's planner with its own decoding of a column.             *)

LEMMA RQSame ==
  /\ \A s : RQ!Flatten(s) = Flatten(s)
  /\ \A s, n : RQ!HasName(s, n) = HasName(s, n)
  /\ \A op, arg : RQ!Statement(op, arg) = [op |-> op, arg |-> arg]
  BY DEF RQ!Flatten, Flatten, RQ!HasName, HasName, RQ!NamesOf, NamesOf, RQ!Statement

\* What it takes from sqlite's planner is what sqlite's planner does.
LEMMA RQSqlite ==
  /\ \A sp, t : RQ!SQ!BuildAlterIndexStatements(sp, t) = SQ!BuildAlterIndexStatements(sp, t)
  /\ \A sp : RQ!SQ!CreateTableStatements(sp) = SQ!CreateTableStatements(sp)
  /\ \A sp : RQ!SQ!CopyTableStatements(sp) = SQ!CopyTableStatements(sp)
  /\ \A sp : RQ!SQ!SeedDataStatements(sp) = SQ!SeedDataStatements(sp)
  /\ \A c : RQ!SQ!InsertColumnStatement(c) = SQ!InsertColumnStatement(c)
  /\ \A n : RQ!SQ!DropColumnStatement(n) = SQ!DropColumnStatement(n)
  <1>1. ASSUME NEW sp, NEW t PROVE RQ!SQ!BuildAlterIndexStatements(sp, t) = SQ!BuildAlterIndexStatements(sp, t)
    BY Zenon
    DEF RQ!SQ!BuildAlterIndexStatements, SQ!BuildAlterIndexStatements, RQ!SQ!FlatMap, SQ!FlatMap,
        RQ!SQ!AnySeq, SQ!AnySeq, RQ!SQ!IndexEquals, SQ!IndexEquals, RQ!SQ!NamedIndex, SQ!NamedIndex,
        RQ!SQ!HasName, SQ!HasName, RQ!SQ!RemoveIndexStatement, SQ!RemoveIndexStatement, RQ!SQ!ByName,
        SQ!ByName, RQ!SQ!AddIndexStatement, SQ!AddIndexStatement, RQ!SQ!Flatten, SQ!Flatten,
        RQ!SQ!normalizeIndexMethod, SQ!normalizeIndexMethod, RQ!SQ!Canonical, SQ!Canonical,
        RQ!SQ!SameColumns, SQ!SameColumns, RQ!SQ!NoName, SQ!NoName, RQ!SQ!GenerateIndexName,
        SQ!GenerateIndexName, RQ!SQ!NamesOf, SQ!NamesOf, RQ!SQ!Statement, SQ!Statement,
        RQ!SQ!CanonicalizeSQLExpr, SQ!CanonicalizeSQLExpr, RQ!SQ!Range, SQ!Range
  <1>2. ASSUME NEW sp PROVE RQ!SQ!CreateTableStatements(sp) = SQ!CreateTableStatements(sp)
    BY Zenon
    DEF RQ!SQ!CreateTableStatements, SQ!CreateTableStatements, RQ!SQ!Statement, SQ!Statement,
        RQ!SQ!NoTable, SQ!NoTable, RQ!SQ!schemaColumnToColumn, SQ!schemaColumnToColumn,
        RQ!SQ!GenerateFKName, SQ!GenerateFKName, RQ!SQ!AddIndexStatement, SQ!AddIndexStatement,
        RQ!SQ!NoValue, SQ!NoValue, RQ!SQ!NoName, SQ!NoName, RQ!SQ!NamedIndex, SQ!NamedIndex,
        RQ!SQ!GenerateIndexName, SQ!GenerateIndexName
  <1>3. ASSUME NEW sp PROVE RQ!SQ!CopyTableStatements(sp) = SQ!CopyTableStatements(sp)
    BY Zenon
    DEF RQ!SQ!CopyTableStatements, SQ!CopyTableStatements, RQ!SQ!Statement, SQ!Statement,
        RQ!SQ!CreateTableStatements, SQ!CreateTableStatements, RQ!SQ!NoTable, SQ!NoTable,
        RQ!SQ!schemaColumnToColumn, SQ!schemaColumnToColumn, RQ!SQ!GenerateFKName, SQ!GenerateFKName,
        RQ!SQ!AddIndexStatement, SQ!AddIndexStatement, RQ!SQ!NoValue, SQ!NoValue, RQ!SQ!NoName, SQ!NoName,
        RQ!SQ!NamedIndex, SQ!NamedIndex, RQ!SQ!GenerateIndexName, SQ!GenerateIndexName
  <1>4. ASSUME NEW sp PROVE RQ!SQ!SeedDataStatements(sp) = SQ!SeedDataStatements(sp)
    BY Zenon
    DEF RQ!SQ!SeedDataStatements, SQ!SeedDataStatements, RQ!SQ!Statement, SQ!Statement
  <1>5. ASSUME NEW c PROVE RQ!SQ!InsertColumnStatement(c) = SQ!InsertColumnStatement(c)
    BY Zenon
    DEF RQ!SQ!InsertColumnStatement, SQ!InsertColumnStatement, RQ!SQ!Statement, SQ!Statement,
        RQ!SQ!schemaColumnToColumn, SQ!schemaColumnToColumn
  <1>6. ASSUME NEW n PROVE RQ!SQ!DropColumnStatement(n) = SQ!DropColumnStatement(n)
    BY Zenon
    DEF RQ!SQ!DropColumnStatement, SQ!DropColumnStatement, RQ!SQ!Statement, SQ!Statement
  <1> QED
    BY <1>1, <1>2, <1>3, <1>4, <1>5, <1>6

LEMMA RQDecoded ==
  ASSUME NEW sp, IsSpec(sp)
  PROVE  /\ IsSpec(RQ!Decoded(sp)) /\ NamesOf(RQ!Decoded(sp).columns) = NamesOf(sp.columns)
         /\ \A i \in DOMAIN sp.columns : "name" \in DOMAIN RQ!schemaColumnToColumn(sp.columns[i])
  <1> DEFINE columns == [i \in DOMAIN sp.columns |-> RQ!schemaColumnToColumn(sp.columns[i])]
             decoded == RQ!Decoded(sp)
  <1>1. decoded = [sp EXCEPT !.columns = columns]
    BY DEF RQ!Decoded
  <1>2. /\ IsSequence(columns) /\ NamesOf(columns) = NamesOf(sp.columns)
        /\ \A c \in Range(columns) : "name" \in DOMAIN c
        /\ \A i \in DOMAIN sp.columns : "name" \in DOMAIN columns[i]
    <2>1. \A i \in DOMAIN sp.columns :
             "name" \in DOMAIN columns[i] /\ columns[i].name = sp.columns[i].name
      BY DEF IsSpec, Range, RQ!schemaColumnToColumn
    <2>2. IsSequence(columns) /\ DOMAIN columns = DOMAIN sp.columns
      BY Mapped DEF IsSpec
    <2> HIDE DEF columns
    <2> QED
      BY <2>1, <2>2 DEF NamesOf, Range
  <1>3. \A i \in DOMAIN sp.columns : "name" \in DOMAIN RQ!schemaColumnToColumn(sp.columns[i])
    BY <1>2
  <1> HIDE DEF columns, decoded
  <1>4. /\ DOMAIN decoded = DOMAIN EmptySpec /\ decoded.columns = columns
        /\ decoded.foreignKeys = sp.foreignKeys /\ decoded.indexes = sp.indexes /\ decoded.checks = sp.checks
        /\ decoded.exclusions = sp.exclusions /\ decoded.triggers = sp.triggers
        /\ decoded.policies = sp.policies /\ decoded.hypertable = sp.hypertable
    BY <1>1 DEF IsSpec, EmptySpec
  <1>5. IsSpec(decoded) /\ NamesOf(decoded.columns) = NamesOf(sp.columns)
    BY <1>2, <1>4 DEF IsSpec
  <1> QED
    BY <1>3, <1>5 DEF decoded

LEMMA RQPlan ==
  ASSUME NEW sp, IsSpec(sp), sp.hasSchema, NEW t, IsTable(t)
  PROVE  Shaped("rqlite", sp, t, RQ!PlanRqliteTable(sp, t))
  <1> DEFINE e == "rqlite"
             seeds == RQ!SeedDataStatements(sp)
             create == RQ!CreateTableStatements(sp)
             recreate == RQ!RecreateTableStatements(sp)
             alter == RQ!AlterTableStatements(sp, t)
             body == RQ!buildStatements(sp, t)
             dropping == IF t.exists THEN <<RQ!Statement("dropTable", "")>> ELSE <<>>
             q == IF sp.isDeleted THEN dropping ELSE (IF t.exists THEN body ELSE create) \o seeds
             result == RQ!PlanRqliteTable(sp, t)
             decoded == RQ!Decoded(sp)
  <1>1. result.statements = q
    <2>1. result = RQ!Result(q)
      BY DEF RQ!PlanRqliteTable
    <2> HIDE DEF result, q
    <2> QED
      BY <2>1 DEF RQ!Result
  <1>2. body \in {alter, recreate}
    BY DEF RQ!buildStatements
  <1>3. seeds = IF sp.seedData THEN <<[op |-> "seed", arg |-> "key"]>> ELSE <<>>
    BY SQSeeds, RQSqlite DEF RQ!SeedDataStatements
  <1>4. create = SQ!CreateTableStatements(decoded) /\ recreate = SQ!CopyTableStatements(decoded)
    BY RQSqlite DEF RQ!CreateTableStatements, RQ!RecreateTableStatements
  <1>5. /\ IsSpec(decoded) /\ NamesOf(decoded.columns) = NamesOf(sp.columns)
        /\ \A i \in DOMAIN sp.columns : "name" \in DOMAIN RQ!schemaColumnToColumn(sp.columns[i])
    BY RQDecoded
  <1> HIDE DEF decoded
  <1>6. Creating(e, sp, create)
    BY <1>4, <1>5, SQCreating
  <1>7. Copying(e, sp, recreate \o seeds, 2)
    <2>1. Each(e, sp, seeds)
      BY <1>3, KeySeeds
    <2>2. Copying(e, sp, SQ!CopyTableStatements(decoded) \o seeds, 2)
      BY <1>5, <2>1, SQCopying
    <2> QED
      BY <1>4, <2>2, Zenon
  <1>8. IsSequence(recreate)
    BY <1>4, <1>5, SQCopySequence
  <1>9. Each(e, sp, alter)
    <2> DEFINE f == [i \in DOMAIN sp.columns |->
                       IF HasName(t.columns, sp.columns[i].name) THEN <<>>
                       ELSE <<RQ!InsertColumnStatement(sp.columns[i])>>]
               g == [i \in DOMAIN t.columns |->
                       IF HasName(sp.columns, t.columns[i].name) THEN <<>>
                       ELSE <<RQ!DropColumnStatement(t.columns[i].name)>>]
    <2>1. alter = Flatten(f) \o RQ!BuildAlterIndexStatements(sp, t) \o Flatten(g)
      BY RQSame DEF RQ!AlterTableStatements, RQ!FlatMap
    <2>2. Each(e, sp, Flatten(f))
      <3>1. ASSUME NEW i \in DOMAIN sp.columns PROVE Each(e, sp, f[i])
        <4>1. RQ!InsertColumnStatement(sp.columns[i]) =
                 [op |-> "addColumn", arg |-> RQ!schemaColumnToColumn(sp.columns[i])]
          BY RQSqlite, SQSame DEF RQ!InsertColumnStatement, SQ!InsertColumnStatement, SQ!schemaColumnToColumn
        <4>2. Harmless(e, sp, RQ!InsertColumnStatement(sp.columns[i]))
          BY <1>5, <4>1 DEF Harmless, TableOps, PolicyOps
        <4> QED
          BY <4>2, EachLiteral
      <3>2. f = [i \in DOMAIN sp.columns |-> f[i]]
        OBVIOUS
      <3> HIDE DEF f
      <3> QED
        BY <3>1, <3>2, EachFlat DEF IsSpec
    <2>3. Each(e, sp, Flatten(g))
      <3>1. ASSUME NEW i \in DOMAIN t.columns PROVE Each(e, sp, g[i])
        <4>1. RQ!DropColumnStatement(t.columns[i].name) = [op |-> "dropColumn", arg |-> t.columns[i].name]
          BY RQSqlite, SQSame DEF RQ!DropColumnStatement, SQ!DropColumnStatement
        <4>2. ~HasName(sp.columns, t.columns[i].name) => Harmless(e, sp, RQ!DropColumnStatement(t.columns[i].name))
          BY <4>1 DEF Harmless, Kept, TableOps, PolicyOps
        <4> QED
          BY <4>2, EachLiteral
      <3>2. g = [i \in DOMAIN t.columns |-> g[i]]
        OBVIOUS
      <3> HIDE DEF g
      <3> QED
        BY <3>1, <3>2, EachFlat DEF IsTable
    <2>4. Each(e, sp, RQ!BuildAlterIndexStatements(sp, t))
      BY SQIndexes, RQSqlite DEF RQ!BuildAlterIndexStatements
    <2> HIDE DEF alter, f, g
    <2> QED
      BY <2>1, <2>2, <2>3, <2>4, EachConcat
  <1>10. dropping = IF t.exists THEN <<[op |-> "dropTable", arg |-> ""]>> ELSE <<>>
    BY RQSame
  <1> HIDE DEF seeds, create, recreate, alter, body, dropping, result
  <1>11. PlanShape("rqlite", sp, t, q)
    <2>1. CASE sp.isDeleted
      <3>1. q = dropping
        BY <2>1, Zenon
      <3> HIDE DEF q
      <3> QED
        BY <1>10, <2>1, <3>1, DroppingShape, Zenon
    <2>2. CASE ~sp.isDeleted
      <3>1. PlanShape("rqlite", sp, t, (IF t.exists THEN body ELSE create) \o seeds)
        BY <1>2, <1>3, <1>6, <1>7, <1>8, <1>9, SqliteShape
      <3> QED
        BY <2>2, <3>1, Zenon
    <2> QED
      BY <2>1, <2>2
  <1> HIDE DEF q
  <1> QED
    BY <1>1, <1>11 DEF Shaped, result

LEMMA RQSeedDataOnly ==
  ASSUME NEW e, NEW sp, NEW t
  PROVE  Shaped(e, sp, t, RQ!PlanRqliteTableSeedDataOnly(sp, t))
  <1> DEFINE seeds == RQ!SeedDataStatements(sp)
  <1>1. RQ!PlanRqliteTableSeedDataOnly(sp, t) =
          IF sp.seedData /\ ~t.exists THEN RQ!PlanError ELSE RQ!Result(seeds)
    BY DEF RQ!PlanRqliteTableSeedDataOnly
  <1>2. seeds = IF sp.seedData THEN <<[op |-> "seed", arg |-> "key"]>> ELSE <<>>
    BY SQSeeds, RQSqlite DEF RQ!SeedDataStatements
  <1> HIDE DEF seeds
  <1> QED
    BY <1>1, <1>2, SeedsShape DEF RQ!PlanError, RQ!Result

-----------------------------------------------------------------------------
(* Every engine.                                                           *)

\* Whatever the engine, the spec and the table: a plan that is not refused
\* alters the table without touching what the spec keeps, makes the table, drops
\* a table whose spec is deleted, or copies the rows into a new table before the
\* old one goes; and it has the seed rows the spec asks for.
THEOREM PlansAreShaped ==
  ASSUME NEW e \in {"postgres", "timescaledb", "mysql", "sqlite", "rqlite", "cassandra"},
         NEW sp, IsSpec(sp), NEW t, IsTable(t)
  PROVE  Shaped(e, sp, t, PlanTableSchema(e, sp, t))
  <1>1. CASE e = "postgres"
    <2>1. PlanTableSchema(e, sp, t) =
            IF sp.hasSchema THEN PG!PlanPostgresTable(sp, t) ELSE PG!PlanPostgresTableSeedDataOnly(sp, t)
      BY <1>1, Zenon DEF PlanTableSchema
    <2> QED
      BY <1>1, <2>1, PGPlan, PGSeedDataOnly DEF PolicyEngines
  <1>2. CASE e = "timescaledb"
    <2>1. PlanTableSchema(e, sp, t) =
            IF sp.hasSchema THEN TS!PlanTimescaleDBTable(sp, t) ELSE PG!PlanPostgresTableSeedDataOnly(sp, t)
      BY <1>2, Zenon DEF PlanTableSchema
    <2> QED
      BY <1>2, <2>1, TSPlan, PGSeedDataOnly DEF PolicyEngines
  <1>3. CASE e = "mysql"
    <2>1. PlanTableSchema(e, sp, t) =
            IF sp.hasSchema THEN MY!PlanMysqlTable(sp, t) ELSE MY!PlanMysqlTableSeedDataOnly(sp, t)
      BY <1>3, Zenon DEF PlanTableSchema
    <2> QED
      BY <2>1, MYPlan, MYSeedDataOnly
  <1>4. CASE e = "sqlite"
    <2>1. PlanTableSchema(e, sp, t) =
            IF sp.hasSchema THEN SQ!PlanSqliteTable(sp, t) ELSE SQ!PlanSqliteTableSeedDataOnly(sp, t)
      BY <1>4, Zenon DEF PlanTableSchema
    <2> QED
      BY <1>4, <2>1, SQPlan, SQSeedDataOnly
  <1>5. CASE e = "rqlite"
    <2>1. PlanTableSchema(e, sp, t) =
            IF sp.hasSchema THEN RQ!PlanRqliteTable(sp, t) ELSE RQ!PlanRqliteTableSeedDataOnly(sp, t)
      BY <1>5, Zenon DEF PlanTableSchema
    <2> QED
      BY <1>5, <2>1, RQPlan, RQSeedDataOnly
  <1>6. CASE e = "cassandra"
    <2>1. PlanTableSchema(e, sp, t) =
            IF sp.hasSchema THEN CS!planCassandraTable(sp, t) ELSE CS!planCassandraTableSeedDataOnly(sp, t)
      BY <1>6, Zenon DEF PlanTableSchema
    <2> QED
      BY <1>6, <2>1, CSPlan, CSSeedDataOnly
  <1> QED
    BY <1>1, <1>2, <1>3, <1>4, <1>5, <1>6
=============================================================================
