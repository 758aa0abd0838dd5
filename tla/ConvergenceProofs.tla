-------------------------- MODULE ConvergenceProofs --------------------------
(***************************************************************************)
(* Proofs that planning converges on sqlite, rqlite and cassandra: once a  *)
(* plan has run to its end, planning the same spec again finds nothing to  *)
(* do but the seed rows, wherever the table came from and whatever cut     *)
(* earlier plans short; and the spec generated from a table finds nothing  *)
(* to do to it either.                                                     *)
(***************************************************************************)
EXTENDS PlanningProofs

-----------------------------------------------------------------------------
(* The inductive invariant: what is still to be done to the table is in    *)
(* the statements that are left, and nothing in them undoes what is done.  *)

\* Wherever the first of a pair is, the second comes later.
Followed(q, pairs) ==
  \A k \in DOMAIN q : \A p \in pairs : q[k] = p[1] => \E j \in DOMAIN q : j > k /\ q[j] = p[2]

\* The column a planner makes of a spec's column.
Wanted(e, c) == IF e = "rqlite" THEN RQ!schemaColumnToColumn(c) ELSE c

IndexNamed(sp, n) == \E d \in Range(sp.indexes) : NamedIndex(d).name = n
DropsIndex(st) == st.op \in {"dropIndex", "dropIndexIfExists"}

IndexSwaps(sp) ==
  {<<[op |-> op, arg |-> NamedIndex(d).name], [op |-> "addIndex", arg |-> NamedIndex(d)]>> :
     op \in {"dropIndex", "dropIndexIfExists"}, d \in Range(sp.indexes)}

\* A column of the table is as the spec's column of its name.
ColumnFits(e, sp, c) ==
  IF e = "cassandra"
  THEN CS!ExistingColumn(c).type = CS!unaliasUnparameterizedColumnType(ByName(sp.columns, c.name).type)
  ELSE SQ!columnsMatch(Wanted(e, ByName(sp.columns, c.name)), SQ!ExistingColumn(c))

ColumnsConverge(e, sp, t, q) ==
  /\ \A c \in Range(t.columns) :
       \/ HasName(sp.columns, c.name) /\ ColumnFits(e, sp, c)
       \/ ~HasName(sp.columns, c.name) /\ [op |-> "dropColumn", arg |-> c.name] \in Range(q)
       \/ e = "cassandra" /\ \E st \in Range(q) : st.op = "alterType"
  /\ \A c \in Range(sp.columns) :
       HasName(t.columns, c.name) \/ [op |-> "addColumn", arg |-> Wanted(e, c)] \in Range(q)
  /\ \A st \in Range(q) :
       /\ st.op = "addColumn" => \E c \in Range(sp.columns) : st.arg = Wanted(e, c)
       /\ st.op = "dropColumn" => ~HasName(sp.columns, st.arg)

IndexesConverge(sp, t, q) ==
  /\ \A d \in Range(sp.indexes) :
       \/ \E c \in Range(t.indexes) : IndexEquals(c, NamedIndex(d))
       \/ [op |-> "addIndex", arg |-> NamedIndex(d)] \in Range(q)
  /\ \A c \in Range(t.indexes) :
       /\ IndexNamed(sp, c.name) \/ \E st \in Range(q) : DropsIndex(st) /\ st.arg = c.name
       /\ c.constraint => \E d \in Range(sp.indexes) : IndexEquals(c, NamedIndex(d))
  /\ Followed(q, IndexSwaps(sp))
  /\ \A st \in Range(q) : st.op = "addIndex" => \E d \in Range(sp.indexes) : st.arg = NamedIndex(d)

\* What cassandra's planner changes of the properties.
ReadProperties == CS!Chances \cup CS!Maps \cup {"comment"}
PropertyNames == ReadProperties \cup CS!Numbers \cup CS!Words
CurrentProperty(t, p) ==
  IF p \in ReadProperties THEN CS!Printed(p, CS!ValueIn(t.properties[1], p)) ELSE CS!Unset(p)
Changed(sp, t) == {p \in PropertyNames : CurrentProperty(t, p) # CS!ValueIn(sp.properties[1], p)}
Changes(sp, names) ==
  {[property |-> p, as |-> CS!AlteredAs(p), value |-> CS!ValueIn(sp.properties[1], p)] : p \in names}

PropertiesConverge(sp, t, q) ==
  /\ sp.properties # NoValue =>
       \/ Changed(sp, t) = {}
       \/ \E st \in Range(q) : st.op = "alterProperties"
  /\ \A st \in Range(q) : st.op = "alterProperties" =>
       LET names == {x.property : x \in st.arg}
       IN /\ sp.properties # NoValue
          /\ Changed(sp, t) \subseteq names /\ names \subseteq PropertyNames /\ st.arg = Changes(sp, names)

IdleOps == {"copyRows", "dropOldTable", "commit", "seed"}
SqliteOps == IdleOps \cup {"addColumn", "dropColumn", "addIndex", "dropIndex", "dropIndexIfExists"}
CassandraOps == {"addColumn", "dropColumn", "alterType", "alterProperties"}

IsStatement(st) == st = [op |-> st.op, arg |-> st.arg]

Converges(e, sp, t, q) ==
  /\ IsSequence(q) /\ (\A st \in Range(q) : IsStatement(st)) /\ IsTable(t) /\ t.exists
  /\ ColumnsConverge(e, sp, t, q)
  /\ e \in SqliteLike =>
       /\ SameColumns(t.primaryKey, sp.primaryKey) /\ t.foreignKeys = <<>>
       /\ IndexesConverge(sp, t, q)
       /\ \A st \in Range(q) : st.op \in SqliteOps
  /\ e = "cassandra" => PropertiesConverge(sp, t, q) /\ \A st \in Range(q) : st.op \in CassandraOps

\* A table whose columns and indexes read back as they are: every name is one
\* column's, its type is what the server calls it, and indexes have names.
Described(e, t) ==
  /\ IsTable(t)
  /\ e \in SqliteLike =>
       /\ \A c, d \in Range(t.columns) : c.name = d.name => c = d
       /\ \A c \in Range(t.columns) : IsColumn(c)
       /\ t.foreignKeys = <<>>
       /\ \A x, y \in Range(t.indexes) : x.name = y.name => x = y
       /\ \A x \in Range(t.indexes) : IsPlain(x) /\ x.name # NoName
  /\ e = "cassandra" =>
       /\ \A c, d \in Range(t.columns) : c.name = d.name => CS!ExistingColumn(c).type = d.type
       /\ \A c \in Range(t.columns) : c.type # <<"varchar", "">>

\* The plan of a new table, and one that copies the old table into it.
Makes(e, sp, q) ==
  /\ IsSequence(q) /\ q # <<>> /\ q[1].op = "createTable"
  /\ Converges(e, sp, StoredTable(e, q[1].arg), Tail(q)) /\ Described(e, StoredTable(e, q[1].arg))

Renames(e, sp, q) ==
  /\ IsSequence(q) /\ q # <<>> /\ q[1].op = "renameTable" /\ Makes(e, sp, Tail(q))

Begins(e, sp, q) ==
  /\ IsSequence(q) /\ q # <<>> /\ q[1].op = "begin" /\ Renames(e, sp, Tail(q))

InFlight(e, sp, t, q) ==
  \/ Converges(e, sp, t, q)
  \/ Makes(e, sp, q) /\ ~t.exists
  \/ e \in SqliteLike /\ Renames(e, sp, q)
  \/ e = "sqlite" /\ Begins(e, sp, q)

\* A table that is to be dropped.
Leaves(t, q) == (q = <<>> /\ ~t.exists) \/ q = <<[op |-> "dropTable", arg |-> ""]>>

\* Seed rows, of a spec that has them.
IsSeed(sp, st) == st.op = "seed" /\ sp.seedData

Underway(e, sp, t, q) ==
  IF ~sp.hasSchema THEN IsSequence(q) /\ \A st \in Range(q) : IsSeed(sp, st)
  ELSE IF sp.isDeleted THEN Leaves(t, q) ELSE InFlight(e, sp, t, q)

ConvergenceInv ==
  engine \in ConvergingEngines =>
    /\ phase \in {"planned", "applying"} => Underway(engine, spec, Seen.table, statements)
    /\ phase = "applied" => Underway(engine, spec, table, <<>>)
    /\ Described(engine, table)
    /\ phase = "applying" => Described(engine, Seen.table)

-----------------------------------------------------------------------------
(* Sequences of statements.                                                *)

LEMMA HeadTail ==
  ASSUME NEW q, IsSequence(q), q # <<>>
  PROVE  IsSequence(Tail(q)) /\ Range(q) = {q[1]} \cup Range(Tail(q)) /\ q[1] \in Range(q)
  <1>1. /\ IsSequence(Tail(q)) /\ Len(q) \in Nat /\ Len(q) > 0
        /\ DOMAIN Tail(q) = 1..(Len(q) - 1) /\ DOMAIN q = 1..Len(q)
        /\ \A i \in 1..(Len(q) - 1) : Tail(q)[i] = q[i + 1]
    BY Tailed
  <1> DEFINE r == Tail(q)
  <1>2. ASSUME NEW i \in DOMAIN q, i # 1 PROVE q[i] \in Range(r)
    <2>1. i - 1 \in DOMAIN r /\ r[i - 1] = q[i]
      BY <1>1, <1>2
    <2> QED
      BY <2>1 DEF Range
  <1>3. ASSUME NEW i \in DOMAIN r PROVE r[i] \in Range(q)
    <2>1. i + 1 \in DOMAIN q /\ r[i] = q[i + 1]
      BY <1>1
    <2> QED
      BY <2>1 DEF Range
  <1>4. q[1] \in Range(q)
    BY <1>1 DEF Range
  <1> HIDE DEF r
  <1>5. Range(q) = {q[1]} \cup Range(r)
    <2>1. \A x \in Range(q) : \E i \in DOMAIN q : x = q[i]
      BY DEF Range
    <2>2. \A x \in Range(r) : \E i \in DOMAIN r : x = r[i]
      BY DEF Range
    <2> QED
      BY <1>2, <1>3, <1>4, <2>1, <2>2
  <1> QED
    BY <1>1, <1>4, <1>5 DEF r

LEMMA TailOf ==
  ASSUME NEW a, NEW s, IsSequence(s), NEW q, q = <<a>> \o s
  PROVE  IsSequence(q) /\ q # <<>> /\ q[1] = a /\ Tail(q) = s
  <1>1. /\ IsSequence(q) /\ Len(q) = Len(s) + 1 /\ q[1] = a
        /\ \A i \in 1..Len(s) : q[i + 1] = s[i]
    BY Prefixed
  <1>2. Len(s) \in Nat /\ s = [i \in 1..Len(s) |-> s[i]] /\ DOMAIN s = 1..Len(s)
    BY SequenceDomain
  <1>3. q # <<>>
    BY <1>1, <1>2
  <1>4. /\ IsSequence(Tail(q)) /\ DOMAIN Tail(q) = 1..(Len(q) - 1)
        /\ \A i \in 1..(Len(q) - 1) : Tail(q)[i] = q[i + 1]
    BY <1>1, <1>3, Tailed
  <1>5. Len(q) - 1 = Len(s)
    BY <1>1, <1>2
  <1>6. Tail(q) = [i \in 1..Len(s) |-> Tail(q)[i]]
    BY <1>4, <1>5, SequenceDomain
  <1>7. \A i \in 1..Len(s) : Tail(q)[i] = s[i]
    BY <1>1, <1>4, <1>5
  <1> QED
    BY <1>1, <1>2, <1>3, <1>6, <1>7

LEMMA Associative ==
  ASSUME NEW r, IsSequence(r), NEW s, IsSequence(s), NEW t, IsSequence(t)
  PROVE  (r \o s) \o t = r \o (s \o t)
  <1> DEFINE S == Range(r) \cup Range(s) \cup Range(t)
  <1>1. r \in Seq(S) /\ s \in Seq(S) /\ t \in Seq(S)
    BY LargerSequence
  <1> QED
    BY <1>1, ConcatAssociative

\* What Followed needs of a pair.
LEMMA FollowedTail ==
  ASSUME NEW q, IsSequence(q), q # <<>>, NEW pairs, Followed(q, pairs)
  PROVE  /\ Followed(Tail(q), pairs)
         /\ \A p \in pairs : q[1] = p[1] => p[2] \in Range(Tail(q))
  <1> DEFINE r == Tail(q)
  <1>1. /\ Len(q) \in Nat /\ Len(q) > 0 /\ DOMAIN r = 1..(Len(q) - 1) /\ DOMAIN q = 1..Len(q)
        /\ \A i \in 1..(Len(q) - 1) : r[i] = q[i + 1]
    BY Tailed
  <1> HIDE DEF r
  <1>2. ASSUME NEW k \in DOMAIN q, NEW p \in pairs, q[k] = p[1]
        PROVE  \E j \in DOMAIN r : j + 1 > k /\ r[j] = p[2]
    <2>1. PICK j \in DOMAIN q : j > k /\ q[j] = p[2]
      BY <1>2 DEF Followed
    <2>2. j - 1 \in DOMAIN r /\ r[j - 1] = q[j] /\ j - 1 + 1 > k
      BY <1>1, <2>1
    <2> QED
      BY <2>1, <2>2
  <1>3. ASSUME NEW k \in DOMAIN r, NEW p \in pairs, r[k] = p[1]
        PROVE  \E j \in DOMAIN r : j > k /\ r[j] = p[2]
    <2>1. k + 1 \in DOMAIN q /\ q[k + 1] = p[1]
      BY <1>1, <1>3
    <2>2. PICK j \in DOMAIN r : j + 1 > k + 1 /\ r[j] = p[2]
      BY <1>2, <2>1
    <2> QED
      BY <1>1, <2>2
  <1>4. Followed(r, pairs)
    BY <1>3 DEF Followed
  <1>5. ASSUME NEW p \in pairs, q[1] = p[1] PROVE p[2] \in Range(r)
    <2>1. PICK j \in DOMAIN r : r[j] = p[2]
      BY <1>1, <1>2, <1>5
    <2> QED
      BY <2>1 DEF Range
  <1> QED
    BY <1>4, <1>5 DEF r

LEMMA FollowedNone ==
  ASSUME NEW q, NEW pairs, \A p \in pairs : p[1] \notin Range(q)
  PROVE  Followed(q, pairs)
  BY DEF Followed, Range

LEMMA FollowedPair ==
  ASSUME NEW a, NEW b, NEW pairs, \A p \in pairs : (a = p[1] => b = p[2]) /\ b # p[1]
  PROVE  Followed(<<a, b>>, pairs)
  <1> DEFINE q == <<a, b>>
  <1>1. DOMAIN q = {1, 2} /\ q[1] = a /\ q[2] = b
    OBVIOUS
  <1> HIDE DEF q
  <1>2. Followed(q, pairs)
    BY <1>1 DEF Followed
  <1> QED
    BY <1>2 DEF q

LEMMA FollowedConcat ==
  ASSUME NEW q, IsSequence(q), NEW r, IsSequence(r), NEW pairs, Followed(q, pairs), Followed(r, pairs)
  PROVE  Followed(q \o r, pairs)
  <1> DEFINE u == q \o r
  <1>1. /\ Len(q) \in Nat /\ Len(r) \in Nat /\ DOMAIN q = 1..Len(q) /\ DOMAIN r = 1..Len(r)
        /\ DOMAIN u = 1..(Len(q) + Len(r))
        /\ \A i \in 1..(Len(q) + Len(r)) : u[i] = IF i <= Len(q) THEN q[i] ELSE r[i - Len(q)]
    BY ConcatenatedAt
  <1> HIDE DEF u
  <1>2. ASSUME NEW k \in DOMAIN u, NEW p \in pairs, u[k] = p[1]
        PROVE  \E j \in DOMAIN u : j > k /\ u[j] = p[2]
    <2>1. CASE k <= Len(q)
      <3>1. k \in DOMAIN q /\ q[k] = p[1]
        BY <1>1, <1>2, <2>1
      <3>2. PICK j \in DOMAIN q : j > k /\ q[j] = p[2]
        BY <3>1 DEF Followed
      <3>3. j \in DOMAIN u /\ u[j] = q[j]
        BY <1>1
      <3> QED
        BY <3>2, <3>3
    <2>2. CASE ~(k <= Len(q))
      <3>1. k - Len(q) \in DOMAIN r /\ r[k - Len(q)] = p[1]
        BY <1>1, <1>2, <2>2
      <3>2. PICK j \in DOMAIN r : j > k - Len(q) /\ r[j] = p[2]
        BY <3>1 DEF Followed
      <3>3. j + Len(q) \in DOMAIN u /\ ~(j + Len(q) <= Len(q)) /\ j + Len(q) - Len(q) = j /\ j + Len(q) > k
        BY <1>1, <3>2
      <3>4. u[j + Len(q)] = r[j]
        BY <1>1, <3>3
      <3> QED
        BY <3>2, <3>3, <3>4
    <2> QED
      BY <2>1, <2>2
  <1>3. Followed(u, pairs)
    BY <1>2 DEF Followed
  <1> QED
    BY <1>3 DEF u

LEMMA FollowedFlat ==
  ASSUME NEW seqs, IsSequence(seqs), NEW pairs,
         \A i \in DOMAIN seqs : IsSequence(seqs[i]) /\ Followed(seqs[i], pairs)
  PROVE  Followed(Flatten(seqs), pairs)
  <1>0. Len(seqs) \in Nat /\ DOMAIN seqs = 1..Len(seqs)
    BY SequenceDomain
  <1>1. PICK f : Flattens(f, seqs, Len(seqs)) /\ Flatten(seqs) = f[Len(seqs)]
    BY <1>0, FlattenIs
  <1>2. \A i \in 0..Len(seqs) : f[i] = IF i = 0 THEN <<>> ELSE f[i - 1] \o seqs[i]
    BY <1>1 DEF Flattens
  <1> DEFINE Good(n) == IsSequence(f[n]) /\ Followed(f[n], pairs)
             T == {n \in Nat : n \in 0..Len(seqs) => Good(n)}
  <1>3. 0 \in T
    <2>1. f[0] = <<>>
      BY <1>0, <1>2
    <2>2. Followed(<<>>, pairs) /\ IsSequence(<<>>)
      BY FollowedNone, Literals
    <2> QED
      BY <2>1, <2>2
  <1>4. ASSUME NEW n \in Nat, n \in T PROVE n + 1 \in T
    <2> SUFFICES ASSUME n + 1 \in 0..Len(seqs) PROVE Good(n + 1)
      OBVIOUS
    <2>1. f[n + 1] = f[n] \o seqs[n + 1]
      <3>1. f[n + 1] = IF n + 1 = 0 THEN <<>> ELSE f[n + 1 - 1] \o seqs[n + 1]
        BY <1>2
      <3>2. n + 1 # 0 /\ n + 1 - 1 = n
        OBVIOUS
      <3> QED
        BY <3>1, <3>2, Zenon
    <2>2. n \in 0..Len(seqs) /\ n + 1 \in DOMAIN seqs
      BY <1>0
    <2>3. Good(n)
      <3> HIDE DEF Good
      <3> QED
        BY <1>4, <2>2
    <2> QED
      BY <2>1, <2>2, <2>3, Concatenated, FollowedConcat
  <1>5. \A n \in Nat : n \in T
    <2> HIDE DEF T
    <2> QED
      BY <1>3, <1>4, Induction
  <1>6. Good(Len(seqs))
    <2> HIDE DEF Good
    <2> QED
      BY <1>0, <1>5
  <1> QED
    BY <1>1, <1>6

\* Every name is one element's.
Distinct(s) == \A c, d \in Range(s) : c.name = d.name => c = d

LEMMA FoundIs ==
  ASSUME NEW s, IsSequence(s), Distinct(s), NEW c \in Range(s)
  PROVE  HasName(s, c.name) /\ ByName(s, c.name) = c
  <1>1. PICK i \in DOMAIN s : c = s[i]
    BY DEF Range
  <1>2. HasName(s, c.name)
    BY <1>1 DEF HasName, NamesOf
  <1>3. PICK j \in DOMAIN s : ByName(s, c.name) = s[j] /\ s[j].name = c.name
    BY <1>2, Found
  <1> QED
    BY <1>1, <1>2, <1>3 DEF Distinct, Range

LEMMA HasNameIs ==
  ASSUME NEW s, NEW n
  PROVE  HasName(s, n) <=> \E c \in Range(s) : c.name = n
  BY NamesInRange DEF HasName

-----------------------------------------------------------------------------
(* Columns and indexes as the planners compare them.                       *)

LEMMA SQCompares ==
  /\ \A s, n : SQ!ByName(s, n) = ByName(s, n)
  /\ \A d : SQ!NamedIndex(d) = NamedIndex(d)
  /\ \A c, d : SQ!IndexEquals(c, d) = IndexEquals(c, d)
  /\ \A a, b : SQ!SameColumns(a, b) = SameColumns(a, b)
  <1>1. ASSUME NEW s, NEW n PROVE SQ!ByName(s, n) = ByName(s, n)
    BY Zenon DEF SQ!ByName, ByName
  <1>2. ASSUME NEW d PROVE SQ!NamedIndex(d) = NamedIndex(d)
    BY Zenon DEF SQ!NamedIndex, NamedIndex, SQ!NoName, NoName, SQ!GenerateIndexName, GenerateIndexName
  <1>3. ASSUME NEW c, NEW d PROVE SQ!IndexEquals(c, d) = IndexEquals(c, d)
    BY Zenon DEF SQ!IndexEquals, IndexEquals, SQ!normalizeIndexMethod, normalizeIndexMethod, SQ!Canonical, Canonical,
                 SQ!CanonicalizeSQLExpr, CanonicalizeSQLExpr, SQ!SameColumns, SameColumns, SQ!Range, Range
  <1>4. ASSUME NEW a, NEW b PROVE SQ!SameColumns(a, b) = SameColumns(a, b)
    BY Zenon DEF SQ!SameColumns, SameColumns, SQ!Range, Range
  <1> QED
    BY <1>1, <1>2, <1>3, <1>4

LEMMA IndexItself ==
  ASSUME NEW c
  PROVE  IndexEquals(c, c)
  BY DEF IndexEquals, SameColumns

LEMMA ColumnFields ==
  ASSUME NEW c, IsColumn(c)
  PROVE  DOMAIN c = {"name", "type", "isArray", "notNull", "default", "charset", "collation", "autoIncrement", "isStatic"}
  BY DEF IsColumn, Column

LEMMA WantedColumn ==
  ASSUME NEW e, NEW c, IsColumn(c)
  PROVE  /\ IsColumn(Wanted(e, c)) /\ Wanted(e, c).name = c.name /\ Wanted(e, c).type = c.type
         /\ Wanted(e, c).autoIncrement = c.autoIncrement
  <1>1. CASE e # "rqlite"
    BY <1>1 DEF Wanted
  <1>2. CASE e = "rqlite"
    <2> DEFINE w == RQ!schemaColumnToColumn(c)
               a == IF c.default = <<RQ!EmptyStringSentinel>> THEN <<RQ!EmptyString>> ELSE c.default
    <2>1. w = [c EXCEPT !.default = a]
      BY DEF RQ!schemaColumnToColumn
    <2>2. \A i \in DOMAIN a : "meaning" \in DOMAIN a[i]
      <3>1. "meaning" \in DOMAIN RQ!EmptyString
        BY DEF RQ!EmptyString, RQ!Expr
      <3>2. DOMAIN <<RQ!EmptyString>> = {1} /\ <<RQ!EmptyString>>[1] = RQ!EmptyString
        OBVIOUS
      <3> QED
        BY <3>1, <3>2 DEF IsColumn
    <2> HIDE DEF a, w
    <2>3. DOMAIN w = DOMAIN c /\ w.default = a /\ w.name = c.name /\ w.type = c.type /\ w.autoIncrement = c.autoIncrement
      BY <2>1, ColumnFields
    <2>4. IsColumn(w)
      BY <2>2, <2>3 DEF IsColumn
    <2> QED
      BY <1>2, <2>3, <2>4 DEF Wanted, w
  <1> QED
    BY <1>1, <1>2

LEMMA StoredInSqlite ==
  ASSUME NEW e \in SqliteLike, NEW c, IsColumn(c), c.autoIncrement # "true"
  PROVE  SQ!columnsMatch(c, SQ!ExistingColumn(Stored(e, c)))
  <1> DEFINE b == IF c.notNull = "true" THEN "true" ELSE "false"
             s == Stored(e, c)
             x == SQ!ExistingColumn(s)
  <1>1. s = [c EXCEPT !.type = c.type, !.default = c.default, !.notNull = b]
    <2>1. e \notin PostgresLike /\ e # "cassandra"
      BY DEF SqliteLike, PostgresLike
    <2> DEFINE serial == e \in PostgresLike /\ c.type = <<"serial", "">>
               type == CASE serial -> <<"integer", "">>
                         [] e = "cassandra" /\ c.type = <<"varchar", "">> -> <<"text", "">>
                         [] OTHER -> c.type
    <2>2. s = [c EXCEPT !.type = type,
                        !.default = IF serial THEN <<Expr("nextval")>> ELSE c.default,
                        !.notNull = IF serial \/ c.notNull = "true" THEN "true" ELSE "false"]
      BY Zenon DEF Stored
    <2>3. ~serial /\ type = c.type
      BY <2>1, Zenon
    <2> HIDE DEF serial, type, s
    <2> QED
      BY <2>2, <2>3
  <1> HIDE DEF b, s
  <1>2. DOMAIN s = DOMAIN c /\ s.type = c.type /\ s.default = c.default /\ s.notNull = b
    BY <1>1, ColumnFields
  <1>3. x = [s EXCEPT !.autoIncrement = "unset", !.default = SQ!InCatalogAll(s.default)]
    BY DEF SQ!ExistingColumn
  <1> HIDE DEF x
  <1>4. x.type = c.type /\ x.default = SQ!InCatalogAll(c.default) /\ x.notNull = b /\ x.autoIncrement = "unset"
    BY <1>2, <1>3, ColumnFields
  <1>5. SQ!Canonical(c.default) = SQ!Canonical(SQ!InCatalogAll(c.default))
    <2> DEFINE d == c.default
    <2>1. \A i \in DOMAIN d : "meaning" \in DOMAIN d[i]
      BY DEF IsColumn
    <2> HIDE DEF d
    <2>2. \A i \in DOMAIN d : [d[i] EXCEPT !.catalog = TRUE].meaning = d[i].meaning
      BY <2>1
    <2>3. SQ!Canonical(SQ!InCatalogAll(d)) = [i \in DOMAIN d |-> [d[i] EXCEPT !.catalog = TRUE].meaning]
      BY DEF SQ!Canonical, SQ!InCatalogAll, SQ!InCatalog, SQ!CanonicalizeSQLExpr
    <2>4. SQ!Canonical(d) = [i \in DOMAIN d |-> d[i].meaning]
      BY DEF SQ!Canonical, SQ!CanonicalizeSQLExpr
    <2>5. SQ!Canonical(d) = SQ!Canonical(SQ!InCatalogAll(d))
      BY <2>2, <2>3, <2>4
    <2> QED
      BY <2>5 DEF d
  <1>6. SQ!BoolsEqual(c.notNull, b) /\ SQ!BoolsEqual(c.autoIncrement, "unset")
    BY DEF b, SQ!BoolsEqual
  <1>7. SQ!columnsMatch(c, x)
    BY <1>4, <1>5, <1>6 DEF SQ!columnsMatch
  <1> QED
    BY <1>7 DEF x, s

LEMMA StoredTypes ==
  ASSUME NEW e, NEW c, IsColumn(c)
  PROVE  DOMAIN Stored(e, c) = DOMAIN c /\ Stored(e, c).name = c.name
  <1> DEFINE serial == e \in PostgresLike /\ c.type = <<"serial", "">>
             type == CASE serial -> <<"integer", "">>
                       [] e = "cassandra" /\ c.type = <<"varchar", "">> -> <<"text", "">>
                       [] OTHER -> c.type
             default == IF serial THEN <<Expr("nextval")>> ELSE c.default
             notNull == IF serial \/ c.notNull = "true" THEN "true" ELSE "false"
  <1>1. Stored(e, c) = [c EXCEPT !.type = type, !.default = default, !.notNull = notNull]
    BY Zenon DEF Stored
  <1> HIDE DEF type, default, notNull
  <1> QED
    BY <1>1, ColumnFields

LEMMA ExistingType ==
  ASSUME NEW c, "type" \in DOMAIN c
  PROVE  CS!ExistingColumn(c).type = c.type
  BY DEF CS!ExistingColumn

\* What is stored of a spec's column is as the spec has it.
LEMMA StoredFits ==
  ASSUME NEW e \in ConvergingEngines, NEW sp, IsSpec(sp), Settles(e, sp), NEW c \in Range(sp.columns),
         NEW x, x.name = c.name,
         e \in SqliteLike => x = Stored(e, Wanted(e, c)),
         e = "cassandra" => CS!ExistingColumn(x).type = Stored(e, c).type
  PROVE  HasName(sp.columns, x.name) /\ ColumnFits(e, sp, x)
  <1>1. IsSequence(sp.columns) /\ Distinct(sp.columns) /\ IsColumn(c)
    BY DEF IsSpec, Settles, Distinct
  <1>2. HasName(sp.columns, x.name) /\ ByName(sp.columns, x.name) = c
    BY <1>1, FoundIs
  <1>3. CASE e \in SqliteLike
    <2>1. c.autoIncrement # "true"
      BY <1>3 DEF Settles, SettlesInSqlite
    <2>2. SQ!columnsMatch(Wanted(e, c), SQ!ExistingColumn(Stored(e, Wanted(e, c))))
      BY <1>1, <1>3, <2>1, WantedColumn, StoredInSqlite
    <2>3. e # "cassandra"
      BY <1>3 DEF SqliteLike
    <2> QED
      BY <1>2, <1>3, <2>2, <2>3 DEF ColumnFits
  <1>4. CASE e = "cassandra"
    <2> DEFINE type == CASE e \in PostgresLike /\ c.type = <<"serial", "">> -> <<"integer", "">>
                         [] e = "cassandra" /\ c.type = <<"varchar", "">> -> <<"text", "">>
                         [] OTHER -> c.type
    <2>1. type = CS!unaliasUnparameterizedColumnType(c.type)
      <3>1. e \notin PostgresLike
        BY <1>4 DEF PostgresLike
      <3> QED
        BY <1>4, <3>1, Zenon DEF CS!unaliasUnparameterizedColumnType
    <2>2. \E a, b : Stored(e, c) = [c EXCEPT !.type = type, !.default = a, !.notNull = b]
      BY Zenon DEF Stored
    <2> HIDE DEF type
    <2>3. Stored(e, c).type = type
      BY <1>1, <2>2, ColumnFields
    <2> QED
      BY <1>2, <1>4, <2>1, <2>3 DEF ColumnFits
  <1> QED
    BY <1>3, <1>4 DEF ConvergingEngines

-----------------------------------------------------------------------------
(* What is left to do after a statement.                                   *)

LEMMA ColumnsLeft ==
  ASSUME NEW e, NEW sp, NEW t, NEW u, NEW q, IsSequence(q), q # <<>>, ColumnsConverge(e, sp, t, q),
         q[1].op \notin {"addColumn", "dropColumn", "alterType"}, Range(u.columns) = Range(t.columns)
  PROVE  ColumnsConverge(e, sp, u, Tail(q))
  <1>1. Range(q) = {q[1]} \cup Range(Tail(q))
    BY HeadTail
  <1>2. \A n : HasName(u.columns, n) <=> HasName(t.columns, n)
    BY HasNameIs
  <1>3. \A x, n : [op |-> x, arg |-> n].op = x
    OBVIOUS
  <1>4. /\ \A n : [op |-> "addColumn", arg |-> n] # q[1]
        /\ \A n : [op |-> "dropColumn", arg |-> n] # q[1]
    BY <1>3
  <1> QED
    BY <1>1, <1>2, <1>4 DEF ColumnsConverge

LEMMA ColumnLeftAdded ==
  ASSUME NEW e \in ConvergingEngines, NEW sp, IsSpec(sp), Settles(e, sp), NEW t, NEW u,
         NEW q, IsSequence(q), q # <<>>, ColumnsConverge(e, sp, t, q),
         q[1].op = "addColumn", Range(u.columns) = Range(t.columns) \cup {Stored(e, q[1].arg)}
  PROVE  ColumnsConverge(e, sp, u, Tail(q))
  <1>1. Range(q) = {q[1]} \cup Range(Tail(q))
    BY HeadTail
  <1>2. PICK c \in Range(sp.columns) : q[1].arg = Wanted(e, c)
    BY <1>1 DEF ColumnsConverge
  <1>3. IsColumn(c)
    BY DEF Settles
  <1> DEFINE x == Stored(e, q[1].arg)
  <1>4. x.name = c.name
    <2>1. IsColumn(Wanted(e, c)) /\ Wanted(e, c).name = c.name
      BY <1>3, WantedColumn
    <2>2. "name" \in DOMAIN Wanted(e, c)
      BY <2>1, ColumnFields
    <2> QED
      BY <1>2, <2>1, <2>2, StoredColumn
  <1>5. HasName(sp.columns, x.name) /\ ColumnFits(e, sp, x)
    <2>1. e = "cassandra" => CS!ExistingColumn(x).type = Stored(e, c).type
      <3>1. e = "cassandra" => x = Stored(e, c)
        BY <1>2 DEF Wanted
      <3>2. "type" \in DOMAIN Stored(e, c)
        BY <1>3, StoredTypes, ColumnFields
      <3> HIDE DEF x
      <3> QED
        BY <3>1, <3>2, ExistingType
    <2>2. x = Stored(e, Wanted(e, c))
      BY <1>2
    <2> HIDE DEF x
    <2> QED
      BY <1>4, <2>1, <2>2, StoredFits
  <1> HIDE DEF x
  <1>6. \A n : HasName(u.columns, n) <=> HasName(t.columns, n) \/ n = c.name
    BY <1>4, HasNameIs DEF x
  <1>7. /\ \A y \in Range(u.columns) : y \in Range(t.columns) \/ y = x
    BY DEF x
  <1>8. ASSUME NEW d \in Range(sp.columns), ~HasName(u.columns, d.name)
        PROVE  [op |-> "addColumn", arg |-> Wanted(e, d)] \in Range(Tail(q))
    <2>1. [op |-> "addColumn", arg |-> Wanted(e, d)] \in Range(q) /\ d.name # c.name
      BY <1>6, <1>8 DEF ColumnsConverge
    <2>2. Wanted(e, d).name = d.name /\ Wanted(e, c).name = c.name
      BY WantedColumn DEF Settles
    <2>3. [op |-> "addColumn", arg |-> Wanted(e, d)].arg = Wanted(e, d)
      OBVIOUS
    <2>4. [op |-> "addColumn", arg |-> Wanted(e, d)] # q[1]
      BY <1>2, <2>1, <2>2, <2>3
    <2> QED
      BY <1>1, <2>1, <2>4
  <1>9. ASSUME NEW y \in Range(u.columns)
        PROVE  \/ HasName(sp.columns, y.name) /\ ColumnFits(e, sp, y)
               \/ ~HasName(sp.columns, y.name) /\ [op |-> "dropColumn", arg |-> y.name] \in Range(Tail(q))
               \/ e = "cassandra" /\ \E st \in Range(Tail(q)) : st.op = "alterType"
    <2>1. CASE y = x
      BY <1>5, <2>1
    <2>2. CASE y \in Range(t.columns)
      <3>1. \A n : [op |-> "dropColumn", arg |-> n].op = "dropColumn"
        OBVIOUS
      <3>2. \A n : [op |-> "dropColumn", arg |-> n] # q[1]
        BY <3>1
      <3> QED
        BY <1>1, <2>2, <3>2 DEF ColumnsConverge
    <2> QED
      BY <1>7, <2>1, <2>2
  <1>10. \A st \in Range(Tail(q)) :
           /\ st.op = "addColumn" => \E d \in Range(sp.columns) : st.arg = Wanted(e, d)
           /\ st.op = "dropColumn" => ~HasName(sp.columns, st.arg)
    BY <1>1 DEF ColumnsConverge
  <1> QED
    BY <1>8, <1>9, <1>10 DEF ColumnsConverge

LEMMA ColumnLeftDropped ==
  ASSUME NEW e, NEW sp, NEW t, NEW u,
         NEW q, IsSequence(q), q # <<>>, ColumnsConverge(e, sp, t, q),
         q[1].op = "dropColumn", Range(u.columns) = {x \in Range(t.columns) : x.name # q[1].arg}
  PROVE  ColumnsConverge(e, sp, u, Tail(q))
  <1>1. Range(q) = {q[1]} \cup Range(Tail(q))
    BY HeadTail
  <1>2. ~HasName(sp.columns, q[1].arg)
    BY <1>1 DEF ColumnsConverge
  <1>3. \A n : HasName(u.columns, n) <=> HasName(t.columns, n) /\ n # q[1].arg
    BY HasNameIs
  <1>4. ASSUME NEW d \in Range(sp.columns), ~HasName(u.columns, d.name)
        PROVE  [op |-> "addColumn", arg |-> Wanted(e, d)] \in Range(Tail(q))
    <2>1. HasName(sp.columns, d.name)
      BY HasNameIs
    <2>2. ~HasName(t.columns, d.name)
      BY <1>2, <1>3, <1>4, <2>1
    <2>3. [op |-> "addColumn", arg |-> Wanted(e, d)] \in Range(q)
      BY <2>2 DEF ColumnsConverge
    <2>4. [op |-> "addColumn", arg |-> Wanted(e, d)].op = "addColumn"
      OBVIOUS
    <2> QED
      BY <1>1, <2>3, <2>4
  <1>5. ASSUME NEW y \in Range(u.columns)
        PROVE  \/ HasName(sp.columns, y.name) /\ ColumnFits(e, sp, y)
               \/ ~HasName(sp.columns, y.name) /\ [op |-> "dropColumn", arg |-> y.name] \in Range(Tail(q))
               \/ e = "cassandra" /\ \E st \in Range(Tail(q)) : st.op = "alterType"
    <2>1. y \in Range(t.columns) /\ y.name # q[1].arg
      OBVIOUS
    <2>2. [op |-> "dropColumn", arg |-> y.name].arg = y.name
      OBVIOUS
    <2>3. [op |-> "dropColumn", arg |-> y.name] # q[1]
      BY <2>1, <2>2
    <2> QED
      BY <1>1, <2>1, <2>3 DEF ColumnsConverge
  <1>6. \A st \in Range(Tail(q)) :
           /\ st.op = "addColumn" => \E d \in Range(sp.columns) : st.arg = Wanted(e, d)
           /\ st.op = "dropColumn" => ~HasName(sp.columns, st.arg)
    BY <1>1 DEF ColumnsConverge
  <1> QED
    BY <1>4, <1>5, <1>6 DEF ColumnsConverge

LEMMA IndexesLeft ==
  ASSUME NEW sp, NEW t, NEW u, NEW q, IsSequence(q), q # <<>>, IndexesConverge(sp, t, q),
         q[1].op # "addIndex", ~DropsIndex(q[1]), Range(u.indexes) = Range(t.indexes)
  PROVE  IndexesConverge(sp, u, Tail(q))
  <1>1. Range(q) = {q[1]} \cup Range(Tail(q))
    BY HeadTail
  <1>2. Followed(Tail(q), IndexSwaps(sp))
    BY FollowedTail DEF IndexesConverge
  <1>3. \A n : [op |-> "addIndex", arg |-> n].op = "addIndex"
    OBVIOUS
  <1>4. \A n : [op |-> "addIndex", arg |-> n] # q[1]
    BY <1>3
  <1> QED
    BY <1>1, <1>2, <1>4 DEF IndexesConverge

LEMMA IndexLeftAdded ==
  ASSUME NEW sp, NEW t, NEW u, NEW q, IsSequence(q), q # <<>>, IndexesConverge(sp, t, q),
         q[1].op = "addIndex", Range(u.indexes) = Range(t.indexes) \cup {q[1].arg}
  PROVE  IndexesConverge(sp, u, Tail(q))
  <1>1. Range(q) = {q[1]} \cup Range(Tail(q))
    BY HeadTail
  <1>2. Followed(Tail(q), IndexSwaps(sp))
    BY FollowedTail DEF IndexesConverge
  <1>3. PICK d \in Range(sp.indexes) : q[1].arg = NamedIndex(d)
    BY <1>1 DEF IndexesConverge
  <1>4. ASSUME NEW b \in Range(sp.indexes)
        PROVE  \/ \E c \in Range(u.indexes) : IndexEquals(c, NamedIndex(b))
               \/ [op |-> "addIndex", arg |-> NamedIndex(b)] \in Range(Tail(q))
    <2>1. CASE \E c \in Range(t.indexes) : IndexEquals(c, NamedIndex(b))
      BY <2>1
    <2>2. CASE [op |-> "addIndex", arg |-> NamedIndex(b)] = q[1]
      <3>1. q[1].arg = NamedIndex(b)
        BY <2>2
      <3>2. IndexEquals(NamedIndex(b), NamedIndex(b))
        BY IndexItself
      <3> QED
        BY <3>1, <3>2
    <2> QED
      BY <1>1, <2>1, <2>2 DEF IndexesConverge
  <1>5. ASSUME NEW c \in Range(u.indexes)
        PROVE  /\ IndexNamed(sp, c.name) \/ \E st \in Range(Tail(q)) : DropsIndex(st) /\ st.arg = c.name
               /\ c.constraint => \E b \in Range(sp.indexes) : IndexEquals(c, NamedIndex(b))
    <2>1. CASE c = q[1].arg
      BY <1>3, <2>1, IndexItself DEF IndexNamed
    <2>2. CASE c \in Range(t.indexes)
      <3>1. ~DropsIndex(q[1])
        BY DEF DropsIndex
      <3> QED
        BY <1>1, <2>2, <3>1 DEF IndexesConverge
    <2> QED
      BY <2>1, <2>2
  <1>6. \A st \in Range(Tail(q)) : st.op = "addIndex" => \E b \in Range(sp.indexes) : st.arg = NamedIndex(b)
    BY <1>1 DEF IndexesConverge
  <1> QED
    BY <1>2, <1>4, <1>5, <1>6 DEF IndexesConverge

LEMMA IndexLeftDropped ==
  ASSUME NEW sp, NEW t, NEW u, NEW q, IsSequence(q), q # <<>>, IndexesConverge(sp, t, q),
         DropsIndex(q[1]), IsStatement(q[1]),
         Range(u.indexes) = {x \in Range(t.indexes) : x.name # q[1].arg}
  PROVE  IndexesConverge(sp, u, Tail(q))
  <1>1. Range(q) = {q[1]} \cup Range(Tail(q))
    BY HeadTail
  <1>2. /\ Followed(Tail(q), IndexSwaps(sp))
        /\ \A p \in IndexSwaps(sp) : q[1] = p[1] => p[2] \in Range(Tail(q))
    BY FollowedTail DEF IndexesConverge
  <1>3. ASSUME NEW b \in Range(sp.indexes), NamedIndex(b).name = q[1].arg
        PROVE  [op |-> "addIndex", arg |-> NamedIndex(b)] \in Range(Tail(q))
    <2> DEFINE x == q[1].op
               first == [op |-> x, arg |-> NamedIndex(b).name]
               second == [op |-> "addIndex", arg |-> NamedIndex(b)]
    <2>1. x \in {"dropIndex", "dropIndexIfExists"} /\ q[1] = first
      BY <1>3 DEF DropsIndex, IsStatement
    <2>2. <<first, second>> \in IndexSwaps(sp)
      BY <2>1 DEF IndexSwaps
    <2> HIDE DEF first, second
    <2>3. <<first, second>>[1] = first /\ <<first, second>>[2] = second
      OBVIOUS
    <2>4. second \in Range(Tail(q))
      BY <1>2, <2>1, <2>2, <2>3
    <2> QED
      BY <2>4 DEF second
  <1>4. ASSUME NEW b \in Range(sp.indexes)
        PROVE  \/ \E c \in Range(u.indexes) : IndexEquals(c, NamedIndex(b))
               \/ [op |-> "addIndex", arg |-> NamedIndex(b)] \in Range(Tail(q))
    <2>1. CASE \E c \in Range(t.indexes) : IndexEquals(c, NamedIndex(b))
      <3>1. PICK c \in Range(t.indexes) : IndexEquals(c, NamedIndex(b))
        BY <2>1
      <3>2. c.name = NamedIndex(b).name
        BY <3>1 DEF IndexEquals
      <3> QED
        BY <1>3, <3>1, <3>2
    <2>2. CASE [op |-> "addIndex", arg |-> NamedIndex(b)] \in Range(q)
      <3>1. [op |-> "addIndex", arg |-> NamedIndex(b)].op = "addIndex" /\ q[1].op # "addIndex"
        BY DEF DropsIndex
      <3> QED
        BY <1>1, <2>2, <3>1
    <2> QED
      BY <2>1, <2>2 DEF IndexesConverge
  <1>5. ASSUME NEW c \in Range(u.indexes)
        PROVE  /\ IndexNamed(sp, c.name) \/ \E st \in Range(Tail(q)) : DropsIndex(st) /\ st.arg = c.name
               /\ c.constraint => \E b \in Range(sp.indexes) : IndexEquals(c, NamedIndex(b))
    BY <1>1 DEF IndexesConverge
  <1>6. \A st \in Range(Tail(q)) : st.op = "addIndex" => \E b \in Range(sp.indexes) : st.arg = NamedIndex(b)
    BY <1>1 DEF IndexesConverge
  <1> QED
    BY <1>2, <1>4, <1>5, <1>6 DEF IndexesConverge

LEMMA PropertiesLeft ==
  ASSUME NEW sp, NEW t, NEW u, NEW q, IsSequence(q), q # <<>>, PropertiesConverge(sp, t, q),
         q[1].op # "alterProperties", u.properties = t.properties
  PROVE  PropertiesConverge(sp, u, Tail(q))
  <1>1. Range(q) = {q[1]} \cup Range(Tail(q))
    BY HeadTail
  <1>2. Changed(sp, u) = Changed(sp, t)
    BY DEF Changed, CurrentProperty
  <1> QED
    BY <1>1, <1>2 DEF PropertiesConverge

\* A comment that is left out is the empty one.
LEMMA NoComment ==
  CS!Unset("comment") = "" /\ KeptValue("") = "" /\ CS!Printed("comment", "") = ""
  BY DEF CS!Unset, CS!Maps, CS!Numbers, CS!Chances, KeptValue, CS!Printed

\* The properties a server takes: all but the comment have a value.
HaveValues(a) == \A x \in a : x.property = "comment" \/ x.value \notin {"", "null"}

LEMMA PropertiesLeftAltered ==
  ASSUME NEW sp, SettlesInCassandra(sp), NEW t, NEW u, NEW q, IsSequence(q), q # <<>>, PropertiesConverge(sp, t, q),
         q[1].op = "alterProperties", NEW a, a = q[1].arg, HaveValues(a),
         u.properties =
           <<[p \in DOMAIN t.properties[1] \cup {x.property : x \in a} |->
                IF \E x \in a : x.property = p THEN KeptValue((CHOOSE x \in a : x.property = p).value)
                ELSE t.properties[1][p]]>>
  PROVE  PropertiesConverge(sp, u, Tail(q))
  <1>1. Range(q) = {q[1]} \cup Range(Tail(q))
    BY HeadTail
  <1> DEFINE names == {x.property : x \in a}
             w == sp.properties[1]
             old == t.properties[1]
             new == u.properties[1]
             change(p) == [property |-> p, as |-> CS!AlteredAs(p), value |-> CS!ValueIn(w, p)]
  <1>2. sp.properties # NoValue /\ Changed(sp, t) \subseteq names /\ a = Changes(sp, names)
    BY <1>1 DEF PropertiesConverge
  <1>3. a = {change(p) : p \in names}
    BY <1>2 DEF Changes
  <1>4. /\ DOMAIN w \subseteq ReadProperties
        /\ \A p \in DOMAIN w : CS!Printed(p, KeptValue(w[p])) = w[p]
    BY <1>2 DEF SettlesInCassandra, ReadProperties
  <1>5. new = [p \in DOMAIN old \cup names |->
                 IF \E x \in a : x.property = p THEN KeptValue((CHOOSE x \in a : x.property = p).value) ELSE old[p]]
    <2>1. \A x : <<x>>[1] = x
      OBVIOUS
    <2> QED
      BY <2>1, Zenon
  <1> HIDE DEF w, old, new
  <1>6. ASSUME NEW p \in names
        PROVE  p \in DOMAIN new /\ (p = "comment" \/ p \in DOMAIN w) /\ new[p] = KeptValue(CS!ValueIn(w, p))
    <2>1. change(p) \in a
      <3> HIDE DEF names, change
      <3> QED
        BY <1>3
    <2>2. change(p).property = p /\ change(p).value = CS!ValueIn(w, p)
      OBVIOUS
    <2> DEFINE y == CHOOSE x \in a : x.property = p
    <2>3. y \in a /\ y.property = p
      <3> HIDE DEF change
      <3> QED
        BY <2>1, <2>2
    <2>4. new[p] = KeptValue(y.value) /\ p \in DOMAIN new
      <3>1. \E x \in a : x.property = p
        OBVIOUS
      <3> HIDE DEF y
      <3> QED
        BY <1>5, <3>1 DEF y
    <2> HIDE DEF y
    <2>5. y.value = CS!ValueIn(w, p)
      <3>1. PICK m \in names : y = change(m)
        <4> HIDE DEF change, names
        <4> QED
          BY <1>3, <2>3
      <3>2. y.property = m /\ y.value = CS!ValueIn(w, m)
        BY <3>1
      <3> QED
        BY <2>3, <3>2
    <2>6. p = "comment" \/ p \in DOMAIN w
      <3>1. p = "comment" \/ CS!ValueIn(w, p) \notin {"", "null"}
        BY <2>3, <2>5 DEF HaveValues
      <3> QED
        BY <3>1 DEF CS!ValueIn, CS!Unset
    <2> QED
      BY <2>4, <2>5, <2>6
  <1>7. ASSUME NEW p \in PropertyNames \ names PROVE CurrentProperty(u, p) = CurrentProperty(t, p)
    <2>1. p \in DOMAIN new <=> p \in DOMAIN old
      BY <1>5
    <2>2. p \in DOMAIN old => new[p] = old[p]
      <3>1. ~\E x \in a : x.property = p
        OBVIOUS
      <3> QED
        BY <1>5, <3>1
    <2>3. CS!ValueIn(new, p) = CS!ValueIn(old, p)
      BY <2>1, <2>2 DEF CS!ValueIn
    <2> QED
      BY <2>3 DEF CurrentProperty, new, old
  <1> HIDE DEF names
  <1>8. Changed(sp, u) = {}
    <2> SUFFICES ASSUME NEW p \in PropertyNames PROVE CurrentProperty(u, p) = CS!ValueIn(w, p)
      BY DEF Changed, w
    <2>1. CASE p \in names
      <3>1. /\ p \in DOMAIN new /\ (p = "comment" \/ p \in DOMAIN w)
            /\ new[p] = KeptValue(CS!ValueIn(w, p))
        BY <1>6, <2>1
      <3>2. CS!ValueIn(new, p) = KeptValue(CS!ValueIn(w, p))
        BY <3>1 DEF CS!ValueIn
      <3>3. p \in ReadProperties
        BY <1>4, <3>1 DEF ReadProperties
      <3>4. CS!Printed(p, KeptValue(CS!ValueIn(w, p))) = CS!ValueIn(w, p)
        <4>1. CASE p \in DOMAIN w
          BY <1>4, <4>1 DEF CS!ValueIn
        <4>2. CASE p \notin DOMAIN w
          <5>1. p = "comment" /\ CS!ValueIn(w, p) = CS!Unset("comment")
            BY <3>1, <4>2 DEF CS!ValueIn
          <5> QED
            BY <5>1, NoComment
        <4> QED
          BY <4>1, <4>2
      <3> QED
        BY <3>2, <3>3, <3>4 DEF CurrentProperty, new
    <2>2. CASE p \notin names
      BY <1>2, <1>7, <2>2 DEF Changed, w
    <2> QED
      BY <2>1, <2>2
  <1> QED
    BY <1>1, <1>8 DEF PropertiesConverge

-----------------------------------------------------------------------------
(* What a statement does to the table.                                     *)

\* Table u is t but for its rows.
SameSchema(t, u) ==
  /\ IsTable(u) /\ u.exists = t.exists /\ u.columns = t.columns /\ u.indexes = t.indexes
  /\ u.primaryKey = t.primaryKey /\ u.foreignKeys = t.foreignKeys /\ u.properties = t.properties

LEMMA ConvergesOn ==
  ASSUME NEW e, NEW sp, NEW t, NEW u, SameSchema(t, u), NEW q, Converges(e, sp, t, q)
  PROVE  Converges(e, sp, u, q)
  <1>1. ColumnsConverge(e, sp, u, q)
    BY DEF Converges, SameSchema, ColumnsConverge
  <1>2. IndexesConverge(sp, t, q) => IndexesConverge(sp, u, q)
    BY DEF SameSchema, IndexesConverge
  <1>3. PropertiesConverge(sp, t, q) => PropertiesConverge(sp, u, q)
    <2>1. Changed(sp, u) = Changed(sp, t)
      BY DEF SameSchema, Changed, CurrentProperty
    <2> QED
      BY <2>1 DEF PropertiesConverge
  <1> QED
    BY <1>1, <1>2, <1>3 DEF Converges, SameSchema

LEMMA RowsOnly ==
  ASSUME NEW t, IsTable(t), NEW a, NEW b, NEW c, NEW u, u = [t EXCEPT !.filled = a, !.nulls = b, !.seeds = c]
  PROVE  SameSchema(t, u)
  <1>1. /\ DOMAIN u = DOMAIN t /\ u.policies = t.policies
        /\ u.columns = t.columns /\ u.primaryKey = t.primaryKey /\ u.exists = t.exists
        /\ u.foreignKeys = t.foreignKeys /\ u.indexes = t.indexes /\ u.properties = t.properties
        /\ u.checks = t.checks /\ u.exclusions = t.exclusions /\ u.triggers = t.triggers
    BY TableFields
  <1>2. IsTable(u)
    BY <1>1 DEF IsTable
  <1> QED
    BY <1>1, <1>2 DEF SameSchema

LEMMA SeedAdded ==
  ASSUME NEW e, NEW t, IsTable(t), NEW st, st.op = "seed", NEW u, u = After(e, t, st)
  PROVE  SameSchema(t, u)
  <1> DEFINE n == IF Keyed(t) THEN 1 ELSE IF t.seeds < 2 THEN t.seeds + 1 ELSE t.seeds
  <1>1. u = [t EXCEPT !.seeds = n]
    BY Zenon DEF After
  <1> HIDE DEF n
  <1>2. /\ DOMAIN u = DOMAIN t /\ u.policies = t.policies
        /\ u.columns = t.columns /\ u.primaryKey = t.primaryKey /\ u.exists = t.exists
        /\ u.foreignKeys = t.foreignKeys /\ u.indexes = t.indexes /\ u.properties = t.properties
        /\ u.checks = t.checks /\ u.exclusions = t.exclusions /\ u.triggers = t.triggers
    BY <1>1, TableFields
  <1>3. IsTable(u)
    BY <1>2 DEF IsTable
  <1> QED
    BY <1>2, <1>3 DEF SameSchema

\* What is left of a table t, and what is new in it, after a statement.
GainsColumn(e, t, u, c) ==
  /\ IsTable(u) /\ u.exists = t.exists /\ Range(u.columns) = Range(t.columns) \cup {Stored(e, c)}
  /\ u.indexes = t.indexes /\ u.primaryKey = t.primaryKey /\ u.foreignKeys = t.foreignKeys
  /\ u.properties = t.properties

LosesColumn(t, u, n) ==
  /\ IsTable(u) /\ u.exists = t.exists /\ Range(u.columns) = {x \in Range(t.columns) : x.name # n}
  /\ u.properties = t.properties
  /\ n \notin Range(t.primaryKey) /\ ~Uses(t.indexes, n) /\ t.foreignKeys = <<>> =>
       /\ u.primaryKey = t.primaryKey /\ Range(u.indexes) = Range(t.indexes) /\ u.foreignKeys = <<>>

IndexesChanged(t, u, st) ==
  /\ IsTable(u) /\ u.exists = t.exists /\ u.columns = t.columns
  /\ Range(u.indexes) = IF st.op = "addIndex" THEN Range(t.indexes) \cup {st.arg}
                        ELSE {x \in Range(t.indexes) : x.name # st.arg}
  /\ u.primaryKey = t.primaryKey /\ u.foreignKeys = t.foreignKeys /\ u.properties = t.properties

PropertiesAltered(t, u, a) ==
  /\ IsTable(u) /\ u.exists = t.exists /\ u.columns = t.columns
  /\ u.properties =
       <<[p \in DOMAIN t.properties[1] \cup {x.property : x \in a} |->
            IF \E x \in a : x.property = p THEN KeptValue((CHOOSE x \in a : x.property = p).value)
            ELSE t.properties[1][p]]>>

LEMMA AddsColumn ==
  ASSUME NEW e, NEW t, IsTable(t), NEW st, st.op = "addColumn", "name" \in DOMAIN st.arg,
         NEW u, u = After(e, t, st)
  PROVE  GainsColumn(e, t, u, st.arg)
  <1> DEFINE c == st.arg  cols == Append(t.columns, Stored(e, c))
  <1>1. u = AddColumn(e, t, c)
    BY Zenon DEF After
  <1>2. IsSequence(cols) /\ Range(cols) = Range(t.columns) \cup {Stored(e, c)}
    BY Appended DEF IsTable
  <1>3. \A x \in Range(cols) : "name" \in DOMAIN x
    BY <1>2, StoredColumn DEF IsTable
  <1>4. \E filled, nulls : u = [t EXCEPT !.columns = cols, !.filled = filled, !.nulls = nulls]
    <2> HIDE DEF c
    <2> QED
      BY <1>1, Zenon DEF AddColumn
  <1>5. PICK filled, nulls : u = [t EXCEPT !.columns = cols, !.filled = filled, !.nulls = nulls]
    BY <1>4
  <1> HIDE DEF cols
  <1>6. /\ DOMAIN u = DOMAIN t /\ u.columns = cols
        /\ u.exists = t.exists /\ u.primaryKey = t.primaryKey /\ u.policies = t.policies
        /\ u.foreignKeys = t.foreignKeys /\ u.indexes = t.indexes /\ u.checks = t.checks
        /\ u.exclusions = t.exclusions /\ u.triggers = t.triggers /\ u.properties = t.properties
    BY <1>5, TableFields
  <1>7. IsTable(u)
    BY <1>2, <1>3, <1>6 DEF IsTable
  <1> QED
    BY <1>2, <1>6, <1>7 DEF GainsColumn

LEMMA AllKept ==
  ASSUME NEW s, IsSequence(s), NEW f, f = [i \in DOMAIN s |-> f[i]], \A i \in DOMAIN s : f[i] = <<s[i]>>
  PROVE  IsSequence(Flatten(f)) /\ Range(Flatten(f)) = Range(s)
  <1>1. IsSequence(f) /\ DOMAIN f = DOMAIN s
    BY Mapped
  <1>2. \A i \in DOMAIN f : IsSequence(f[i]) /\ Range(f[i]) = {s[i]}
    BY <1>1, Literals
  <1>3. IsSequence(Flatten(f)) /\ Range(Flatten(f)) = UNION {Range(f[i]) : i \in DOMAIN f}
    BY <1>1, <1>2, Flattened
  <1>4. Range(s) = UNION {Range(f[i]) : i \in DOMAIN f}
    BY <1>1, <1>2 DEF Range
  <1> QED
    BY <1>3, <1>4

\* A column is dropped that no index is on, except in cassandra, which has none.
LEMMA DropsColumn ==
  ASSUME NEW e, NEW t, IsTable(t), NEW st, st.op = "dropColumn", NEW u, u = After(e, t, st)
  PROVE  LosesColumn(t, u, st.arg)
  <1> DEFINE n == st.arg  cols == WithoutName(t.columns, n)
             has(o) == n \in Range(o.cols)
             f == [i \in DOMAIN t.foreignKeys |-> IF ~has(t.foreignKeys[i]) THEN <<t.foreignKeys[i]>> ELSE <<>>]
             g == [i \in DOMAIN t.indexes |-> IF ~has(t.indexes[i]) THEN <<t.indexes[i]>> ELSE <<>>]
             fks == Flatten(f)
             idx == Flatten(g)
             key == IF n \in Range(t.primaryKey) THEN <<>> ELSE t.primaryKey
  <1>0. /\ IsSequence(t.columns) /\ (\A x \in Range(t.columns) : "name" \in DOMAIN x)
        /\ IsSequence(t.foreignKeys) /\ IsSequence(t.indexes)
    BY DEF IsTable
  <1>1. u = DropColumn(t, n)
    BY Zenon DEF After
  <1>2. Where(t.foreignKeys, LAMBDA o : n \notin Range(o.cols)) = fks
    BY DEF Where, FlatMap
  <1>3. Where(t.indexes, LAMBDA o : n \notin Range(o.cols)) = idx
    BY DEF Where, FlatMap
  <1>4. IsSequence(fks) /\ (t.foreignKeys = <<>> => fks = <<>>)
    <2>1. f = [i \in DOMAIN t.foreignKeys |-> f[i]] /\ \A i \in DOMAIN t.foreignKeys : f[i] \in {<<>>, <<t.foreignKeys[i]>>}
      OBVIOUS
    <2> HIDE DEF f
    <2>2. IsSequence(fks) /\ Range(fks) \subseteq Range(t.foreignKeys)
      BY <1>0, <2>1, Filtered
    <2> HIDE DEF fks
    <2>3. Range(fks) = {} => fks = <<>>
      BY <2>2, SequenceDomain, HeadTail
    <2> QED
      BY <2>2, <2>3, Literals
  <1>5. IsSequence(idx) /\ (~Uses(t.indexes, n) => Range(idx) = Range(t.indexes))
    <2>1. g = [i \in DOMAIN t.indexes |-> g[i]] /\ \A i \in DOMAIN t.indexes : g[i] \in {<<>>, <<t.indexes[i]>>}
      OBVIOUS
    <2>2. ~Uses(t.indexes, n) => \A i \in DOMAIN t.indexes : g[i] = <<t.indexes[i]>>
      BY DEF Uses, AnySeq
    <2> HIDE DEF g
    <2> QED
      BY <1>0, <2>1, <2>2, Filtered, AllKept
  <1>6. IsSequence(cols) /\ Range(cols) = {x \in Range(t.columns) : x.name # n}
    BY <1>0, Without
  <1>8. u = [t EXCEPT !.columns = cols, !.primaryKey = key, !.foreignKeys = fks, !.indexes = idx,
                      !.filled = t.filled \ {n}, !.nulls = t.nulls \ {n}]
    <2> HIDE DEF n, fks, idx
    <2> QED
      BY <1>0, <1>1, <1>2, <1>3, TableFields, Zenon DEF DropColumn
  <1>9. n \notin Range(t.primaryKey) => key = t.primaryKey
    OBVIOUS
  <1> HIDE DEF cols, fks, idx, key
  <1>10. /\ DOMAIN u = DOMAIN t /\ u.columns = cols /\ u.primaryKey = key /\ u.foreignKeys = fks /\ u.indexes = idx
         /\ u.exists = t.exists /\ u.policies = t.policies /\ u.checks = t.checks
         /\ u.exclusions = t.exclusions /\ u.triggers = t.triggers /\ u.properties = t.properties
    BY <1>8, TableFields
  <1>11. IsTable(u)
    BY <1>0, <1>4, <1>5, <1>6, <1>10 DEF IsTable
  <1> QED
    BY <1>4, <1>5, <1>6, <1>9, <1>10, <1>11 DEF LosesColumn

LEMMA ChangesIndexes ==
  ASSUME NEW e, NEW t, IsTable(t), NEW st, st.op \in {"addIndex", "dropIndex", "dropIndexIfExists"},
         NEW u, u = After(e, t, st)
  PROVE  IndexesChanged(t, u, st)
  <1> DEFINE idx == IF st.op = "addIndex" THEN Append(t.indexes, st.arg) ELSE WithoutName(t.indexes, st.arg)
  <1>1. u = [t EXCEPT !.indexes = idx]
    <2>1. CASE st.op = "addIndex"
      BY <2>1, Zenon DEF After
    <2>2. CASE st.op \in {"dropIndex", "dropIndexIfExists"}
      BY <2>2, Zenon DEF After
    <2> QED
      BY <2>1, <2>2
  <1>2. /\ IsSequence(idx)
        /\ Range(idx) = IF st.op = "addIndex" THEN Range(t.indexes) \cup {st.arg}
                        ELSE {x \in Range(t.indexes) : x.name # st.arg}
    <2>0. IsSequence(t.indexes)
      BY DEF IsTable
    <2>1. CASE st.op = "addIndex"
      BY <2>0, <2>1, Appended
    <2>2. CASE st.op # "addIndex"
      BY <2>0, <2>2, Without
    <2> QED
      BY <2>1, <2>2
  <1> HIDE DEF idx
  <1>3. /\ DOMAIN u = DOMAIN t /\ u.columns = t.columns /\ u.primaryKey = t.primaryKey
        /\ u.foreignKeys = t.foreignKeys /\ u.indexes = idx
        /\ u.exists = t.exists /\ u.policies = t.policies /\ u.checks = t.checks
        /\ u.exclusions = t.exclusions /\ u.triggers = t.triggers /\ u.properties = t.properties
    BY <1>1, TableFields
  <1>4. IsTable(u)
    BY <1>2, <1>3 DEF IsTable
  <1> QED
    BY <1>2, <1>3, <1>4 DEF IndexesChanged

LEMMA AltersProperties ==
  ASSUME NEW e, NEW t, IsTable(t), NEW st, st.op = "alterProperties", NEW u, u = After(e, t, st)
  PROVE  PropertiesAltered(t, u, st.arg)
  <1> DEFINE b == <<[p \in DOMAIN t.properties[1] \cup {x.property : x \in st.arg} |->
                       IF \E x \in st.arg : x.property = p THEN KeptValue((CHOOSE x \in st.arg : x.property = p).value)
                       ELSE t.properties[1][p]]>>
  <1>1. u = [t EXCEPT !.properties = b]
    BY Zenon DEF After
  <1> HIDE DEF b
  <1>2. /\ DOMAIN u = DOMAIN t /\ u.columns = t.columns /\ u.properties = b
        /\ u.foreignKeys = t.foreignKeys /\ u.indexes = t.indexes
        /\ u.exists = t.exists /\ u.policies = t.policies /\ u.checks = t.checks
        /\ u.exclusions = t.exclusions /\ u.triggers = t.triggers
    BY <1>1, TableFields
  <1>3. IsTable(u)
    BY <1>2 DEF IsTable
  <1> QED
    BY <1>2, <1>3 DEF PropertiesAltered, b

LEMMA SqliteDrops ==
  ASSUME NEW e \in SqliteLike, NEW w, NEW st, st.op = "dropColumn", Runs(e, w, st)
  PROVE  st.arg \notin Range(w.table.primaryKey) /\ ~Uses(w.table.indexes, st.arg)
  <1>1. e # "mysql" /\ e # "cassandra"
    BY DEF SqliteLike
  <1> DEFINE a == st.arg  t == w.table
             safe == a \notin Range(t.primaryKey) /\ ~Uses(t.indexes, a) /\ ~Uses(t.foreignKeys, a)
  <1>2. a \in ColumnNames(t) /\ CASE e \in SqliteLike -> safe
                                [] e = "mysql" -> ~Uses(t.foreignKeys, a)
                                [] e = "cassandra" -> a \notin Range(t.primaryKey)
                                [] OTHER -> TRUE
    BY Zenon DEF Runs
  <1> HIDE DEF safe
  <1>3. safe
    BY <1>1, <1>2, Zenon
  <1> QED
    BY <1>3 DEF safe

LEMMA IdleRuns ==
  ASSUME NEW e, NEW w, IsView(w), IsTable(w.table), NEW st, st.op \in IdleOps, NEW u,
         st.op = "commit" => u = w.table, st.op # "commit" => u = Outcome(e, w, st).table
  PROVE  SameSchema(w.table, u)
  <1>1. CASE st.op = "commit"
    BY <1>1 DEF SameSchema
  <1>2. CASE st.op = "seed"
    <2>1. u = After(e, w.table, st)
      BY <1>2, Altered
    <2> QED
      BY <1>2, <2>1, SeedAdded
  <1>3. CASE st.op = "copyRows"
    <2>1. u = CopiedRows(w.table, w.old, st.arg)
      BY <1>3, RowsCopied
    <2> QED
      BY <2>1, RowsOnly DEF CopiedRows
  <1>4. CASE st.op = "dropOldTable"
    <2>1. u = w.table
      BY <1>4, OldDropped
    <2> QED
      BY <2>1 DEF SameSchema
  <1> QED
    BY <1>1, <1>2, <1>3, <1>4 DEF IdleOps

\* A statement that is left does what it is there for, and undoes nothing.
DropIsSafe(t, st) == st.op = "dropColumn" => st.arg \notin Range(t.primaryKey) /\ ~Uses(t.indexes, st.arg)
HasValues(st) == st.op = "alterProperties" => HaveValues(st.arg)

LEMMA SqliteStep ==
  ASSUME NEW e \in SqliteLike, NEW sp, IsSpec(sp), Settles(e, sp), NEW t, NEW q, q # <<>>,
         Converges(e, sp, t, q), q[1].op \notin IdleOps, DropIsSafe(t, q[1]), NEW u, u = After(e, t, q[1])
  PROVE  Converges(e, sp, u, Tail(q))
  <1> DEFINE st == q[1]  r == Tail(q)
  <1>0. e \in ConvergingEngines /\ e # "cassandra"
    BY DEF ConvergingEngines, SqliteLike
  <1>1. /\ IsSequence(q) /\ IsTable(t) /\ t.exists /\ ColumnsConverge(e, sp, t, q)
        /\ \A x \in Range(q) : IsStatement(x) /\ x.op \in SqliteOps
        /\ SameColumns(t.primaryKey, sp.primaryKey) /\ t.foreignKeys = <<>> /\ IndexesConverge(sp, t, q)
    BY DEF Converges
  <1>2. IsSequence(r) /\ Range(q) = {st} \cup Range(r) /\ st \in Range(q)
    BY <1>1, HeadTail
  <1>3. \A x \in Range(r) : IsStatement(x) /\ x.op \in SqliteOps
    BY <1>1, <1>2
  <1>4. st.op \in {"addColumn", "dropColumn", "addIndex", "dropIndex", "dropIndexIfExists"} /\ IsStatement(st)
    BY <1>1, <1>2 DEF SqliteOps
  <1>5. SUFFICES /\ IsTable(u) /\ u.exists = t.exists /\ ColumnsConverge(e, sp, u, r)
                 /\ u.primaryKey = t.primaryKey /\ u.foreignKeys = <<>> /\ IndexesConverge(sp, u, r)
    BY <1>0, <1>1, <1>2, <1>3 DEF Converges
  <1>6. IsTable(t) /\ t.foreignKeys = <<>>
    BY <1>1
  <1>7. CASE st.op = "addColumn"
    <2>1. PICK c \in Range(sp.columns) : st.arg = Wanted(e, c)
      BY <1>1, <1>2, <1>7 DEF ColumnsConverge
    <2>2. IsColumn(c)
      BY DEF Settles
    <2>3. "name" \in DOMAIN st.arg
      BY <2>1, <2>2, WantedColumn, ColumnFields
    <2>4. GainsColumn(e, t, u, st.arg)
      BY <1>6, <1>7, <2>3, AddsColumn
    <2>5. /\ IsTable(u) /\ u.exists = t.exists /\ Range(u.columns) = Range(t.columns) \cup {Stored(e, st.arg)}
          /\ u.indexes = t.indexes /\ u.primaryKey = t.primaryKey /\ u.foreignKeys = t.foreignKeys
      BY ONLY <2>4 DEF GainsColumn
    <2>6. ColumnsConverge(e, sp, u, r)
      BY <1>0, <1>1, <1>7, <2>5, ColumnLeftAdded
    <2>7. IndexesConverge(sp, u, r)
      BY <1>1, <1>7, <2>5, IndexesLeft DEF DropsIndex
    <2> QED
      BY <1>6, <2>5, <2>6, <2>7
  <1>8. CASE st.op = "dropColumn"
    <2>1. st.arg \notin Range(t.primaryKey) /\ ~Uses(t.indexes, st.arg)
      BY <1>8 DEF DropIsSafe
    <2>2. LosesColumn(t, u, st.arg)
      BY <1>6, <1>8, DropsColumn
    <2>3. /\ IsTable(u) /\ u.exists = t.exists /\ Range(u.columns) = {x \in Range(t.columns) : x.name # st.arg}
          /\ u.primaryKey = t.primaryKey /\ Range(u.indexes) = Range(t.indexes) /\ u.foreignKeys = <<>>
      BY ONLY <1>6, <2>1, <2>2 DEF LosesColumn
    <2>4. ColumnsConverge(e, sp, u, r)
      BY <1>1, <1>8, <2>3, ColumnLeftDropped
    <2>5. IndexesConverge(sp, u, r)
      BY <1>1, <1>8, <2>3, IndexesLeft DEF DropsIndex
    <2> QED
      BY <2>3, <2>4, <2>5
  <1>9. CASE st.op \in {"addIndex", "dropIndex", "dropIndexIfExists"}
    <2>1. IndexesChanged(t, u, st)
      BY <1>6, <1>9, ChangesIndexes
    <2>2. /\ IsTable(u) /\ u.exists = t.exists /\ u.columns = t.columns
          /\ u.primaryKey = t.primaryKey /\ u.foreignKeys = t.foreignKeys
          /\ st.op = "addIndex" => Range(u.indexes) = Range(t.indexes) \cup {st.arg}
          /\ st.op # "addIndex" => Range(u.indexes) = {x \in Range(t.indexes) : x.name # st.arg}
      BY ONLY <2>1 DEF IndexesChanged
    <2>3. ColumnsConverge(e, sp, u, r)
      BY <1>1, <1>9, <2>2, ColumnsLeft
    <2>4. IndexesConverge(sp, u, r)
      <3>1. CASE st.op = "addIndex"
        BY <1>1, <2>2, <3>1, IndexLeftAdded
      <3>2. CASE st.op # "addIndex"
        <4>1. DropsIndex(st)
          BY <1>9, <3>2 DEF DropsIndex
        <4> QED
          BY <1>1, <1>4, <2>2, <3>2, <4>1, IndexLeftDropped
      <3> QED
        BY <3>1, <3>2
    <2> QED
      BY <1>6, <2>2, <2>3, <2>4
  <1> QED
    BY <1>4, <1>7, <1>8, <1>9

LEMMA CassandraStep ==
  ASSUME NEW e, e = "cassandra", NEW sp, IsSpec(sp), Settles(e, sp), NEW t, NEW q, q # <<>>,
         Converges(e, sp, t, q), q[1].op # "alterType", HasValues(q[1]), NEW u, u = After(e, t, q[1])
  PROVE  Converges(e, sp, u, Tail(q))
  <1> DEFINE st == q[1]  r == Tail(q)
  <1>0. e \in ConvergingEngines /\ e \notin SqliteLike /\ SettlesInCassandra(sp)
    BY DEF ConvergingEngines, SqliteLike, Settles
  <1>1. /\ IsSequence(q) /\ IsTable(t) /\ t.exists /\ ColumnsConverge(e, sp, t, q)
        /\ \A x \in Range(q) : IsStatement(x) /\ x.op \in CassandraOps
        /\ PropertiesConverge(sp, t, q)
    BY DEF Converges
  <1>2. IsSequence(r) /\ Range(q) = {st} \cup Range(r) /\ st \in Range(q)
    BY <1>1, HeadTail
  <1>3. \A x \in Range(r) : IsStatement(x) /\ x.op \in CassandraOps
    BY <1>1, <1>2
  <1>4. st.op \in {"addColumn", "dropColumn", "alterProperties"}
    BY <1>1, <1>2 DEF CassandraOps
  <1>5. SUFFICES IsTable(u) /\ u.exists = t.exists /\ ColumnsConverge(e, sp, u, r) /\ PropertiesConverge(sp, u, r)
    BY <1>0, <1>1, <1>2, <1>3 DEF Converges
  <1>6. IsTable(t)
    BY <1>1
  <1>7. CASE st.op = "addColumn"
    <2>1. PICK c \in Range(sp.columns) : st.arg = Wanted(e, c)
      BY <1>1, <1>2, <1>7 DEF ColumnsConverge
    <2>2. IsColumn(c)
      BY DEF Settles
    <2>3. "name" \in DOMAIN st.arg
      BY <2>1, <2>2, WantedColumn, ColumnFields
    <2>4. GainsColumn(e, t, u, st.arg)
      BY <1>6, <1>7, <2>3, AddsColumn
    <2>5. /\ IsTable(u) /\ u.exists = t.exists /\ Range(u.columns) = Range(t.columns) \cup {Stored(e, st.arg)}
          /\ u.properties = t.properties
      BY ONLY <2>4 DEF GainsColumn
    <2>6. ColumnsConverge(e, sp, u, r)
      BY <1>0, <1>1, <1>7, <2>5, ColumnLeftAdded
    <2> QED
      BY <1>1, <1>7, <2>5, <2>6, PropertiesLeft
  <1>8. CASE st.op = "dropColumn"
    <2>1. LosesColumn(t, u, st.arg)
      BY <1>6, <1>8, DropsColumn
    <2>2. /\ IsTable(u) /\ u.exists = t.exists /\ Range(u.columns) = {x \in Range(t.columns) : x.name # st.arg}
          /\ u.properties = t.properties
      BY ONLY <2>1 DEF LosesColumn
    <2>3. ColumnsConverge(e, sp, u, r)
      BY <1>1, <1>8, <2>2, ColumnLeftDropped
    <2> QED
      BY <1>1, <1>8, <2>2, <2>3, PropertiesLeft
  <1>9. CASE st.op = "alterProperties"
    <2> DEFINE a == st.arg
    <2>1. PropertiesAltered(t, u, a)
      BY <1>6, <1>9, AltersProperties
    <2>2. HaveValues(a)
      BY <1>9 DEF HasValues
    <2>3. PropertiesConverge(sp, u, r)
      <3>1. u.properties =
               <<[p \in DOMAIN t.properties[1] \cup {x.property : x \in a} |->
                    IF \E x \in a : x.property = p THEN KeptValue((CHOOSE x \in a : x.property = p).value)
                    ELSE t.properties[1][p]]>>
        BY ONLY <2>1, Zenon DEF PropertiesAltered
      <3> QED
        BY <1>0, <1>1, <1>9, <2>2, <3>1, PropertiesLeftAltered
    <2>4. IsTable(u) /\ u.exists = t.exists /\ u.columns = t.columns
      BY ONLY <2>1, Zenon DEF PropertiesAltered
    <2>5. ColumnsConverge(e, sp, u, r)
      BY <1>1, <1>9, <2>4, ColumnsLeft
    <2> QED
      BY <2>3, <2>4, <2>5
  <1> QED
    BY <1>4, <1>7, <1>8, <1>9

LEMMA ConvergesStep ==
  ASSUME NEW e \in ConvergingEngines, NEW sp, IsSpec(sp), Settles(e, sp), NEW w, IsView(w),
         NEW q, q # <<>>, Converges(e, sp, w.table, q), Runs(e, w, q[1]), NEW u,
         q[1].op = "commit" => u = w.table, q[1].op # "commit" => u = Outcome(e, w, q[1]).table
  PROVE  Converges(e, sp, u, Tail(q))
  <1> DEFINE t == w.table  st == q[1]  r == Tail(q)
  <1>1. /\ IsSequence(q) /\ IsTable(t) /\ t.exists /\ ColumnsConverge(e, sp, t, q)
        /\ \A x \in Range(q) : IsStatement(x)
    BY DEF Converges
  <1>2. IsSequence(r) /\ Range(q) = {st} \cup Range(r) /\ st \in Range(q)
    BY <1>1, HeadTail
  <1>3. CASE e \in SqliteLike /\ st.op \in IdleOps
    <2>1. SameSchema(t, u)
      BY <1>1, <1>3, IdleRuns
    <2>2. Converges(e, sp, u, q)
      BY <2>1, ConvergesOn
    <2>3. st.op \notin {"addColumn", "dropColumn", "alterType", "addIndex"} /\ ~DropsIndex(st) /\ e # "cassandra"
      BY <1>3 DEF IdleOps, DropsIndex, SqliteLike
    <2>4. /\ IsTable(u) /\ u.exists /\ ColumnsConverge(e, sp, u, q) /\ IndexesConverge(sp, u, q)
          /\ \A x \in Range(q) : IsStatement(x) /\ x.op \in SqliteOps
          /\ SameColumns(u.primaryKey, sp.primaryKey) /\ u.foreignKeys = <<>>
      BY <1>3, <2>2 DEF Converges
    <2>5. ColumnsConverge(e, sp, u, r) /\ IndexesConverge(sp, u, r)
      BY <1>1, <2>3, <2>4, ColumnsLeft, IndexesLeft
    <2>6. \A x \in Range(r) : IsStatement(x) /\ x.op \in SqliteOps
      BY <1>2, <2>4
    <2> QED
      BY <1>2, <2>3, <2>4, <2>5, <2>6 DEF Converges
  <1>4. CASE e \in SqliteLike /\ st.op \notin IdleOps
    <2>1. st.op \in {"addColumn", "dropColumn", "addIndex", "dropIndex", "dropIndexIfExists"}
      BY <1>2, <1>4 DEF Converges, SqliteOps
    <2>2. u = After(e, t, st)
      BY <2>1, Altered
    <2>3. DropIsSafe(t, st)
      BY <1>4, SqliteDrops DEF DropIsSafe
    <2> QED
      BY <1>4, <2>2, <2>3, SqliteStep
  <1>5. CASE e = "cassandra"
    <2>1. st.op # "alterType"
      BY Zenon DEF Runs
    <2>2. st.op \in {"addColumn", "dropColumn", "alterProperties"}
      BY <1>2, <1>5, <2>1 DEF CassandraOps, Converges
    <2>3. u = After(e, t, st)
      BY <2>2, Altered
    <2>4. HasValues(st)
      BY Zenon DEF Runs, HasValues, HaveValues
    <2> QED
      BY <1>5, <2>1, <2>3, <2>4, CassandraStep
  <1> QED
    BY <1>3, <1>4, <1>5 DEF ConvergingEngines

-----------------------------------------------------------------------------
(* A new table.                                                            *)

\* What is stored of table a when it is created.
MadeFrom(e, a, u) ==
  /\ IsTable(u) /\ u.exists = a.exists /\ u.primaryKey = a.primaryKey /\ u.foreignKeys = a.foreignKeys
  /\ u.indexes = a.indexes /\ NamesOf(u.columns) = NamesOf(a.columns)
  /\ \A x \in Range(u.columns) : \E c \in Range(a.columns) :
       /\ x.name = c.name /\ CS!ExistingColumn(x).type = Stored(e, c).type /\ x.type = Stored(e, c).type
       /\ e \in SqliteLike => x = Stored(e, c)
  /\ e = "cassandra" /\ a.properties # NoValue =>
       u.properties[1] =
         [p \in DOMAIN ServerProperties \cup DOMAIN a.properties[1] |->
            KeptValue(IF p \in DOMAIN a.properties[1] THEN a.properties[1][p]
                   ELSE ServerProperties[p])]

LEMMA TableStored ==
  ASSUME NEW e, NEW a, IsTable(a), \A c \in Range(a.columns) : IsColumn(c)
  PROVE  MadeFrom(e, a, StoredTable(e, a))
  <1> DEFINE u == StoredTable(e, a)  cols == a.columns
             f == [i \in DOMAIN cols |-> Stored(e, cols[i])]
             given == IF a.properties = NoValue THEN ServerProperties ELSE a.properties[1]
             properties == IF e # "cassandra" THEN NoValue
                           ELSE <<[p \in DOMAIN ServerProperties \cup DOMAIN given |->
                                     KeptValue(IF p \in DOMAIN given THEN given[p] ELSE ServerProperties[p])]>>
             b == [a EXCEPT !.columns = f, !.properties = properties]
             key == a.primaryKey
             g == [i \in DOMAIN f |-> IF f[i].name \in Range(key) /\ e \notin SqliteLike
                                      THEN [f[i] EXCEPT !.notNull = "true"] ELSE f[i]]
  <1>1. u = WithKey(e, b, key)
    BY Zenon DEF StoredTable
  <1>2. IsSequence(cols) /\ \A i \in DOMAIN cols : IsColumn(cols[i]) /\ cols[i] \in Range(cols)
    BY SequenceDomain DEF IsTable
  <1>3. \A i \in DOMAIN cols :
          /\ DOMAIN f[i] = {"name", "type", "isArray", "notNull", "default", "charset", "collation", "autoIncrement", "isStatic"}
          /\ f[i].name = cols[i].name /\ f[i] = Stored(e, cols[i])
    BY <1>2, StoredTypes, ColumnFields
  <1>4. f = [i \in DOMAIN cols |-> f[i]] /\ DOMAIN f = DOMAIN cols
    OBVIOUS
  <1> HIDE DEF f
  <1>5. IsSequence(f) /\ (\A c \in Range(f) : "name" \in DOMAIN c) /\ NamesOf(f) = NamesOf(cols)
    <2>1. \A i \in DOMAIN cols : "name" \in DOMAIN f[i] /\ f[i].name = cols[i].name
      BY <1>3
    <2>2. f = [i \in DOMAIN cols |-> f[i]] /\ IsSequence(cols)
      BY <1>2, <1>4
    <2> HIDE DEF cols
    <2> QED
      BY <2>1, <2>2, ColumnsMapped
  <1>6. /\ DOMAIN b = DOMAIN a /\ b.columns = f /\ b.properties = properties /\ b.exists = a.exists
        /\ b.policies = a.policies /\ b.foreignKeys = a.foreignKeys /\ b.indexes = a.indexes /\ b.checks = a.checks
        /\ b.exclusions = a.exclusions /\ b.triggers = a.triggers
    <2> HIDE DEF properties
    <2> QED
      BY TableFields
  <1> HIDE DEF b
  <1>7. IsTable(b)
    BY <1>5, <1>6 DEF IsTable
  <1>8. WithKey(e, b, key) = [b EXCEPT !.primaryKey = key, !.columns = g]
    <2>1. WithKey(e, b, key) =
            [b EXCEPT !.primaryKey = key,
                      !.columns = [i \in DOMAIN b.columns |->
                                     IF b.columns[i].name \in Range(key) /\ e \notin SqliteLike
                                     THEN [b.columns[i] EXCEPT !.notNull = "true"] ELSE b.columns[i]]]
      <3>1. "primaryKey" # "columns"
        OBVIOUS
      <3> QED
        BY <1>7, <3>1, TableFields DEF WithKey
    <2> QED
      BY <1>6, <2>1, Zenon
  <1> HIDE DEF u
  <1>9. /\ DOMAIN u = DOMAIN b /\ u.primaryKey = key
        /\ IsSequence(u.columns) /\ (\A c \in Range(u.columns) : "name" \in DOMAIN c)
        /\ NamesOf(u.columns) = NamesOf(b.columns)
        /\ u.exists = b.exists
        /\ u.policies = b.policies /\ u.foreignKeys = b.foreignKeys /\ u.indexes = b.indexes
        /\ u.checks = b.checks /\ u.exclusions = b.exclusions /\ u.triggers = b.triggers
    BY <1>1, <1>7, KeyedColumns
  <1>10. IsTable(u)
    BY <1>7, <1>9 DEF IsTable
  <1>11. u.columns = g /\ u.properties = properties
    <2> HIDE DEF g, properties
    <2> QED
      BY <1>1, <1>6, <1>7, <1>8, TableFields
  <1>12. \A x \in Range(u.columns) : \E c \in Range(a.columns) :
           /\ x.name = c.name /\ CS!ExistingColumn(x).type = Stored(e, c).type /\ x.type = Stored(e, c).type
           /\ e \in SqliteLike => x = Stored(e, c)
    <2> SUFFICES ASSUME NEW i \in DOMAIN cols
                 PROVE  /\ g[i].name = cols[i].name /\ CS!ExistingColumn(g[i]).type = Stored(e, cols[i]).type
                        /\ g[i].type = Stored(e, cols[i]).type
                        /\ e \in SqliteLike => g[i] = Stored(e, cols[i])
      <3>1. ASSUME NEW x \in Range(u.columns)
            PROVE  \E c \in Range(a.columns) :
                     /\ x.name = c.name /\ CS!ExistingColumn(x).type = Stored(e, c).type /\ x.type = Stored(e, c).type
                     /\ e \in SqliteLike => x = Stored(e, c)
        <4>1. PICK i \in DOMAIN cols : x = g[i]
          <5>1. DOMAIN g = DOMAIN cols
            BY <1>4
          <5> HIDE DEF g
          <5> QED
            BY <1>11, <5>1 DEF Range
        <4>2. cols[i] \in Range(a.columns)
          BY <1>2
        <4> HIDE DEF g
        <4> QED
          BY <4>1, <4>2
      <3> QED
        BY <3>1
    <2>1. g[i] = IF f[i].name \in Range(key) /\ e \notin SqliteLike
                 THEN [f[i] EXCEPT !.notNull = "true"] ELSE f[i]
      BY <1>4
    <2> HIDE DEF g
    <2>2. g[i].type = f[i].type /\ "type" \in DOMAIN g[i]
      BY <1>3, <2>1
    <2> QED
      BY <1>3, <2>1, <2>2, ExistingType
  <1>13. ASSUME e = "cassandra", a.properties # NoValue
         PROVE  u.properties[1] =
                  [p \in DOMAIN ServerProperties \cup DOMAIN a.properties[1] |->
                     KeptValue(IF p \in DOMAIN a.properties[1] THEN a.properties[1][p]
                            ELSE ServerProperties[p])]
    <2> DEFINE w == a.properties[1]
    <2>1. given = w
      BY <1>13
    <2>2. properties = <<[p \in DOMAIN ServerProperties \cup DOMAIN w |->
                            KeptValue(IF p \in DOMAIN w THEN w[p] ELSE ServerProperties[p])]>>
      BY <1>13, <2>1, Zenon
    <2>3. \A x : <<x>>[1] = x
      OBVIOUS
    <2>4. u.properties[1] = [p \in DOMAIN ServerProperties \cup DOMAIN w |->
                               KeptValue(IF p \in DOMAIN w THEN w[p] ELSE ServerProperties[p])]
      <3> HIDE DEF w, given, properties
      <3> QED
        BY <1>11, <2>2, <2>3, Zenon
    <2> QED
      BY <2>4 DEF w
  <1> HIDE DEF g, properties, given
  <1>14. MadeFrom(e, a, u)
    BY <1>5, <1>6, <1>9, <1>10, <1>12, <1>13 DEF MadeFrom
  <1> QED
    BY <1>14 DEF u

\* A table as it is created for a spec.
Fresh(e, sp, a) ==
  /\ IsTable(a) /\ a.exists /\ a.primaryKey = sp.primaryKey /\ a.foreignKeys = <<>> /\ a.indexes = <<>>
  /\ Range(a.columns) = {Wanted(e, c) : c \in Range(sp.columns)}
  /\ e = "cassandra" => a.properties = sp.properties

\* A server's own properties: the chances, the maps and an empty comment.
LEMMA HasComment ==
  /\ DOMAIN ServerProperties = CS!Chances \cup CS!Maps \cup {"comment"}
  /\ ServerProperties["comment"] = ""
  BY DEF ServerProperties, CS!Chances, CS!Maps

LEMMA FreshProperties ==
  ASSUME NEW sp, SettlesInCassandra(sp), sp.properties # NoValue, NEW u,
         u.properties[1] =
           [p \in DOMAIN ServerProperties \cup DOMAIN sp.properties[1] |->
              KeptValue(IF p \in DOMAIN sp.properties[1] THEN sp.properties[1][p]
                     ELSE ServerProperties[p])]
  PROVE  Changed(sp, u) = {}
  <1> DEFINE w == sp.properties[1]
             new == u.properties[1]
  <1>1. /\ CS!Chances \cup CS!Maps \subseteq DOMAIN w /\ DOMAIN w \subseteq ReadProperties
        /\ \A p \in DOMAIN w : CS!Printed(p, KeptValue(w[p])) = w[p]
    BY DEF SettlesInCassandra, ReadProperties
  <1>2. new = [p \in DOMAIN ServerProperties \cup DOMAIN w |->
                 KeptValue(IF p \in DOMAIN w THEN w[p] ELSE ServerProperties[p])]
    OBVIOUS
  <1> HIDE DEF w, new
  <1> SUFFICES ASSUME NEW p \in PropertyNames PROVE CurrentProperty(u, p) = CS!ValueIn(w, p)
    BY DEF Changed, w
  <1>3. CurrentProperty(u, p) = IF p \in ReadProperties THEN CS!Printed(p, CS!ValueIn(new, p)) ELSE CS!Unset(p)
    BY DEF CurrentProperty, new
  <1>4. CASE p \in DOMAIN w
    <2>1. new[p] = KeptValue(w[p]) /\ p \in DOMAIN new
      BY <1>2, <1>4
    <2>2. CS!ValueIn(new, p) = KeptValue(w[p]) /\ CS!ValueIn(w, p) = w[p]
      BY <1>4, <2>1 DEF CS!ValueIn
    <2> QED
      BY <1>1, <1>3, <1>4, <2>2
  <1>5. CASE p \notin DOMAIN w
    <2>1. CS!ValueIn(w, p) = CS!Unset(p)
      BY <1>5 DEF CS!ValueIn
    <2>2. CS!ValueIn(new, p) = CS!Unset(p)
      <3>1. CASE p = "comment"
        <4>1. new[p] = KeptValue("") /\ p \in DOMAIN new
          BY <1>2, <1>5, <3>1, HasComment
        <4> QED
          BY <3>1, <4>1, NoComment DEF CS!ValueIn
      <3>2. CASE p # "comment"
        <4>1. p \notin DOMAIN new
          BY <1>1, <1>2, <1>5, <3>2, HasComment
        <4> QED
          BY <4>1 DEF CS!ValueIn
      <3> QED
        BY <3>1, <3>2
    <2>3. CS!Printed(p, CS!Unset(p)) = CS!Unset(p)
      BY DEF CS!Printed, CS!Unset
    <2> QED
      BY <1>3, <2>1, <2>2, <2>3
  <1> QED
    BY <1>4, <1>5

\* The statements that add the indexes of a new table, and others that leave its
\* schema alone.
Idle(q) == IsSequence(q) /\ \A st \in Range(q) : IsStatement(st) /\ st.op \in IdleOps

AddsIndexes(sp, q) ==
  /\ IsSequence(q)
  /\ \A st \in Range(q) :
       /\ IsStatement(st) /\ st.op \in IdleOps \cup {"addIndex"}
       /\ st.op = "addIndex" => \E d \in Range(sp.indexes) : st.arg = NamedIndex(d)
  /\ \A d \in Range(sp.indexes) : [op |-> "addIndex", arg |-> NamedIndex(d)] \in Range(q)

LEMMA AddsIndexesThen ==
  ASSUME NEW sp, NEW q, AddsIndexes(sp, q), NEW r, Idle(r)
  PROVE  AddsIndexes(sp, q \o r)
  <1>1. IsSequence(q \o r) /\ Range(q \o r) = Range(q) \cup Range(r)
    BY Concatenated DEF AddsIndexes, Idle
  <1>2. \A st \in Range(r) : st.op # "addIndex"
    BY DEF Idle, IdleOps
  <1> QED
    BY <1>1, <1>2 DEF AddsIndexes, Idle

LEMMA IdleThen ==
  ASSUME NEW q, Idle(q), NEW r, Idle(r)
  PROVE  Idle(q \o r)
  BY Concatenated DEF Idle

LEMMA FreshConverges ==
  ASSUME NEW e \in ConvergingEngines, NEW sp, IsSpec(sp), Settles(e, sp), NEW a, Fresh(e, sp, a),
         NEW r, e \in SqliteLike => AddsIndexes(sp, r), e = "cassandra" => r = <<>>
  PROVE  Converges(e, sp, StoredTable(e, a), r)
  <1> DEFINE u == StoredTable(e, a)
  <1>1. \A c \in Range(sp.columns) : IsColumn(c) /\ IsColumn(Wanted(e, c)) /\ Wanted(e, c).name = c.name
    BY WantedColumn DEF Settles
  <1>2. /\ IsTable(a) /\ a.exists /\ a.primaryKey = sp.primaryKey /\ a.foreignKeys = <<>> /\ a.indexes = <<>>
        /\ \A x \in Range(a.columns) : \E c \in Range(sp.columns) : x = Wanted(e, c)
        /\ \A c \in Range(sp.columns) : Wanted(e, c) \in Range(a.columns)
        /\ e = "cassandra" => a.properties = sp.properties
    BY DEF Fresh
  <1>3. \A x \in Range(a.columns) : IsColumn(x)
    BY <1>1, <1>2
  <1>4. MadeFrom(e, a, u)
    BY <1>2, <1>3, TableStored
  <1> SUFFICES Converges(e, sp, u, r)
    OBVIOUS
  <1> HIDE DEF u
  <1>5. /\ IsTable(u) /\ u.exists = a.exists /\ u.primaryKey = a.primaryKey /\ u.foreignKeys = a.foreignKeys
        /\ u.indexes = a.indexes /\ NamesOf(u.columns) = NamesOf(a.columns)
        /\ \A x \in Range(u.columns) : \E c \in Range(a.columns) :
             /\ x.name = c.name /\ CS!ExistingColumn(x).type = Stored(e, c).type
             /\ e \in SqliteLike => x = Stored(e, c)
    BY <1>4 DEF MadeFrom
  <1>6. ASSUME NEW x \in Range(u.columns) PROVE HasName(sp.columns, x.name) /\ ColumnFits(e, sp, x)
    <2>1. PICK y \in Range(a.columns) :
            /\ x.name = y.name /\ CS!ExistingColumn(x).type = Stored(e, y).type
            /\ e \in SqliteLike => x = Stored(e, y)
      BY <1>5
    <2>2. PICK c \in Range(sp.columns) : y = Wanted(e, c)
      BY <1>2
    <2>3. x.name = c.name /\ (e = "cassandra" => y = c)
      BY <1>1, <2>1, <2>2 DEF Wanted
    <2>4. e = "cassandra" => CS!ExistingColumn(x).type = Stored(e, c).type
      BY <2>1, <2>3
    <2>5. e \in SqliteLike => x = Stored(e, Wanted(e, c))
      BY <2>1, <2>2
    <2> QED
      BY <2>3, <2>4, <2>5, StoredFits
  <1>7. ASSUME NEW c \in Range(sp.columns) PROVE HasName(u.columns, c.name)
    <2>1. HasName(a.columns, c.name)
      BY <1>1, <1>2, HasNameIs
    <2> QED
      BY <1>5, <2>1 DEF HasName
  <1>8. CASE e \in SqliteLike
    <2>0. e # "cassandra"
      BY <1>8 DEF SqliteLike
    <2>1. /\ IsSequence(r) /\ \A st \in Range(r) : IsStatement(st) /\ st.op \in IdleOps \cup {"addIndex"}
          /\ \A st \in Range(r) : st.op = "addIndex" => \E d \in Range(sp.indexes) : st.arg = NamedIndex(d)
          /\ \A d \in Range(sp.indexes) : [op |-> "addIndex", arg |-> NamedIndex(d)] \in Range(r)
      BY <1>8 DEF AddsIndexes
    <2>2. \A st \in Range(r) : st.op \in SqliteOps /\ st.op \notin {"addColumn", "dropColumn", "dropIndex", "dropIndexIfExists"}
      BY <2>1 DEF SqliteOps, IdleOps
    <2>3. ColumnsConverge(e, sp, u, r)
      BY <1>6, <1>7, <2>2 DEF ColumnsConverge
    <2>4. Followed(r, IndexSwaps(sp))
      <3>1. ASSUME NEW p \in IndexSwaps(sp) PROVE p[1].op \in {"dropIndex", "dropIndexIfExists"}
        BY DEF IndexSwaps
      <3>2. \A p \in IndexSwaps(sp) : p[1] \notin Range(r)
        BY <2>2, <3>1
      <3> QED
        BY <3>2, FollowedNone
    <2>5. Range(u.indexes) = {}
      BY <1>2, <1>5, Literals
    <2>6. IndexesConverge(sp, u, r)
      BY <2>1, <2>4, <2>5 DEF IndexesConverge
    <2>7. SameColumns(u.primaryKey, sp.primaryKey)
      BY <1>2, <1>5 DEF SameColumns
    <2> QED
      BY <1>2, <1>5, <2>0, <2>1, <2>2, <2>3, <2>6, <2>7 DEF Converges
  <1>9. CASE e = "cassandra"
    <2>0. e \notin SqliteLike
      BY <1>9 DEF SqliteLike
    <2>1. IsSequence(r) /\ Range(r) = {}
      BY <1>9, Literals
    <2>2. ColumnsConverge(e, sp, u, r)
      BY <1>6, <1>7, <2>1 DEF ColumnsConverge
    <2>3. sp.properties # NoValue => Changed(sp, u) = {}
      <3>1. SettlesInCassandra(sp) /\ a.properties = sp.properties
        BY <1>2, <1>9 DEF Settles
      <3> SUFFICES ASSUME sp.properties # NoValue PROVE Changed(sp, u) = {}
        OBVIOUS
      <3>2. u.properties[1] =
              [p \in DOMAIN ServerProperties \cup DOMAIN a.properties[1] |->
                 KeptValue(IF p \in DOMAIN a.properties[1] THEN a.properties[1][p]
                        ELSE ServerProperties[p])]
        BY <1>4, <1>9, <3>1, Zenon DEF MadeFrom
      <3> QED
        BY <3>1, <3>2, FreshProperties
    <2>4. PropertiesConverge(sp, u, r)
      BY <2>1, <2>3 DEF PropertiesConverge
    <2> QED
      BY <1>2, <1>5, <1>9, <2>0, <2>1, <2>2, <2>4 DEF Converges
  <1> QED
    BY <1>8, <1>9 DEF ConvergingEngines

LEMMA StoredIsColumn ==
  ASSUME NEW e \in SqliteLike, NEW c, IsColumn(c)
  PROVE  IsColumn(Stored(e, c))
  <1> DEFINE serial == e \in PostgresLike /\ c.type = <<"serial", "">>
             type == CASE serial -> <<"integer", "">>
                       [] e = "cassandra" /\ c.type = <<"varchar", "">> -> <<"text", "">>
                       [] OTHER -> c.type
             default == IF serial THEN <<Expr("nextval")>> ELSE c.default
             notNull == IF serial \/ c.notNull = "true" THEN "true" ELSE "false"
  <1>1. Stored(e, c) = [c EXCEPT !.type = type, !.default = default, !.notNull = notNull]
    BY Zenon DEF Stored
  <1>2. default = c.default
    BY DEF SqliteLike, PostgresLike
  <1> HIDE DEF type, default, notNull
  <1>3. Stored(e, c).default = c.default /\ DOMAIN Stored(e, c) = DOMAIN c
    BY <1>1, <1>2, ColumnFields
  <1> QED
    BY <1>3 DEF IsColumn

LEMMA StoredInCassandra ==
  ASSUME NEW c, IsColumn(c)
  PROVE  Stored("cassandra", c).type # <<"varchar", "">>
  <1> DEFINE e == "cassandra"
             type == CASE e \in PostgresLike /\ c.type = <<"serial", "">> -> <<"integer", "">>
                       [] e = "cassandra" /\ c.type = <<"varchar", "">> -> <<"text", "">>
                       [] OTHER -> c.type
  <1>1. \E a, b : Stored(e, c) = [c EXCEPT !.type = type, !.default = a, !.notNull = b]
    BY Zenon DEF Stored
  <1>2. e \notin PostgresLike
    BY DEF PostgresLike
  <1>3. type = IF c.type = <<"varchar", "">> THEN <<"text", "">> ELSE c.type
    BY <1>2, Zenon
  <1>4. <<"text", "">> # <<"varchar", "">>
    OBVIOUS
  <1> HIDE DEF type
  <1>5. Stored(e, c).type = type
    BY <1>1, ColumnFields
  <1> QED
    BY <1>3, <1>4, <1>5

\* A new table reads back as it is.
LEMMA FreshDescribed ==
  ASSUME NEW e \in ConvergingEngines, NEW sp, IsSpec(sp), Settles(e, sp), NEW a, Fresh(e, sp, a)
  PROVE  Described(e, StoredTable(e, a))
  <1> DEFINE u == StoredTable(e, a)
  <1>1. \A c \in Range(sp.columns) : IsColumn(c) /\ IsColumn(Wanted(e, c)) /\ Wanted(e, c).name = c.name
    BY WantedColumn DEF Settles
  <1>2. /\ IsTable(a) /\ a.foreignKeys = <<>> /\ a.indexes = <<>>
        /\ \A x \in Range(a.columns) : \E c \in Range(sp.columns) : x = Wanted(e, c)
    BY DEF Fresh
  <1>3. \A x \in Range(a.columns) : IsColumn(x)
    BY <1>1, <1>2
  <1>4. MadeFrom(e, a, u)
    BY <1>2, <1>3, TableStored
  <1> SUFFICES Described(e, u)
    OBVIOUS
  <1> HIDE DEF u
  <1>5. /\ IsTable(u) /\ u.foreignKeys = a.foreignKeys /\ u.indexes = a.indexes
        /\ \A x \in Range(u.columns) : \E c \in Range(a.columns) :
             /\ x.name = c.name /\ CS!ExistingColumn(x).type = Stored(e, c).type /\ x.type = Stored(e, c).type
             /\ e \in SqliteLike => x = Stored(e, c)
    BY <1>4 DEF MadeFrom
  <1>6. \A c, d \in Range(a.columns) : c.name = d.name => c = d
    BY <1>1, <1>2 DEF Settles
  <1>7. ASSUME e \in SqliteLike, NEW x \in Range(u.columns) PROVE IsColumn(x)
    BY <1>3, <1>5, <1>7, StoredIsColumn
  <1>8. ASSUME e \in SqliteLike, NEW x \in Range(u.columns), NEW y \in Range(u.columns), x.name = y.name PROVE x = y
    BY <1>5, <1>6, <1>8
  <1>9. Range(u.indexes) = {} /\ u.foreignKeys = <<>>
    BY <1>2, <1>5, Literals
  <1>10. ASSUME e = "cassandra", NEW x \in Range(u.columns) PROVE x.type # <<"varchar", "">>
    BY <1>3, <1>5, <1>10, StoredInCassandra
  <1>11. ASSUME NEW x \in Range(u.columns), NEW y \in Range(u.columns), x.name = y.name
         PROVE  CS!ExistingColumn(x).type = y.type
    BY <1>5, <1>6, <1>11
  <1> QED
    BY <1>5, <1>7, <1>8, <1>9, <1>10, <1>11 DEF Described

-----------------------------------------------------------------------------
(* The plans of sqlite and rqlite.                                         *)

\* The spec as the planner sees it.
SeenSpec(e, sp) == IF e = "rqlite" THEN RQ!Decoded(sp) ELSE sp

SeenAs(e, sp, o) ==
  /\ IsSpec(o) /\ o.primaryKey = sp.primaryKey /\ o.foreignKeys = sp.foreignKeys /\ o.indexes = sp.indexes
  /\ NamesOf(o.columns) = NamesOf(sp.columns)
  /\ Range(o.columns) = {Wanted(e, c) : c \in Range(sp.columns)}
  /\ \A n : HasName(sp.columns, n) => ByName(o.columns, n) = Wanted(e, ByName(sp.columns, n))

LEMMA SpecSeen ==
  ASSUME NEW e \in SqliteLike, NEW sp, IsSpec(sp), Settles(e, sp)
  PROVE  SeenAs(e, sp, SeenSpec(e, sp))
  <1> DEFINE o == SeenSpec(e, sp)
  <1>1. CASE e = "sqlite"
    <2>1. o = sp /\ \A c : Wanted(e, c) = c
      BY <1>1 DEF SeenSpec, Wanted
    <2> HIDE DEF o
    <2>2. Range(o.columns) = {Wanted(e, c) : c \in Range(sp.columns)}
      BY <2>1
    <2>3. SeenAs(e, sp, o)
      BY <2>1, <2>2 DEF SeenAs
    <2> QED
      BY <2>3 DEF o
  <1>2. CASE e = "rqlite"
    <2> DEFINE columns == [i \in DOMAIN sp.columns |-> RQ!schemaColumnToColumn(sp.columns[i])]
    <2>0. o = RQ!Decoded(sp)
      BY <1>2 DEF SeenSpec
    <2>1. o = [sp EXCEPT !.columns = columns]
      BY <2>0 DEF RQ!Decoded
    <2>2. IsSpec(o) /\ NamesOf(o.columns) = NamesOf(sp.columns)
      BY <2>0, RQDecoded
    <2> HIDE DEF o
    <2>3. /\ o.primaryKey = sp.primaryKey /\ o.foreignKeys = sp.foreignKeys /\ o.indexes = sp.indexes
          /\ o.columns = columns
      <3> HIDE DEF columns
      <3> QED
        BY <2>1 DEF IsSpec, EmptySpec
    <2>4. /\ DOMAIN o.columns = DOMAIN sp.columns
          /\ \A i \in DOMAIN sp.columns : o.columns[i] = Wanted(e, sp.columns[i])
      BY <1>2, <2>3 DEF Wanted
    <2> HIDE DEF columns
    <2>5. Range(o.columns) = {Wanted(e, c) : c \in Range(sp.columns)}
      <3>1. Range(o.columns) = {o.columns[i] : i \in DOMAIN o.columns}
        BY DEF Range
      <3>2. Range(sp.columns) = {sp.columns[i] : i \in DOMAIN sp.columns}
        BY DEF Range
      <3> QED
        BY <2>4, <3>1, <3>2
    <2>6. ASSUME NEW n, HasName(sp.columns, n) PROVE ByName(o.columns, n) = Wanted(e, ByName(sp.columns, n))
      <3>1. IsSequence(o.columns) /\ IsSequence(sp.columns) /\ HasName(o.columns, n)
        BY <2>2, <2>6 DEF IsSpec, HasName
      <3>2. PICK i \in DOMAIN o.columns : ByName(o.columns, n) = o.columns[i] /\ o.columns[i].name = n
        BY <3>1, Found
      <3>3. PICK j \in DOMAIN sp.columns : ByName(sp.columns, n) = sp.columns[j] /\ sp.columns[j].name = n
        BY <2>6, <3>1, Found
      <3>4. IsColumn(sp.columns[i])
        BY <2>4, <3>1, SequenceDomain DEF Settles
      <3>5. sp.columns[i].name = n
        BY <2>4, <3>2, <3>4, WantedColumn
      <3>6. sp.columns[i] = sp.columns[j]
        BY <2>4, <3>3, <3>5 DEF Settles, Range
      <3> QED
        BY <2>4, <3>2, <3>3, <3>6
    <2>7. SeenAs(e, sp, o)
      BY <2>2, <2>3, <2>5, <2>6 DEF SeenAs
    <2> QED
      BY <2>7 DEF o
  <1> QED
    BY <1>1, <1>2 DEF SqliteLike

LEMMA RQRecreates ==
  ASSUME NEW o, NEW t
  PROVE  RQ!SQ!checkTableNeedsRecreate(o, t) = SQ!checkTableNeedsRecreate(o, t)
  BY ZenonT(60)
  DEF RQ!SQ!checkTableNeedsRecreate, SQ!checkTableNeedsRecreate, RQ!SQ!SameColumns, SQ!SameColumns,
      RQ!SQ!AnySeq, SQ!AnySeq, RQ!SQ!ListTableForeignKeys, SQ!ListTableForeignKeys,
      RQ!SQ!ForeignKey, SQ!ForeignKey, RQ!SQ!ForeignKeyEquals, SQ!ForeignKeyEquals,
      RQ!SQ!normalizeOnDelete, SQ!normalizeOnDelete, RQ!SQ!NoName, SQ!NoName, RQ!SQ!HasName, SQ!HasName,
      RQ!SQ!NamesOf, SQ!NamesOf, RQ!SQ!ByName, SQ!ByName, RQ!SQ!columnsMatch, SQ!columnsMatch,
      RQ!SQ!schemaColumnToColumn, SQ!schemaColumnToColumn, RQ!SQ!ExistingColumn, SQ!ExistingColumn,
      RQ!SQ!InCatalogAll, SQ!InCatalogAll, RQ!SQ!InCatalog, SQ!InCatalog, RQ!SQ!Canonical, SQ!Canonical,
      RQ!SQ!CanonicalizeSQLExpr, SQ!CanonicalizeSQLExpr, RQ!SQ!BoolsEqual, SQ!BoolsEqual,
      RQ!SQ!IndexIsAConstraint, SQ!IndexIsAConstraint, RQ!SQ!IndexEquals, SQ!IndexEquals,
      RQ!SQ!NamedIndex, SQ!NamedIndex, RQ!SQ!GenerateIndexName, SQ!GenerateIndexName,
      RQ!SQ!normalizeIndexMethod, SQ!normalizeIndexMethod, RQ!SQ!Range, SQ!Range

\* A table that can be altered to what the spec says.
Alterable(e, sp, t) ==
  /\ SameColumns(t.primaryKey, sp.primaryKey) /\ t.foreignKeys = <<>>
  /\ \A c \in Range(t.columns) : HasName(sp.columns, c.name) => ColumnFits(e, sp, c)
  /\ \A c \in Range(t.indexes) : c.constraint => \E d \in Range(sp.indexes) : IndexEquals(c, NamedIndex(d))

LEMMA Recreates ==
  ASSUME NEW e \in SqliteLike, NEW sp, IsSpec(sp), sp.foreignKeys = <<>>, NEW o, SeenAs(e, sp, o), NEW t, IsTable(t)
  PROVE  SQ!checkTableNeedsRecreate(o, t) <=> ~Alterable(e, sp, t)
  <1> DEFINE differs(c) == HasName(sp.columns, c.name) /\ ~ColumnFits(e, sp, c)
             gone(c) == c.constraint /\ ~\E d \in Range(sp.indexes) : IndexEquals(c, NamedIndex(d))
  <1>0. /\ o.primaryKey = sp.primaryKey /\ o.foreignKeys = <<>> /\ o.indexes = sp.indexes
        /\ NamesOf(o.columns) = NamesOf(sp.columns)
        /\ \A n : HasName(sp.columns, n) => ByName(o.columns, n) = Wanted(e, ByName(sp.columns, n))
    BY DEF SeenAs
  <1>1. SQ!AnySeq(t.columns, LAMBDA c : /\ SQ!HasName(o.columns, c.name)
                                      /\ ~SQ!columnsMatch(SQ!schemaColumnToColumn(SQ!ByName(o.columns, c.name)), SQ!ExistingColumn(c)))
        <=> \E c \in Range(t.columns) : differs(c)
    <2>1. ASSUME NEW c
          PROVE  SQ!HasName(o.columns, c.name)
                   /\ ~SQ!columnsMatch(SQ!schemaColumnToColumn(SQ!ByName(o.columns, c.name)), SQ!ExistingColumn(c))
                 <=> differs(c)
      <3>1. SQ!HasName(o.columns, c.name) <=> HasName(sp.columns, c.name)
        BY <1>0, SQSame DEF HasName
      <3>2. SQ!schemaColumnToColumn(SQ!ByName(o.columns, c.name)) = ByName(o.columns, c.name)
        BY SQCompares DEF SQ!schemaColumnToColumn
      <3>3. e # "cassandra"
        BY DEF SqliteLike
      <3> QED
        BY <1>0, <3>1, <3>2, <3>3 DEF ColumnFits
    <2> HIDE DEF differs
    <2>2. Range(t.columns) = {t.columns[i] : i \in DOMAIN t.columns}
      BY DEF Range
    <2> QED
      BY <2>1, <2>2 DEF SQ!AnySeq
  <1>2. SQ!AnySeq(t.indexes, LAMBDA c : /\ SQ!IndexIsAConstraint(c)
                                     /\ ~SQ!AnySeq(o.indexes, LAMBDA d : SQ!IndexEquals(c, SQ!NamedIndex(d))))
        <=> \E c \in Range(t.indexes) : gone(c)
    <2>1. ASSUME NEW c
          PROVE  SQ!IndexIsAConstraint(c) /\ ~SQ!AnySeq(o.indexes, LAMBDA d : SQ!IndexEquals(c, SQ!NamedIndex(d)))
                 <=> gone(c)
      <3>1. SQ!AnySeq(o.indexes, LAMBDA d : SQ!IndexEquals(c, SQ!NamedIndex(d)))
              <=> \E i \in DOMAIN sp.indexes : IndexEquals(c, NamedIndex(sp.indexes[i]))
        BY <1>0, SQCompares DEF SQ!AnySeq
      <3>2. Range(sp.indexes) = {sp.indexes[i] : i \in DOMAIN sp.indexes}
        BY DEF Range
      <3> QED
        BY <3>1, <3>2 DEF SQ!IndexIsAConstraint
    <2> HIDE DEF gone
    <2>2. Range(t.indexes) = {t.indexes[i] : i \in DOMAIN t.indexes}
      BY DEF Range
    <2> QED
      BY <2>1, <2>2 DEF SQ!AnySeq
  <1>3. Len(t.foreignKeys) # Len(o.foreignKeys) <=> t.foreignKeys # <<>>
    <2>1. IsSequence(t.foreignKeys)
      BY DEF IsTable
    <2>2. Len(t.foreignKeys) \in Nat /\ (t.foreignKeys # <<>> => Len(t.foreignKeys) > 0)
      BY <2>1, SequenceDomain, Tailed
    <2>3. Len(<<>>) = 0
      OBVIOUS
    <2> QED
      BY <1>0, <2>2, <2>3
  <1>4. ~SQ!AnySeq(o.foreignKeys,
          LAMBDA d : ~SQ!AnySeq(SQ!ListTableForeignKeys(t), LAMBDA fk : SQ!ForeignKeyEquals(fk, d)))
    BY <1>0 DEF SQ!AnySeq
  <1>5. ~SQ!SameColumns(t.primaryKey, o.primaryKey) <=> ~SameColumns(t.primaryKey, sp.primaryKey)
    BY <1>0, SQCompares
  <1>6. SQ!checkTableNeedsRecreate(o, t) <=>
          \/ ~SameColumns(t.primaryKey, sp.primaryKey) \/ t.foreignKeys # <<>>
          \/ (\E c \in Range(t.columns) : differs(c)) \/ \E c \in Range(t.indexes) : gone(c)
    <2> HIDE DEF differs, gone
    <2> QED
      BY <1>1, <1>2, <1>3, <1>4, <1>5, Zenon DEF SQ!checkTableNeedsRecreate
  <1> QED
    BY <1>6 DEF Alterable

LEMMA EmptyJoined ==
  ASSUME NEW s, IsSequence(s)
  PROVE  <<>> \o s = s /\ s \o <<>> = s
  BY DEF IsSequence

LEMMA Joined ==
  ASSUME NEW a, NEW b
  PROVE  <<>> \o <<a>> = <<a>> /\ <<a>> \o <<b>> = <<a, b>>
  <1>1. <<>> \o <<a>> = <<a>>
    BY EmptyJoined, Literals
  <1>2. <<a>> \o <<b>> = <<a, b>>
    <2> DEFINE S == {a, b}
    <2>1. <<a>> \in Seq(S) /\ <<b>> \in Seq(S) /\ <<a, b>> \in Seq(S)
      OBVIOUS
    <2>2. Len(<<a>> \o <<b>>) = 2 /\ (<<a>> \o <<b>>)[1] = a /\ (<<a>> \o <<b>>)[2] = b
      BY <2>1
    <2> DEFINE u == <<a>> \o <<b>>
               v == <<a, b>>
    <2>3. u \in Seq(S) /\ v \in Seq(S) /\ Len(u) = 2 /\ Len(v) = 2 /\ u[1] = v[1] /\ u[2] = v[2]
      BY <2>1, <2>2
    <2> HIDE DEF u, v, S
    <2>4. u = [i \in 1..2 |-> u[i]] /\ v = [i \in 1..2 |-> v[i]]
      BY <2>3
    <2>5. \A i \in 1..2 : u[i] = v[i]
      BY <2>3
    <2>6. u = v
      BY <2>4, <2>5
    <2> QED
      BY <2>6 DEF u, v
  <1> QED
    BY <1>1, <1>2

\* The statements that bring a table's indexes to the spec's.
IndexesPlanned(sp, t, q) ==
  /\ IsSequence(q) /\ Followed(q, IndexSwaps(sp))
  /\ \A st \in Range(q) :
       /\ IsStatement(st) /\ st.op \in {"addIndex", "dropIndex", "dropIndexIfExists"}
       /\ st.op = "addIndex" => \E d \in Range(sp.indexes) : st.arg = NamedIndex(d)
  /\ \A d \in Range(sp.indexes) :
       \/ \E c \in Range(t.indexes) : IndexEquals(c, NamedIndex(d))
       \/ [op |-> "addIndex", arg |-> NamedIndex(d)] \in Range(q)
  /\ \A c \in Range(t.indexes) : IndexNamed(sp, c.name) \/ \E st \in Range(q) : DropsIndex(st) /\ st.arg = c.name
  /\ /\ \A d \in Range(sp.indexes) : \E c \in Range(t.indexes) : IndexEquals(c, NamedIndex(d))
     /\ \A c \in Range(t.indexes) : IndexNamed(sp, c.name)
     => Range(q) = {}

LEMMA Swaps ==
  ASSUME NEW sp, NEW p \in IndexSwaps(sp)
  PROVE  \E d \in Range(sp.indexes) :
           /\ p[1].op \in {"dropIndex", "dropIndexIfExists"} /\ p[1].arg = NamedIndex(d).name
           /\ p[2] = [op |-> "addIndex", arg |-> NamedIndex(d)]
  <1>1. PICK op \in {"dropIndex", "dropIndexIfExists"}, d \in Range(sp.indexes) :
          p = <<[op |-> op, arg |-> NamedIndex(d).name], [op |-> "addIndex", arg |-> NamedIndex(d)]>>
    BY DEF IndexSwaps
  <1> QED
    BY <1>1

\* What is planned for an index of the spec, and for one of the table.
LEMMA IndexAdded ==
  ASSUME NEW sp, IsSpec(sp), SettlesInSqlite(sp), NEW d \in Range(sp.indexes), NEW t, IsTable(t),
         NEW q, q = (IF HasName(t.indexes, SQ!NamedIndex(d).name)
                     THEN <<SQ!RemoveIndexStatement(SQ!ByName(t.indexes, SQ!NamedIndex(d).name))>> ELSE <<>>)
                    \o <<SQ!AddIndexStatement(d)>>
  PROVE  /\ IsSequence(q) /\ Followed(q, IndexSwaps(sp)) /\ [op |-> "addIndex", arg |-> NamedIndex(d)] \in Range(q)
         /\ \A st \in Range(q) :
              /\ IsStatement(st) /\ st.op \in {"addIndex", "dropIndex", "dropIndexIfExists"}
              /\ st.op = "addIndex" => st.arg = NamedIndex(d)
  <1> DEFINE n == NamedIndex(d).name
             add == [op |-> "addIndex", arg |-> NamedIndex(d)]
  <1>1. SQ!AddIndexStatement(d) = add /\ SQ!NamedIndex(d) = NamedIndex(d)
    BY SQSame, SQCompares DEF SQ!AddIndexStatement
  <1>2. add.op = "addIndex" /\ add.arg = NamedIndex(d) /\ IsStatement(add)
    BY DEF IsStatement
  <1>3. \A p \in IndexSwaps(sp) : add # p[1]
    BY <1>2, Swaps
  <1> HIDE DEF add
  <1>4. CASE ~HasName(t.indexes, n)
    <2>1. q = <<>> \o <<add>>
      BY <1>1, <1>4
    <2>2. q = <<add>>
      BY ONLY <2>1, Joined
    <2>3. IsSequence(q) /\ Range(q) = {add}
      BY <2>2, Literals
    <2>4. Followed(q, IndexSwaps(sp))
      BY <1>3, <2>3, FollowedNone
    <2> QED
      BY <1>2, <2>3, <2>4 DEF add
  <1>5. CASE HasName(t.indexes, n)
    <2> DEFINE x == ByName(t.indexes, n)
               op == IF x.unique THEN "dropIndexIfExists" ELSE "dropIndex"
               drop == [op |-> op, arg |-> n]
    <2>1. x.name = n
      BY <1>5, Found DEF IsTable
    <2>2. SQ!RemoveIndexStatement(SQ!ByName(t.indexes, SQ!NamedIndex(d).name)) = drop
      <3>1. SQ!ByName(t.indexes, SQ!NamedIndex(d).name) = x
        BY <1>1, SQCompares
      <3> HIDE DEF x
      <3> QED
        BY <2>1, <3>1, SQSame DEF SQ!RemoveIndexStatement
    <2>3. drop.op \in {"dropIndex", "dropIndexIfExists"} /\ drop.arg = n /\ IsStatement(drop)
      BY DEF IsStatement
    <2> HIDE DEF drop, x
    <2>4. q = <<drop>> \o <<add>>
      BY <1>1, <1>5, <2>2
    <2>5. q = <<drop, add>>
      BY ONLY <2>4, Joined
    <2>6. IsSequence(q) /\ Range(q) = {drop, add}
      BY ONLY <2>5, Literals
    <2>7. ASSUME NEW p \in IndexSwaps(sp), drop = p[1] PROVE add = p[2]
      <3>1. PICK d1 \in Range(sp.indexes) :
              p[1].arg = NamedIndex(d1).name /\ p[2] = [op |-> "addIndex", arg |-> NamedIndex(d1)]
        BY Swaps
      <3>2. NamedIndex(d1).name = NamedIndex(d).name
        BY <2>3, <2>7, <3>1
      <3>3. d1 = d
        BY <3>2 DEF SettlesInSqlite
      <3> QED
        BY <3>1, <3>3 DEF add
    <2>8. Followed(q, IndexSwaps(sp))
      <3>1. Followed(<<drop, add>>, IndexSwaps(sp))
        BY <1>3, <2>7, FollowedPair
      <3> QED
        BY <2>5, <3>1
    <2>9. /\ IsStatement(drop) /\ drop.op \in {"addIndex", "dropIndex", "dropIndexIfExists"}
          /\ drop.op # "addIndex"
      BY <2>3
    <2> QED
      BY <1>2, <2>6, <2>8, <2>9 DEF add
  <1> QED
    BY <1>4, <1>5

LEMMA IndexRemoved ==
  ASSUME NEW sp, NEW c, ~IndexNamed(sp, c.name), NEW q, q = <<SQ!RemoveIndexStatement(c)>>
  PROVE  /\ IsSequence(q) /\ Followed(q, IndexSwaps(sp)) /\ \E st \in Range(q) : DropsIndex(st) /\ st.arg = c.name
         /\ \A st \in Range(q) : IsStatement(st) /\ st.op \in {"dropIndex", "dropIndexIfExists"}
  <1> DEFINE op == IF c.unique THEN "dropIndexIfExists" ELSE "dropIndex"
             drop == [op |-> op, arg |-> c.name]
  <1>1. SQ!RemoveIndexStatement(c) = drop
    BY SQSame DEF SQ!RemoveIndexStatement
  <1>2. drop.op \in {"dropIndex", "dropIndexIfExists"} /\ drop.arg = c.name /\ IsStatement(drop)
    BY DEF IsStatement
  <1> HIDE DEF drop
  <1>3. IsSequence(q) /\ Range(q) = {drop}
    BY <1>1, Literals
  <1>4. \A p \in IndexSwaps(sp) : drop # p[1]
    BY <1>2, Swaps DEF IndexNamed
  <1>5. Followed(q, IndexSwaps(sp))
    BY <1>3, <1>4, FollowedNone
  <1> QED
    BY <1>2, <1>3, <1>5 DEF DropsIndex

LEMMA IndexesArePlanned ==
  ASSUME NEW sp, IsSpec(sp), SettlesInSqlite(sp), NEW t, IsTable(t)
  PROVE  IndexesPlanned(sp, t, SQ!BuildAlterIndexStatements(sp, t))
  <1> DEFINE wanted(d) == SQ!AnySeq(t.indexes, LAMBDA c : SQ!IndexEquals(c, SQ!NamedIndex(d)))
             kept(c) == SQ!AnySeq(sp.indexes, LAMBDA d : SQ!NamedIndex(d).name = c.name)
             swap(d) == (IF HasName(t.indexes, SQ!NamedIndex(d).name)
                         THEN <<SQ!RemoveIndexStatement(SQ!ByName(t.indexes, SQ!NamedIndex(d).name))>> ELSE <<>>)
                        \o <<SQ!AddIndexStatement(d)>>
             f == [i \in DOMAIN sp.indexes |-> IF wanted(sp.indexes[i]) THEN <<>> ELSE swap(sp.indexes[i])]
             g == [i \in DOMAIN t.indexes |->
                     IF kept(t.indexes[i]) THEN <<>> ELSE <<SQ!RemoveIndexStatement(t.indexes[i])>>]
             ops == {"addIndex", "dropIndex", "dropIndexIfExists"}
             good(q) == /\ IsSequence(q) /\ Followed(q, IndexSwaps(sp))
                        /\ \A st \in Range(q) :
                             /\ IsStatement(st) /\ st.op \in ops
                             /\ st.op = "addIndex" => \E d \in Range(sp.indexes) : st.arg = NamedIndex(d)
  <1>1. SQ!BuildAlterIndexStatements(sp, t) = Flatten(f) \o Flatten(g)
    BY SQSame DEF SQ!BuildAlterIndexStatements, SQ!FlatMap
  <1>2. \A d : wanted(d) <=> \E c \in Range(t.indexes) : IndexEquals(c, NamedIndex(d))
    <2>1. Range(t.indexes) = {t.indexes[i] : i \in DOMAIN t.indexes}
      BY DEF Range
    <2> QED
      BY <2>1, SQCompares DEF SQ!AnySeq
  <1>3. \A c : kept(c) <=> IndexNamed(sp, c.name)
    <2>1. Range(sp.indexes) = {sp.indexes[i] : i \in DOMAIN sp.indexes}
      BY DEF Range
    <2> QED
      BY <2>1, SQCompares DEF SQ!AnySeq, IndexNamed
  <1>4. \A d \in Range(sp.indexes) :
          good(swap(d)) /\ [op |-> "addIndex", arg |-> NamedIndex(d)] \in Range(swap(d))
    <2> SUFFICES ASSUME NEW d \in Range(sp.indexes)
                 PROVE  good(swap(d)) /\ [op |-> "addIndex", arg |-> NamedIndex(d)] \in Range(swap(d))
      OBVIOUS
    <2> DEFINE q == swap(d)
    <2>1. /\ IsSequence(q) /\ Followed(q, IndexSwaps(sp)) /\ [op |-> "addIndex", arg |-> NamedIndex(d)] \in Range(q)
          /\ \A st \in Range(q) :
               /\ IsStatement(st) /\ st.op \in {"addIndex", "dropIndex", "dropIndexIfExists"}
               /\ st.op = "addIndex" => st.arg = NamedIndex(d)
      BY IndexAdded, Zenon
    <2> HIDE DEF swap
    <2> QED
      BY <2>1
  <1>5. \A c : ~IndexNamed(sp, c.name) =>
          LET q == <<SQ!RemoveIndexStatement(c)>>
          IN good(q) /\ \E st \in Range(q) : DropsIndex(st) /\ st.arg = c.name
    <2> SUFFICES ASSUME NEW c, ~IndexNamed(sp, c.name)
                 PROVE  LET q == <<SQ!RemoveIndexStatement(c)>>
                        IN good(q) /\ \E st \in Range(q) : DropsIndex(st) /\ st.arg = c.name
      OBVIOUS
    <2> DEFINE q == <<SQ!RemoveIndexStatement(c)>>
    <2>1. /\ IsSequence(q) /\ Followed(q, IndexSwaps(sp)) /\ \E st \in Range(q) : DropsIndex(st) /\ st.arg = c.name
          /\ \A st \in Range(q) : IsStatement(st) /\ st.op \in {"dropIndex", "dropIndexIfExists"}
      BY IndexRemoved, Zenon
    <2> HIDE DEF q
    <2>2. good(q) /\ \E st \in Range(q) : DropsIndex(st) /\ st.arg = c.name
      BY <2>1
    <2> QED
      BY <2>2 DEF q
  <1>6. good(<<>>)
    <2>1. IsSequence(<<>>) /\ Range(<<>>) = {}
      BY Literals
    <2> QED
      BY <2>1, FollowedNone
  <1> HIDE DEF wanted, kept, swap, good
  <1>7. /\ DOMAIN f = DOMAIN sp.indexes /\ IsSequence(f) /\ \A i \in DOMAIN sp.indexes : good(f[i])
        /\ \A i \in DOMAIN sp.indexes : f[i] = IF wanted(sp.indexes[i]) THEN <<>> ELSE swap(sp.indexes[i])
    <2>1. DOMAIN f = DOMAIN sp.indexes /\ IsSequence(f)
      BY Mapped DEF IsSpec
    <2>2. \A i \in DOMAIN sp.indexes : sp.indexes[i] \in Range(sp.indexes)
      BY DEF Range
    <2> QED
      BY <1>4, <1>6, <2>1, <2>2
  <1>8. /\ DOMAIN g = DOMAIN t.indexes /\ IsSequence(g) /\ \A i \in DOMAIN t.indexes : good(g[i])
        /\ \A i \in DOMAIN t.indexes :
             g[i] = IF kept(t.indexes[i]) THEN <<>> ELSE <<SQ!RemoveIndexStatement(t.indexes[i])>>
    <2>1. DOMAIN g = DOMAIN t.indexes /\ IsSequence(g)
      BY Mapped DEF IsTable
    <2> QED
      BY <1>3, <1>5, <1>6, <2>1
  <1> HIDE DEF f, g
  <1>9. ASSUME NEW h, IsSequence(h), \A i \in DOMAIN h : good(h[i])
        PROVE  /\ good(Flatten(h)) /\ \A i \in DOMAIN h : Range(h[i]) \subseteq Range(Flatten(h))
               /\ (\A i \in DOMAIN h : h[i] = <<>>) => Range(Flatten(h)) = {}
    <2>1. \A i \in DOMAIN h : IsSequence(h[i]) /\ Followed(h[i], IndexSwaps(sp))
      BY <1>9 DEF good
    <2>2. IsSequence(Flatten(h)) /\ Range(Flatten(h)) = UNION {Range(h[i]) : i \in DOMAIN h}
      BY <1>9, <2>1, Flattened
    <2>3. Followed(Flatten(h), IndexSwaps(sp))
      BY <1>9, <2>1, FollowedFlat
    <2>4. (\A i \in DOMAIN h : h[i] = <<>>) => Range(Flatten(h)) = {}
      <3>1. Range(<<>>) = {}
        BY Literals
      <3> QED
        BY <2>2, <3>1
    <2> QED
      BY <1>9, <2>2, <2>3, <2>4 DEF good
  <1>10. good(Flatten(f)) /\ good(Flatten(g))
    BY <1>7, <1>8, <1>9
  <1> DEFINE q == Flatten(f) \o Flatten(g)
  <1>11. IsSequence(q) /\ Range(q) = Range(Flatten(f)) \cup Range(Flatten(g)) /\ Followed(q, IndexSwaps(sp))
    BY <1>10, Concatenated, FollowedConcat DEF good
  <1> HIDE DEF q
  <1>12. good(q)
    BY <1>10, <1>11 DEF good
  <1>13. ASSUME NEW d \in Range(sp.indexes), ~\E c \in Range(t.indexes) : IndexEquals(c, NamedIndex(d))
         PROVE  [op |-> "addIndex", arg |-> NamedIndex(d)] \in Range(q)
    <2>1. PICK i \in DOMAIN sp.indexes : d = sp.indexes[i]
      BY DEF Range
    <2>2. f[i] = swap(d) /\ Range(f[i]) \subseteq Range(q)
      BY <1>2, <1>7, <1>9, <1>11, <1>13, <2>1
    <2> QED
      BY <1>4, <2>2
  <1>14. ASSUME NEW c \in Range(t.indexes), ~IndexNamed(sp, c.name)
         PROVE  \E st \in Range(q) : DropsIndex(st) /\ st.arg = c.name
    <2>1. PICK i \in DOMAIN t.indexes : c = t.indexes[i]
      BY DEF Range
    <2>2. g[i] = <<SQ!RemoveIndexStatement(c)>> /\ Range(g[i]) \subseteq Range(q)
      BY <1>3, <1>8, <1>9, <1>11, <1>14, <2>1
    <2>3. \E st \in Range(<<SQ!RemoveIndexStatement(c)>>) : DropsIndex(st) /\ st.arg = c.name
      BY <1>5, <1>14
    <2> QED
      BY <2>2, <2>3
  <1>15. ASSUME \A d \in Range(sp.indexes) : \E c \in Range(t.indexes) : IndexEquals(c, NamedIndex(d)),
                \A c \in Range(t.indexes) : IndexNamed(sp, c.name)
         PROVE  Range(q) = {}
    <2>1. /\ \A i \in DOMAIN sp.indexes : sp.indexes[i] \in Range(sp.indexes)
          /\ \A i \in DOMAIN t.indexes : t.indexes[i] \in Range(t.indexes)
      BY DEF Range
    <2>2. \A i \in DOMAIN f : f[i] = <<>>
      BY <1>2, <1>7, <1>15, <2>1
    <2>3. \A i \in DOMAIN g : g[i] = <<>>
      BY <1>3, <1>8, <1>15, <2>1
    <2> QED
      BY <1>7, <1>8, <1>9, <1>11, <2>2, <2>3
  <1>16. IndexesPlanned(sp, t, q)
    BY <1>12, <1>13, <1>14, <1>15 DEF IndexesPlanned, good
  <1> QED
    BY <1>1, <1>16 DEF q

\* Parts a, b and c of a plan, with r after them.
Regroups(a, b, c, r) == ((a \o b) \o c) \o r = a \o (b \o (c \o r))

LEMMA Regrouped ==
  ASSUME NEW a, IsSequence(a), NEW b, IsSequence(b), NEW c, IsSequence(c), NEW r, IsSequence(r)
  PROVE  Regroups(a, b, c, r)
  <1>1. PICK u, v : u = a \o b /\ v = c \o r
    OBVIOUS
  <1>2. IsSequence(a) /\ IsSequence(b) /\ IsSequence(c) /\ IsSequence(r) /\ IsSequence(u) /\ IsSequence(v)
    BY <1>1, Concatenated
  <1>3. (a \o b) \o v = a \o (b \o v)
    <2>1. IsSequence(a) /\ IsSequence(b) /\ IsSequence(v)
      BY <1>2
    <2> QED
      BY ONLY <2>1, Associative
  <1>4. (u \o c) \o r = u \o (c \o r)
    <2>1. IsSequence(u) /\ IsSequence(c) /\ IsSequence(r)
      BY <1>2
    <2> QED
      BY ONLY <2>1, Associative
  <1> QED
    BY <1>1, <1>3, <1>4, Zenon DEF Regroups

\* The statements of a new table: the one that makes it, and its indexes.
NewFor(e, sp, q, create, indexes) ==
  /\ q = <<create>> \o indexes /\ create.op = "createTable"
  /\ Fresh(e, sp, create.arg) /\ AddsIndexes(sp, indexes)

LEMMA NewTableFor ==
  ASSUME NEW e \in SqliteLike, NEW sp, IsSpec(sp), sp.foreignKeys = <<>>, NEW o, SeenAs(e, sp, o)
  PROVE  \E create, indexes : NewFor(e, sp, SQ!CreateTableStatements(o), create, indexes)
  <1> DEFINE columns == [i \in DOMAIN o.columns |-> o.columns[i]]
             fks == [i \in DOMAIN o.foreignKeys |->
                       [o.foreignKeys[i] EXCEPT !.name = SQ!GenerateFKName(o.foreignKeys[i])]]
             arg == [SQ!NoTable EXCEPT !.exists = TRUE, !.columns = columns, !.primaryKey = o.primaryKey,
                       !.foreignKeys = fks]
             create == [op |-> "createTable", arg |-> arg]
             indexes == [i \in DOMAIN o.indexes |-> SQ!AddIndexStatement(o.indexes[i])]
  <1>0. /\ IsSpec(o) /\ o.primaryKey = sp.primaryKey /\ o.foreignKeys = <<>> /\ o.indexes = sp.indexes
        /\ Range(o.columns) = {Wanted(e, c) : c \in Range(sp.columns)}
    BY DEF SeenAs
  <1>1. SQ!CreateTableStatements(o) = <<create>> \o indexes
    <2>1. SQ!CreateTableStatements(o) = <<SQ!Statement("createTable", arg)>> \o indexes
      BY Zenon DEF SQ!CreateTableStatements, SQ!schemaColumnToColumn
    <2> HIDE DEF arg, indexes
    <2>2. SQ!Statement("createTable", arg) = [op |-> "createTable", arg |-> arg]
      BY SQSame
    <2> QED
      BY <2>1, <2>2, Zenon
  <1>2. columns = o.columns
    BY <1>0, SequenceDomain DEF IsSpec
  <1>3. fks = <<>>
    <2>1. DOMAIN o.foreignKeys = {}
      BY <1>0
    <2>2. fks = [i \in {} |-> i] /\ <<>> = [i \in {} |-> i]
      BY <2>1
    <2> QED
      BY <2>2
  <1>4. Fresh(e, sp, arg)
    <2>1. /\ DOMAIN arg = DOMAIN NoTable /\ arg.exists = TRUE /\ arg.columns = columns /\ arg.foreignKeys = fks
          /\ arg.primaryKey = o.primaryKey
          /\ arg.indexes = <<>> /\ arg.checks = <<>> /\ arg.exclusions = <<>>
          /\ arg.triggers = <<>> /\ arg.policies = <<>>
      <3> HIDE DEF columns, fks
      <3> QED
        BY DEF SQ!NoTable, NoTable
    <2> HIDE DEF arg, columns, fks
    <2>2. IsTable(arg)
      BY <1>0, <1>2, <1>3, <2>1, Literals DEF IsTable, IsSpec
    <2>3. e # "cassandra"
      BY DEF SqliteLike
    <2> QED
      BY <1>0, <1>2, <1>3, <2>1, <2>2, <2>3 DEF Fresh
  <1>5. /\ IsSequence(indexes) /\ DOMAIN indexes = DOMAIN sp.indexes
        /\ \A i \in DOMAIN sp.indexes : indexes[i] = [op |-> "addIndex", arg |-> NamedIndex(sp.indexes[i])]
    <2>1. IsSequence(indexes) /\ DOMAIN indexes = DOMAIN sp.indexes
      BY <1>0, Mapped DEF IsSpec
    <2>2. \A d : SQ!AddIndexStatement(d) = [op |-> "addIndex", arg |-> NamedIndex(d)]
      BY SQSame, SQCompares DEF SQ!AddIndexStatement
    <2> QED
      BY <1>0, <2>1, <2>2
  <1> HIDE DEF indexes, arg
  <1>6. AddsIndexes(sp, indexes)
    <2>1. ASSUME NEW st \in Range(indexes)
          PROVE  /\ IsStatement(st) /\ st.op \in IdleOps \cup {"addIndex"}
                 /\ \E d \in Range(sp.indexes) : st.arg = NamedIndex(d)
      <3>1. PICK i \in DOMAIN sp.indexes : st = [op |-> "addIndex", arg |-> NamedIndex(sp.indexes[i])]
        BY <1>5 DEF Range
      <3>2. sp.indexes[i] \in Range(sp.indexes)
        BY DEF Range
      <3> QED
        BY <3>1, <3>2 DEF IsStatement
    <2>2. ASSUME NEW d \in Range(sp.indexes)
          PROVE  [op |-> "addIndex", arg |-> NamedIndex(d)] \in Range(indexes)
      BY <1>5 DEF Range
    <2> QED
      BY <1>5, <2>1, <2>2 DEF AddsIndexes
  <1>7. create.op = "createTable" /\ create.arg = arg
    OBVIOUS
  <1> HIDE DEF create
  <1>8. NewFor(e, sp, SQ!CreateTableStatements(o), create, indexes)
    BY <1>1, <1>4, <1>6, <1>7, Zenon DEF NewFor
  <1> QED
    BY <1>8

\* It ends in a table as the spec has it, whatever harmless comes after it.
LEMMA NewTableMade ==
  ASSUME NEW e \in SqliteLike, NEW sp, IsSpec(sp), Settles(e, sp), NEW q, NEW create, NEW indexes,
         NewFor(e, sp, q, create, indexes), NEW r, Idle(r)
  PROVE  Makes(e, sp, q \o r) /\ IsSequence(q)
  <1>1. /\ q = <<create>> \o indexes /\ create.op = "createTable"
        /\ Fresh(e, sp, create.arg) /\ AddsIndexes(sp, indexes)
    BY DEF NewFor
  <1>2. IsSequence(indexes) /\ IsSequence(r) /\ IsSequence(<<create>>)
    BY <1>1, Literals DEF AddsIndexes, Idle
  <1> DEFINE s == indexes \o r
             u == q \o r
  <1>3. AddsIndexes(sp, s)
    BY <1>1, AddsIndexesThen
  <1>4. u = <<create>> \o s
    <2> DEFINE first == <<create>>
    <2>1. q = first \o indexes /\ IsSequence(first)
      BY <1>1, <1>2
    <2> HIDE DEF first
    <2>2. (first \o indexes) \o r = first \o s
      BY <1>2, <2>1, Associative
    <2> QED
      BY <2>1, <2>2 DEF first
  <1> HIDE DEF s
  <1>5. IsSequence(s)
    BY <1>3 DEF AddsIndexes
  <1>6. IsSequence(u) /\ u # <<>> /\ u[1] = create /\ Tail(u) = s
    <2> HIDE DEF u
    <2> QED
      BY <1>4, <1>5, TailOf
  <1>7. e \in ConvergingEngines /\ e # "cassandra"
    BY DEF ConvergingEngines, SqliteLike
  <1>8. Converges(e, sp, StoredTable(e, create.arg), s)
    BY <1>1, <1>3, <1>7, FreshConverges
  <1>80. Described(e, StoredTable(e, create.arg))
    BY <1>1, <1>7, FreshDescribed
  <1> HIDE DEF u
  <1>9. Makes(e, sp, u)
    BY <1>1, <1>6, <1>8, <1>80 DEF Makes
  <1>10. IsSequence(q)
    BY <1>1, <1>2, Concatenated
  <1> QED
    BY <1>9, <1>10 DEF u

\* A copy into a new table, and one in a transaction.
LEMMA CopyRenames ==
  ASSUME NEW e \in SqliteLike, NEW sp, IsSpec(sp), Settles(e, sp), NEW o, SeenAs(e, sp, o), NEW r, Idle(r)
  PROVE  Renames(e, sp, SQ!CopyTableStatements(o) \o r) /\ IsSequence(SQ!CopyTableStatements(o))
  <1> DEFINE create == SQ!CreateTableStatements(o)
             rename == [op |-> "renameTable", arg |-> ""]
             names == {o.columns[i].name : i \in DOMAIN o.columns}
             copy == [op |-> "copyRows", arg |-> names]
             drop == [op |-> "dropOldTable", arg |-> ""]
             rows == <<copy, drop>>
             first == <<rename>>
             q == SQ!CopyTableStatements(o)
  <1>1. q = (first \o create) \o rows
    <2>1. q = <<SQ!Statement("renameTable", "")>> \o create
              \o <<SQ!Statement("copyRows", names), SQ!Statement("dropOldTable", "")>>
      BY Zenon DEF SQ!CopyTableStatements
    <2>2. /\ SQ!Statement("renameTable", "") = rename /\ SQ!Statement("dropOldTable", "") = drop
          /\ SQ!Statement("copyRows", names) = copy
      BY Zenon DEF SQ!Statement
    <2> HIDE DEF create, rename, copy, drop, q
    <2> QED
      BY <2>1, <2>2, Zenon
  <1>2. sp.foreignKeys = <<>>
    BY DEF Settles, SettlesInSqlite
  <1>3. PICK first1, indexes : NewFor(e, sp, create, first1, indexes)
    BY <1>2, NewTableFor
  <1>4. rename.op = "renameTable" /\ Idle(rows)
    <2> HIDE DEF names
    <2>1. IsStatement(copy) /\ IsStatement(drop) /\ copy.op \in IdleOps /\ drop.op \in IdleOps
      BY DEF IsStatement, IdleOps
    <2>2. rename.op = "renameTable"
      OBVIOUS
    <2> HIDE DEF copy, drop
    <2>3. IsSequence(rows) /\ Range(rows) = {copy, drop}
      BY Literals
    <2> HIDE DEF rows
    <2> QED
      BY <2>1, <2>2, <2>3 DEF Idle
  <1> HIDE DEF create, rename, rows, q
  <1> DEFINE s == rows \o r
             v == create \o s
  <1>5. Idle(s)
    BY <1>4, IdleThen
  <1>6. Makes(e, sp, v) /\ IsSequence(create) /\ IsSequence(v)
    BY <1>3, <1>5, NewTableMade DEF Makes
  <1>7. IsSequence(first) /\ IsSequence(rows) /\ IsSequence(r) /\ IsSequence(s)
    BY <1>4, <1>5, Literals DEF Idle
  <1>8. q \o r = first \o v
    <2> HIDE DEF first
    <2>1. IsSequence(first) /\ IsSequence(create) /\ IsSequence(rows) /\ IsSequence(r)
      BY <1>6, <1>7
    <2>2. Regroups(first, create, rows, r)
      BY ONLY <2>1, Regrouped
    <2> QED
      BY <1>1, <2>2, Zenon DEF Regroups
  <1>9. IsSequence(q)
    <2> HIDE DEF first
    <2>1. IsSequence(first \o create)
      BY <1>6, <1>7, Concatenated
    <2> QED
      BY <1>1, <1>7, <2>1, Concatenated
  <1> DEFINE u == q \o r
  <1>10. u = <<rename>> \o v
    BY <1>8, Zenon
  <1> HIDE DEF u, v
  <1>11. IsSequence(u) /\ u # <<>> /\ u[1] = rename /\ Tail(u) = v
    BY <1>6, <1>10, TailOf
  <1>12. Renames(e, sp, u)
    BY <1>4, <1>6, <1>11 DEF Renames
  <1> QED
    BY <1>9, <1>12 DEF u, q

LEMMA RecreateBegins ==
  ASSUME NEW sp, IsSpec(sp), Settles("sqlite", sp), NEW r, Idle(r)
  PROVE  Begins("sqlite", sp, SQ!RecreateTableStatements(sp) \o r)
  <1> DEFINE e == "sqlite"
             begin == [op |-> "begin", arg |-> ""]
             commit == [op |-> "commit", arg |-> ""]
             first == <<begin>>
             last == <<commit>>
             copy == SQ!CopyTableStatements(sp)
             q == SQ!RecreateTableStatements(sp)
  <1>1. q = (first \o copy) \o last
    <2>1. SQ!Statement("begin", "") = begin /\ SQ!Statement("commit", "") = commit
      BY Zenon DEF SQ!Statement
    <2> HIDE DEF begin, commit
    <2> QED
      BY <2>1, Zenon DEF SQ!RecreateTableStatements
  <1>2. e \in SqliteLike /\ SeenAs(e, sp, sp)
    <2>1. e \in SqliteLike
      BY DEF SqliteLike
    <2> QED
      BY <2>1, SpecSeen DEF SeenSpec
  <1>3. begin.op = "begin" /\ Idle(last)
    <2>1. IsStatement(commit) /\ commit.op \in IdleOps /\ begin.op = "begin"
      BY DEF IsStatement, IdleOps
    <2> HIDE DEF commit, begin
    <2>2. IsSequence(last) /\ Range(last) = {commit}
      BY Literals
    <2> HIDE DEF last
    <2> QED
      BY <2>1, <2>2 DEF Idle
  <1> HIDE DEF begin, last, copy, q
  <1> DEFINE s == last \o r
             v == copy \o s
  <1>4. Idle(s)
    BY <1>3, IdleThen
  <1>5. Renames(e, sp, v) /\ IsSequence(copy) /\ IsSequence(v)
    BY <1>2, <1>4, CopyRenames DEF Renames, copy
  <1>6. IsSequence(first) /\ IsSequence(last) /\ IsSequence(r) /\ IsSequence(s)
    BY <1>3, <1>4, Literals DEF Idle
  <1>7. q \o r = first \o v
    <2> HIDE DEF first
    <2>1. IsSequence(first) /\ IsSequence(copy) /\ IsSequence(last) /\ IsSequence(r)
      BY <1>5, <1>6
    <2>2. Regroups(first, copy, last, r)
      BY ONLY <2>1, Regrouped
    <2> QED
      BY <1>1, <2>2, Zenon DEF Regroups
  <1> DEFINE u == q \o r
  <1>8. u = <<begin>> \o v
    BY <1>7, Zenon
  <1> HIDE DEF u, v
  <1>9. IsSequence(u) /\ u # <<>> /\ u[1] = begin /\ Tail(u) = v
    BY <1>5, <1>8, TailOf
  <1>10. Begins(e, sp, u)
    BY <1>3, <1>5, <1>9 DEF Begins
  <1> QED
    BY <1>10 DEF u, q

\* The statements that add the spec's columns a table has not, and that drop those the
\* spec has not.
ColumnsAdded(e, sp, t, q) ==
  /\ IsSequence(q)
  /\ \A st \in Range(q) : \E c \in Range(sp.columns) :
       ~HasName(t.columns, c.name) /\ st = [op |-> "addColumn", arg |-> Wanted(e, c)]
  /\ \A c \in Range(sp.columns) :
       HasName(t.columns, c.name) \/ [op |-> "addColumn", arg |-> Wanted(e, c)] \in Range(q)

ColumnsGone(sp, t, q) ==
  /\ IsSequence(q)
  /\ \A st \in Range(q) : \E c \in Range(t.columns) :
       ~HasName(sp.columns, c.name) /\ st = [op |-> "dropColumn", arg |-> c.name]
  /\ \A c \in Range(t.columns) :
       HasName(sp.columns, c.name) \/ [op |-> "dropColumn", arg |-> c.name] \in Range(q)

LEMMA FlatMapped ==
  ASSUME NEW s, IsSequence(s), NEW f, f = [i \in DOMAIN s |-> f[i]], \A i \in DOMAIN s : IsSequence(f[i])
  PROVE  /\ IsSequence(Flatten(f))
         /\ \A st : st \in Range(Flatten(f)) <=> \E i \in DOMAIN s : st \in Range(f[i])
  <1>1. IsSequence(f) /\ DOMAIN f = DOMAIN s
    BY Mapped
  <1>2. IsSequence(Flatten(f)) /\ Range(Flatten(f)) = UNION {Range(f[i]) : i \in DOMAIN f}
    BY <1>1, Flattened
  <1> QED
    BY <1>1, <1>2

LEMMA AddsColumns ==
  ASSUME NEW e, NEW sp, IsSpec(sp), NEW t, NEW f,
         f = [i \in DOMAIN sp.columns |->
                IF HasName(t.columns, sp.columns[i].name) THEN <<>>
                ELSE <<[op |-> "addColumn", arg |-> Wanted(e, sp.columns[i])]>>]
  PROVE  ColumnsAdded(e, sp, t, Flatten(f))
  <1> DEFINE add(c) == [op |-> "addColumn", arg |-> Wanted(e, c)]
             cols == sp.columns
  <1>1. f = [i \in DOMAIN cols |-> f[i]] /\ IsSequence(cols)
    BY DEF IsSpec
  <1>2. \A i \in DOMAIN cols : f[i] = IF HasName(t.columns, cols[i].name) THEN <<>> ELSE <<add(cols[i])>>
    OBVIOUS
  <1>3. Range(cols) = {cols[i] : i \in DOMAIN cols}
    BY DEF Range
  <1> SUFFICES /\ IsSequence(Flatten(f))
               /\ \A st \in Range(Flatten(f)) : \E c \in Range(cols) : ~HasName(t.columns, c.name) /\ st = add(c)
               /\ \A c \in Range(cols) : HasName(t.columns, c.name) \/ add(c) \in Range(Flatten(f))
    BY Zenon DEF ColumnsAdded
  <1> HIDE DEF add, cols
  <1>4. \A i \in DOMAIN cols : /\ IsSequence(f[i])
                               /\ Range(f[i]) = IF HasName(t.columns, cols[i].name) THEN {} ELSE {add(cols[i])}
    BY <1>2, Literals
  <1>5. /\ IsSequence(Flatten(f))
        /\ \A st : st \in Range(Flatten(f)) <=> \E i \in DOMAIN cols : st \in Range(f[i])
    <2>1. \A i \in DOMAIN cols : IsSequence(f[i])
      BY ONLY <1>4
    <2> QED
      BY ONLY <1>1, <2>1, FlatMapped
  <1>6. \A i \in DOMAIN cols : \A st : st \in Range(f[i]) <=> ~HasName(t.columns, cols[i].name) /\ st = add(cols[i])
    BY ONLY <1>4
  <1>7. \A c : c \in Range(cols) <=> \E i \in DOMAIN cols : c = cols[i]
    BY ONLY <1>3
  <1>8. ASSUME NEW st \in Range(Flatten(f)) PROVE \E c \in Range(cols) : ~HasName(t.columns, c.name) /\ st = add(c)
    <2>1. PICK i \in DOMAIN cols : st \in Range(f[i])
      BY ONLY <1>5, <1>8
    <2>2. ~HasName(t.columns, cols[i].name) /\ st = add(cols[i]) /\ cols[i] \in Range(cols)
      BY ONLY <1>6, <1>7, <2>1
    <2> QED
      BY ONLY <2>2
  <1>9. ASSUME NEW c \in Range(cols) PROVE HasName(t.columns, c.name) \/ add(c) \in Range(Flatten(f))
    <2>1. PICK i \in DOMAIN cols : c = cols[i]
      BY ONLY <1>7, <1>9
    <2>2. HasName(t.columns, c.name) \/ add(c) \in Range(f[i])
      BY ONLY <1>6, <2>1
    <2> QED
      BY ONLY <1>5, <2>1, <2>2
  <1> QED
    BY ONLY <1>5, <1>8, <1>9

LEMMA DropsColumns ==
  ASSUME NEW sp, NEW t, IsTable(t), NEW g,
         g = [i \in DOMAIN t.columns |->
                IF HasName(sp.columns, t.columns[i].name) THEN <<>>
                ELSE <<[op |-> "dropColumn", arg |-> t.columns[i].name]>>]
  PROVE  ColumnsGone(sp, t, Flatten(g))
  <1> DEFINE drop(c) == [op |-> "dropColumn", arg |-> c.name]
             cols == t.columns
  <1>1. g = [i \in DOMAIN cols |-> g[i]] /\ IsSequence(cols)
    BY DEF IsTable
  <1>2. \A i \in DOMAIN cols : g[i] = IF HasName(sp.columns, cols[i].name) THEN <<>> ELSE <<drop(cols[i])>>
    OBVIOUS
  <1>3. Range(cols) = {cols[i] : i \in DOMAIN cols}
    BY DEF Range
  <1> SUFFICES /\ IsSequence(Flatten(g))
               /\ \A st \in Range(Flatten(g)) : \E c \in Range(cols) : ~HasName(sp.columns, c.name) /\ st = drop(c)
               /\ \A c \in Range(cols) : HasName(sp.columns, c.name) \/ drop(c) \in Range(Flatten(g))
    BY Zenon DEF ColumnsGone
  <1> HIDE DEF drop, cols
  <1>4. \A i \in DOMAIN cols : /\ IsSequence(g[i])
                               /\ Range(g[i]) = IF HasName(sp.columns, cols[i].name) THEN {} ELSE {drop(cols[i])}
    BY <1>2, Literals
  <1>5. /\ IsSequence(Flatten(g))
        /\ \A st : st \in Range(Flatten(g)) <=> \E i \in DOMAIN cols : st \in Range(g[i])
    <2>1. \A i \in DOMAIN cols : IsSequence(g[i])
      BY ONLY <1>4
    <2> QED
      BY ONLY <1>1, <2>1, FlatMapped
  <1>6. \A i \in DOMAIN cols : \A st : st \in Range(g[i]) <=> ~HasName(sp.columns, cols[i].name) /\ st = drop(cols[i])
    BY ONLY <1>4
  <1>7. \A c : c \in Range(cols) <=> \E i \in DOMAIN cols : c = cols[i]
    BY ONLY <1>3
  <1>8. ASSUME NEW st \in Range(Flatten(g)) PROVE \E c \in Range(cols) : ~HasName(sp.columns, c.name) /\ st = drop(c)
    <2>1. PICK i \in DOMAIN cols : st \in Range(g[i])
      BY ONLY <1>5, <1>8
    <2>2. ~HasName(sp.columns, cols[i].name) /\ st = drop(cols[i]) /\ cols[i] \in Range(cols)
      BY ONLY <1>6, <1>7, <2>1
    <2> QED
      BY ONLY <2>2
  <1>9. ASSUME NEW c \in Range(cols) PROVE HasName(sp.columns, c.name) \/ drop(c) \in Range(Flatten(g))
    <2>1. PICK i \in DOMAIN cols : c = cols[i]
      BY ONLY <1>7, <1>9
    <2>2. HasName(sp.columns, c.name) \/ drop(c) \in Range(g[i])
      BY ONLY <1>6, <2>1
    <2> QED
      BY ONLY <1>5, <2>1, <2>2
  <1> QED
    BY ONLY <1>5, <1>8, <1>9

\* A table that can be altered is altered to what the spec says.
LEMMA AlterConverges ==
  ASSUME NEW e \in SqliteLike, NEW sp, NEW t, IsTable(t), t.exists, Alterable(e, sp, t),
         NEW f, ColumnsAdded(e, sp, t, f), NEW x, IndexesPlanned(sp, t, x), NEW g, ColumnsGone(sp, t, g),
         NEW s, Idle(s)
  PROVE  Converges(e, sp, t, ((f \o x) \o g) \o s)
  <1> DEFINE q == ((f \o x) \o g) \o s
  <1>1. IsSequence(f) /\ IsSequence(x) /\ IsSequence(g) /\ IsSequence(s)
    BY DEF ColumnsAdded, IndexesPlanned, ColumnsGone, Idle
  <1>2. IsSequence(f \o x) /\ Range(f \o x) = Range(f) \cup Range(x)
    BY <1>1, Concatenated
  <1>3. IsSequence((f \o x) \o g) /\ Range((f \o x) \o g) = Range(f \o x) \cup Range(g)
    BY <1>1, <1>2, Concatenated
  <1>4. IsSequence(q) /\ Range(q) = Range((f \o x) \o g) \cup Range(s)
    BY <1>1, <1>3, Concatenated
  <1>5. Range(q) = Range(f) \cup Range(x) \cup Range(g) \cup Range(s)
    BY <1>2, <1>3, <1>4
  <1>6. /\ \A st \in Range(f) : IsStatement(st) /\ st.op = "addColumn" /\ \E c \in Range(sp.columns) : st.arg = Wanted(e, c)
        /\ \A st \in Range(g) : IsStatement(st) /\ st.op = "dropColumn" /\ ~HasName(sp.columns, st.arg)
    BY DEF ColumnsAdded, ColumnsGone, IsStatement
  <1>7. /\ \A st \in Range(x) : IsStatement(st) /\ st.op \in {"addIndex", "dropIndex", "dropIndexIfExists"}
        /\ \A st \in Range(s) : IsStatement(st) /\ st.op \in IdleOps
    BY DEF IndexesPlanned, Idle
  <1>8. Followed(q, IndexSwaps(sp))
    <2>1. Followed(x, IndexSwaps(sp))
      BY DEF IndexesPlanned
    <2>2. \A p \in IndexSwaps(sp) : p[1] \notin Range(f) /\ p[1] \notin Range(g) /\ p[1] \notin Range(s)
      BY <1>6, <1>7, Swaps DEF IdleOps
    <2>3. Followed(f, IndexSwaps(sp)) /\ Followed(g, IndexSwaps(sp)) /\ Followed(s, IndexSwaps(sp))
      BY <2>2, FollowedNone
    <2>4. Followed(f \o x, IndexSwaps(sp))
      BY <1>1, <2>1, <2>3, FollowedConcat
    <2>5. Followed((f \o x) \o g, IndexSwaps(sp))
      BY <1>1, <1>2, <2>3, <2>4, FollowedConcat
    <2> QED
      BY <1>1, <1>3, <2>3, <2>5, FollowedConcat
  <1> HIDE DEF q
  <1>9. ColumnsConverge(e, sp, t, q)
    <2>1. ASSUME NEW c \in Range(t.columns)
          PROVE  \/ HasName(sp.columns, c.name) /\ ColumnFits(e, sp, c)
                 \/ ~HasName(sp.columns, c.name) /\ [op |-> "dropColumn", arg |-> c.name] \in Range(q)
      BY <1>5 DEF Alterable, ColumnsGone
    <2>2. ASSUME NEW c \in Range(sp.columns)
          PROVE  HasName(t.columns, c.name) \/ [op |-> "addColumn", arg |-> Wanted(e, c)] \in Range(q)
      BY <1>5 DEF ColumnsAdded
    <2>3. ASSUME NEW st \in Range(q)
          PROVE  /\ st.op = "addColumn" => \E c \in Range(sp.columns) : st.arg = Wanted(e, c)
                 /\ st.op = "dropColumn" => ~HasName(sp.columns, st.arg)
      BY <1>5, <1>6, <1>7 DEF IdleOps
    <2> QED
      BY <2>1, <2>2, <2>3 DEF ColumnsConverge
  <1>10. IndexesConverge(sp, t, q)
    <2>1. ASSUME NEW d \in Range(sp.indexes)
          PROVE  \/ \E c \in Range(t.indexes) : IndexEquals(c, NamedIndex(d))
                 \/ [op |-> "addIndex", arg |-> NamedIndex(d)] \in Range(q)
      BY <1>5 DEF IndexesPlanned
    <2>2. ASSUME NEW c \in Range(t.indexes)
          PROVE  /\ IndexNamed(sp, c.name) \/ \E st \in Range(q) : DropsIndex(st) /\ st.arg = c.name
                 /\ c.constraint => \E d \in Range(sp.indexes) : IndexEquals(c, NamedIndex(d))
      BY <1>5 DEF IndexesPlanned, Alterable
    <2>3. ASSUME NEW st \in Range(q), st.op = "addIndex" PROVE \E d \in Range(sp.indexes) : st.arg = NamedIndex(d)
      <3>1. st \in Range(x)
        BY <1>5, <1>6, <1>7, <2>3 DEF IdleOps
      <3> QED
        BY <2>3, <3>1 DEF IndexesPlanned
    <2> QED
      BY <1>8, <2>1, <2>2, <2>3 DEF IndexesConverge
  <1>11. \A st \in Range(q) : IsStatement(st) /\ st.op \in SqliteOps
    BY <1>5, <1>6, <1>7 DEF SqliteOps
  <1>12. SameColumns(t.primaryKey, sp.primaryKey) /\ t.foreignKeys = <<>> /\ e # "cassandra"
    BY DEF Alterable, SqliteLike
  <1>13. Converges(e, sp, t, q)
    BY <1>4, <1>9, <1>10, <1>11, <1>12 DEF Converges
  <1> QED
    BY <1>13 DEF q

\* Nothing but the seed rows is planned for a table that is as the spec says.
LEMMA AlterIsDone ==
  ASSUME NEW e \in SqliteLike, NEW sp, NEW t, Converges(e, sp, t, <<>>),
         NEW f, ColumnsAdded(e, sp, t, f), NEW x, IndexesPlanned(sp, t, x), NEW g, ColumnsGone(sp, t, g),
         NEW s, IsSequence(s)
  PROVE  Alterable(e, sp, t) /\ \A st \in Range(((f \o x) \o g) \o s) : st \in Range(s)
  <1>1. IsSequence(f) /\ IsSequence(x) /\ IsSequence(g)
    BY DEF ColumnsAdded, IndexesPlanned, ColumnsGone
  <1>2. IsSequence(f \o x) /\ Range(f \o x) = Range(f) \cup Range(x)
    BY <1>1, Concatenated
  <1>3. IsSequence((f \o x) \o g) /\ Range((f \o x) \o g) = Range(f \o x) \cup Range(g)
    BY <1>1, <1>2, Concatenated
  <1>4. Range(((f \o x) \o g) \o s) = Range((f \o x) \o g) \cup Range(s)
    BY <1>3, Concatenated
  <1>5. Range(<<>>) = {}
    BY Literals
  <1>6. e # "cassandra"
    BY DEF SqliteLike
  <1>7. /\ SameColumns(t.primaryKey, sp.primaryKey) /\ t.foreignKeys = <<>>
        /\ \A c \in Range(t.columns) : HasName(sp.columns, c.name) /\ ColumnFits(e, sp, c)
        /\ \A c \in Range(sp.columns) : HasName(t.columns, c.name)
        /\ \A d \in Range(sp.indexes) : \E c \in Range(t.indexes) : IndexEquals(c, NamedIndex(d))
        /\ \A c \in Range(t.indexes) : /\ IndexNamed(sp, c.name)
                                       /\ c.constraint => \E d \in Range(sp.indexes) : IndexEquals(c, NamedIndex(d))
    BY <1>5, <1>6 DEF Converges, ColumnsConverge, IndexesConverge
  <1>8. Range(f) = {} /\ Range(g) = {}
    BY <1>7 DEF ColumnsAdded, ColumnsGone
  <1>9. Range(x) = {}
    BY <1>7 DEF IndexesPlanned
  <1>10. Alterable(e, sp, t)
    BY <1>7 DEF Alterable
  <1> QED
    BY <1>2, <1>3, <1>4, <1>8, <1>9, <1>10

\* A plan of sqlite or rqlite: the table is dropped, made, altered, or copied into a new one.
PlanParts(e, sp, t, q, create, recreate, f, x, g, s) ==
  /\ Idle(s) /\ \A st \in Range(s) : IsSeed(sp, st)
  /\ ColumnsAdded(e, sp, t, f) /\ IndexesPlanned(sp, t, x) /\ ColumnsGone(sp, t, g)
  /\ Makes(e, sp, create \o s)
  /\ IF e = "sqlite" THEN Begins(e, sp, recreate \o s) ELSE Renames(e, sp, recreate \o s)
  /\ q = IF sp.isDeleted THEN (IF t.exists THEN <<[op |-> "dropTable", arg |-> ""]>> ELSE <<>>)
         ELSE (IF t.exists THEN (IF Alterable(e, sp, t) THEN (f \o x) \o g ELSE recreate) ELSE create) \o s

Planned(e, sp, t, q) ==
  \E create, recreate, f, x, g, s : PlanParts(e, sp, t, q, create, recreate, f, x, g, s)

LEMMA SeedsIdle ==
  ASSUME NEW sp, NEW s, s = IF sp.seedData THEN <<[op |-> "seed", arg |-> "key"]>> ELSE <<>>
  PROVE  Idle(s) /\ \A st \in Range(s) : IsSeed(sp, st)
  <1> DEFINE a == [op |-> "seed", arg |-> "key"]
  <1>1. IsStatement(a) /\ a.op = "seed" /\ a.op \in IdleOps
    BY DEF IsStatement, IdleOps
  <1>2. s = IF sp.seedData THEN <<a>> ELSE <<>>
    OBVIOUS
  <1> HIDE DEF a
  <1>3. IsSequence(s) /\ (Range(s) = {a} \/ Range(s) = {})
    BY ONLY <1>2, Literals
  <1> QED
    BY <1>1, <1>2, <1>3, Literals DEF Idle, IsSeed

LEMMA SqlitePlanned ==
  ASSUME NEW sp, IsSpec(sp), sp.hasSchema, Settles("sqlite", sp), NEW t, IsTable(t)
  PROVE  Planned("sqlite", sp, t, SQ!PlanSqliteTable(sp, t).statements)
  <1> DEFINE e == "sqlite"
             s == SQ!SeedDataStatements(sp)
             create == SQ!CreateTableStatements(sp)
             recreate == SQ!RecreateTableStatements(sp)
             x == SQ!BuildAlterIndexStatements(sp, t)
             f == [i \in DOMAIN sp.columns |->
                     IF HasName(t.columns, sp.columns[i].name) THEN <<>>
                     ELSE <<[op |-> "addColumn", arg |-> Wanted(e, sp.columns[i])]>>]
             g == [i \in DOMAIN t.columns |->
                     IF HasName(sp.columns, t.columns[i].name) THEN <<>>
                     ELSE <<[op |-> "dropColumn", arg |-> t.columns[i].name]>>]
             alter == SQ!AlterTableStatements(sp, t)
             body == SQ!buildStatements(sp, t)
             dropping == IF t.exists THEN <<SQ!Statement("dropTable", "")>> ELSE <<>>
             q == IF sp.isDeleted THEN dropping ELSE (IF t.exists THEN body ELSE create) \o s
             result == SQ!PlanSqliteTable(sp, t)
  <1>0. e \in SqliteLike /\ SeenAs(e, sp, sp) /\ SettlesInSqlite(sp) /\ sp.foreignKeys = <<>>
    <2>1. e \in SqliteLike
      BY DEF SqliteLike
    <2>2. SettlesInSqlite(sp) /\ sp.foreignKeys = <<>>
      BY <2>1 DEF Settles, SettlesInSqlite
    <2>3. SeenAs(e, sp, sp)
      BY <2>1, SpecSeen DEF SeenSpec
    <2> QED
      BY <2>1, <2>2, <2>3
  <1>1. result.statements = q
    <2>1. result = SQ!Result(q)
      BY DEF SQ!PlanSqliteTable
    <2> HIDE DEF result, q
    <2> QED
      BY <2>1 DEF SQ!Result
  <1>2. Idle(s) /\ \A st \in Range(s) : IsSeed(sp, st)
    BY SQSeeds, SeedsIdle
  <1>3. body = IF Alterable(e, sp, t) THEN alter ELSE recreate
    <2>1. body = IF SQ!checkTableNeedsRecreate(sp, t) THEN recreate ELSE alter
      BY DEF SQ!buildStatements
    <2>2. SQ!checkTableNeedsRecreate(sp, t) <=> ~Alterable(e, sp, t)
      BY <1>0, Recreates
    <2> HIDE DEF body, alter, recreate
    <2> QED
      BY <2>1, <2>2
  <1>4. alter = (Flatten(f) \o x) \o Flatten(g)
    <2>1. \A c : Wanted(e, c) = c
      BY DEF Wanted
    <2> QED
      BY <2>1, SQSame DEF SQ!AlterTableStatements, SQ!FlatMap, SQ!InsertColumnStatement, SQ!DropColumnStatement,
                          SQ!schemaColumnToColumn
  <1>5. ColumnsAdded(e, sp, t, Flatten(f)) /\ ColumnsGone(sp, t, Flatten(g))
    BY AddsColumns, DropsColumns, Zenon
  <1>6. IndexesPlanned(sp, t, x)
    BY <1>0, IndexesArePlanned
  <1>7. Makes(e, sp, create \o s)
    <2>1. PICK first, indexes : NewFor(e, sp, create, first, indexes)
      BY <1>0, NewTableFor
    <2> HIDE DEF create, s
    <2> QED
      BY <1>0, <1>2, <2>1, NewTableMade
  <1>8. Begins(e, sp, recreate \o s)
    BY <1>2, RecreateBegins
  <1>9. dropping = IF t.exists THEN <<[op |-> "dropTable", arg |-> ""]>> ELSE <<>>
    BY SQSame
  <1> DEFINE F == Flatten(f)  G == Flatten(g)
  <1> HIDE DEF s, create, recreate, alter, body, dropping, result, x, f, g
  <1>10. q = IF sp.isDeleted THEN (IF t.exists THEN <<[op |-> "dropTable", arg |-> ""]>> ELSE <<>>)
             ELSE (IF t.exists THEN (IF Alterable(e, sp, t) THEN (F \o x) \o G ELSE recreate) ELSE create) \o s
    BY <1>3, <1>4, <1>9, Zenon
  <1> HIDE DEF q, F, G
  <1>11. PlanParts(e, sp, t, q, create, recreate, F, x, G, s)
    BY <1>2, <1>5, <1>6, <1>7, <1>8, <1>10, Zenon DEF PlanParts, F, G
  <1> QED
    BY <1>1, <1>11, Zenon DEF Planned, result

LEMMA RqlitePlanned ==
  ASSUME NEW sp, IsSpec(sp), sp.hasSchema, Settles("rqlite", sp), NEW t, IsTable(t)
  PROVE  Planned("rqlite", sp, t, RQ!PlanRqliteTable(sp, t).statements)
  <1> DEFINE e == "rqlite"
             o == RQ!Decoded(sp)
             s == RQ!SeedDataStatements(sp)
             create == RQ!CreateTableStatements(sp)
             recreate == RQ!RecreateTableStatements(sp)
             x == RQ!BuildAlterIndexStatements(sp, t)
             f == [i \in DOMAIN sp.columns |->
                     IF HasName(t.columns, sp.columns[i].name) THEN <<>>
                     ELSE <<[op |-> "addColumn", arg |-> Wanted(e, sp.columns[i])]>>]
             g == [i \in DOMAIN t.columns |->
                     IF HasName(sp.columns, t.columns[i].name) THEN <<>>
                     ELSE <<[op |-> "dropColumn", arg |-> t.columns[i].name]>>]
             alter == RQ!AlterTableStatements(sp, t)
             body == RQ!buildStatements(sp, t)
             dropping == IF t.exists THEN <<RQ!Statement("dropTable", "")>> ELSE <<>>
             q == IF sp.isDeleted THEN dropping ELSE (IF t.exists THEN body ELSE create) \o s
             result == RQ!PlanRqliteTable(sp, t)
  <1>0. e \in SqliteLike /\ SeenAs(e, sp, o) /\ SettlesInSqlite(sp) /\ sp.foreignKeys = <<>>
    <2>1. e \in SqliteLike
      BY DEF SqliteLike
    <2>2. SettlesInSqlite(sp) /\ sp.foreignKeys = <<>>
      BY <2>1 DEF Settles, SettlesInSqlite
    <2>3. o = SeenSpec(e, sp)
      BY DEF SeenSpec
    <2>4. SeenAs(e, sp, o)
      BY <2>1, <2>3, SpecSeen
    <2> QED
      BY <2>1, <2>2, <2>4
  <1>1. result.statements = q
    <2>1. result = RQ!Result(q)
      BY DEF RQ!PlanRqliteTable
    <2> HIDE DEF result, q
    <2> QED
      BY <2>1 DEF RQ!Result
  <1>2. Idle(s) /\ \A st \in Range(s) : IsSeed(sp, st)
    BY SQSeeds, RQSqlite, SeedsIdle DEF RQ!SeedDataStatements
  <1>3. body = IF Alterable(e, sp, t) THEN alter ELSE recreate
    <2>1. body = IF RQ!SQ!checkTableNeedsRecreate(o, t) THEN recreate ELSE alter
      BY DEF RQ!buildStatements, RQ!checkTableNeedsRecreate
    <2> HIDE DEF o
    <2>2. RQ!SQ!checkTableNeedsRecreate(o, t) <=> ~Alterable(e, sp, t)
      BY <1>0, Recreates, RQRecreates
    <2> HIDE DEF body, alter, recreate
    <2> QED
      BY <2>1, <2>2
  <1>4. alter = (Flatten(f) \o x) \o Flatten(g)
    <2>1. \A c : RQ!InsertColumnStatement(c) = [op |-> "addColumn", arg |-> Wanted(e, c)]
      BY RQSqlite, SQSame DEF RQ!InsertColumnStatement, SQ!InsertColumnStatement, SQ!schemaColumnToColumn, Wanted
    <2>2. \A n : RQ!DropColumnStatement(n) = [op |-> "dropColumn", arg |-> n]
      BY RQSqlite, SQSame DEF RQ!DropColumnStatement, SQ!DropColumnStatement
    <2> HIDE DEF x
    <2> QED
      BY <2>1, <2>2, RQSame DEF RQ!AlterTableStatements, RQ!FlatMap, x
  <1>5. ColumnsAdded(e, sp, t, Flatten(f)) /\ ColumnsGone(sp, t, Flatten(g))
    BY AddsColumns, DropsColumns, Zenon
  <1>6. IndexesPlanned(sp, t, x)
    <2>1. x = SQ!BuildAlterIndexStatements(sp, t)
      BY RQSqlite DEF RQ!BuildAlterIndexStatements
    <2> HIDE DEF x
    <2> QED
      BY <1>0, <2>1, IndexesArePlanned
  <1>7. create = SQ!CreateTableStatements(o) /\ recreate = SQ!CopyTableStatements(o)
    BY RQSqlite DEF RQ!CreateTableStatements, RQ!RecreateTableStatements
  <1> HIDE DEF o
  <1>8. Makes(e, sp, create \o s)
    <2> HIDE DEF create, s
    <2>1. PICK first, indexes : NewFor(e, sp, create, first, indexes)
      BY <1>0, <1>7, NewTableFor
    <2> QED
      BY <1>0, <1>2, <2>1, NewTableMade
  <1>9. Renames(e, sp, recreate \o s)
    <2> HIDE DEF recreate, s
    <2> QED
      BY <1>0, <1>2, <1>7, CopyRenames
  <1>10. dropping = IF t.exists THEN <<[op |-> "dropTable", arg |-> ""]>> ELSE <<>>
    BY RQSame
  <1> DEFINE F == Flatten(f)  G == Flatten(g)
  <1> HIDE DEF s, create, recreate, alter, body, dropping, result, x, f, g
  <1>11. q = IF sp.isDeleted THEN (IF t.exists THEN <<[op |-> "dropTable", arg |-> ""]>> ELSE <<>>)
             ELSE (IF t.exists THEN (IF Alterable(e, sp, t) THEN (F \o x) \o G ELSE recreate) ELSE create) \o s
    BY <1>3, <1>4, <1>10, Zenon
  <1>12. e # "sqlite"
    OBVIOUS
  <1> HIDE DEF q, F, G, e
  <1>13. PlanParts(e, sp, t, q, create, recreate, F, x, G, s)
    BY <1>2, <1>5, <1>6, <1>8, <1>9, <1>11, <1>12, Zenon DEF PlanParts, F, G
  <1> QED
    BY <1>1, <1>13, Zenon DEF Planned, result, e

\* A plan has everything that is to be done, and one for a table with nothing left to do
\* has only the seed rows.
Plans(e, sp, t, q) ==
  /\ Underway(e, sp, t, q)
  /\ Underway(e, sp, t, <<>>) => \A i \in DOMAIN q : IsSeed(sp, q[i])

LEMMA OnlySeeds ==
  ASSUME NEW sp, NEW q, \A st \in Range(q) : IsSeed(sp, st)
  PROVE  \A i \in DOMAIN q : IsSeed(sp, q[i])
  BY DEF Range

LEMMA NothingInFlight ==
  ASSUME NEW e, NEW sp, NEW t
  PROVE  /\ InFlight(e, sp, t, <<>>) => Converges(e, sp, t, <<>>)
         /\ Leaves(t, <<>>) => ~t.exists
  <1>1. \A a : <<a>> # <<>>
    OBVIOUS
  <1> QED
    BY <1>1, Zenon DEF InFlight, Makes, Renames, Begins, Leaves

LEMMA DropLeaves ==
  ASSUME NEW e, NEW sp, sp.isDeleted, NEW t, NEW q,
         q = IF t.exists THEN <<[op |-> "dropTable", arg |-> ""]>> ELSE <<>>
  PROVE  Plans(e, sp, t, q) \/ ~sp.hasSchema
  <1> SUFFICES ASSUME sp.hasSchema PROVE Plans(e, sp, t, q)
    OBVIOUS
  <1>1. Leaves(t, q)
    BY Zenon DEF Leaves
  <1>2. Underway(e, sp, t, q)
    BY <1>1 DEF Underway
  <1>3. ASSUME Underway(e, sp, t, <<>>) PROVE \A i \in DOMAIN q : IsSeed(sp, q[i])
    <2>1. ~t.exists
      BY <1>3, NothingInFlight DEF Underway
    <2>2. q = <<>>
      BY <2>1
    <2> QED
      BY ONLY <2>2
  <1> QED
    BY <1>2, <1>3 DEF Plans

LEMMA PlannedPlans ==
  ASSUME NEW e \in SqliteLike, NEW sp, sp.hasSchema, NEW t, IsTable(t), NEW q, Planned(e, sp, t, q)
  PROVE  Plans(e, sp, t, q)
  <1>0. PICK create, recreate, f, x, g, s : PlanParts(e, sp, t, q, create, recreate, f, x, g, s)
    BY DEF Planned
  <1> DEFINE alter == (f \o x) \o g
             whole == (IF t.exists THEN (IF Alterable(e, sp, t) THEN alter ELSE recreate) ELSE create) \o s
             drop == IF t.exists THEN <<[op |-> "dropTable", arg |-> ""]>> ELSE <<>>
  <1>1. /\ Idle(s) /\ \A st \in Range(s) : IsSeed(sp, st)
        /\ ColumnsAdded(e, sp, t, f) /\ IndexesPlanned(sp, t, x) /\ ColumnsGone(sp, t, g)
        /\ Makes(e, sp, create \o s)
        /\ IF e = "sqlite" THEN Begins(e, sp, recreate \o s) ELSE Renames(e, sp, recreate \o s)
        /\ q = IF sp.isDeleted THEN drop ELSE whole
    BY <1>0, Zenon DEF PlanParts
  <1>2. CASE sp.isDeleted
    <2>1. q = drop
      BY <1>1, <1>2, Zenon
    <2> QED
      BY <1>2, <2>1, DropLeaves, Zenon
  <1>3. CASE ~sp.isDeleted /\ ~t.exists
    <2>1. q = create \o s
      BY <1>1, <1>3, Zenon
    <2>2. Makes(e, sp, q)
      BY <1>1, <2>1, Zenon
    <2>3. Underway(e, sp, t, q)
      BY <1>3, <2>2 DEF Underway, InFlight
    <2>4. ~Underway(e, sp, t, <<>>)
      BY <1>3, NothingInFlight DEF Underway, Converges
    <2> QED
      BY <2>3, <2>4 DEF Plans
  <1>4. CASE ~sp.isDeleted /\ t.exists /\ Alterable(e, sp, t)
    <2>1. q = alter \o s
      BY <1>1, <1>4, Zenon
    <2>2. Converges(e, sp, t, alter \o s)
      BY <1>1, <1>4, AlterConverges
    <2>3. Underway(e, sp, t, q)
      BY <1>4, <2>1, <2>2, Zenon DEF Underway, InFlight
    <2>4. ASSUME Underway(e, sp, t, <<>>) PROVE \A i \in DOMAIN q : IsSeed(sp, q[i])
      <3>1. Converges(e, sp, t, <<>>)
        BY <1>4, <2>4, NothingInFlight DEF Underway
      <3>2. \A st \in Range(alter \o s) : st \in Range(s)
        BY <1>1, <3>1, AlterIsDone DEF Idle
      <3>3. \A st \in Range(q) : IsSeed(sp, st)
        BY <1>1, <2>1, <3>2, Zenon
      <3> QED
        BY <3>3, OnlySeeds
    <2> QED
      BY <2>3, <2>4 DEF Plans
  <1>5. CASE ~sp.isDeleted /\ t.exists /\ ~Alterable(e, sp, t)
    <2>1. q = recreate \o s
      BY <1>1, <1>5, Zenon
    <2>2. IF e = "sqlite" THEN Begins(e, sp, q) ELSE Renames(e, sp, q)
      BY <1>1, <2>1, Zenon
    <2>3. Underway(e, sp, t, q)
      BY <1>5, <2>2 DEF Underway, InFlight
    <2>4. ASSUME Underway(e, sp, t, <<>>) PROVE FALSE
      <3>1. Converges(e, sp, t, <<>>)
        BY <1>5, <2>4, NothingInFlight DEF Underway
      <3> QED
        BY <1>1, <1>5, <3>1, AlterIsDone DEF Idle
    <2> QED
      BY <2>3, <2>4 DEF Plans
  <1> QED
    BY <1>2, <1>3, <1>4, <1>5

-----------------------------------------------------------------------------
(* The plans of cassandra.                                                 *)

LEMMA CSCompares ==
  /\ \A s, n : CS!ByName(s, n) = ByName(s, n)
  /\ CS!NoValue = NoValue
  BY Zenon DEF CS!ByName, ByName, CS!NoValue, NoValue

\* What is planned for the columns a table has.
ColumnsEdited(sp, t, q) ==
  /\ IsSequence(q)
  /\ \A st \in Range(q) :
       /\ IsStatement(st)
       /\ st.op = "alterType" \/ (st.op = "dropColumn" /\ ~HasName(sp.columns, st.arg))
  /\ \A c \in Range(t.columns) :
       \/ HasName(sp.columns, c.name) /\ ColumnFits("cassandra", sp, c)
       \/ ~HasName(sp.columns, c.name) /\ [op |-> "dropColumn", arg |-> c.name] \in Range(q)
       \/ \E st \in Range(q) : st.op = "alterType"
  /\ (\A c \in Range(t.columns) : HasName(sp.columns, c.name) /\ ColumnFits("cassandra", sp, c)) => Range(q) = {}

LEMMA ColumnEdited ==
  ASSUME NEW sp, IsSpec(sp), \A c \in Range(sp.columns) : IsColumn(c), NEW c, "name" \in DOMAIN c, NEW q,
         q = CS!AlterColumnStatements(sp, CS!ExistingColumn(c))
  PROVE  /\ IsSequence(q)
         /\ \A st \in Range(q) :
              /\ IsStatement(st)
              /\ st.op = "alterType" \/ (st.op = "dropColumn" /\ ~HasName(sp.columns, st.arg))
         /\ \/ HasName(sp.columns, c.name) /\ ColumnFits("cassandra", sp, c) /\ Range(q) = {}
            \/ ~HasName(sp.columns, c.name) /\ [op |-> "dropColumn", arg |-> c.name] \in Range(q)
            \/ HasName(sp.columns, c.name) /\ ~ColumnFits("cassandra", sp, c) /\ \E st \in Range(q) : st.op = "alterType"
  <1> DEFINE existing == CS!ExistingColumn(c)
             wanted == ByName(sp.columns, c.name)
             column == CS!schemaColumnToColumn(wanted)
             drop == [op |-> "dropColumn", arg |-> c.name]
             retype == [op |-> "alterType", arg |-> [name |-> column.name, type |-> column.type]]
             known == HasName(sp.columns, c.name)
             differs == ~CS!columnsMatch(existing, column) /\ existing.type # column.type
  <1>1. existing.name = c.name
    BY DEF CS!ExistingColumn
  <1>2. q = CASE ~known -> <<drop>> [] known /\ differs -> <<retype>> [] OTHER -> <<>>
    <2> HIDE DEF existing
    <2>1. q = CS!AlterColumnStatements(sp, existing)
      BY DEF existing
    <2>2. CS!ByName(sp.columns, existing.name) = wanted /\ CS!HasName(sp.columns, existing.name) = known
      BY <1>1, CSSame, CSCompares
    <2> QED
      BY <1>1, <2>1, <2>2, CSSame, Zenon DEF CS!AlterColumnStatements
  <1>3. IsStatement(drop) /\ drop.op = "dropColumn" /\ drop.arg = c.name /\ IsStatement(retype) /\ retype.op = "alterType"
    <2> HIDE DEF column
    <2> QED
      BY DEF IsStatement
  <1>4. known => (differs <=> ~ColumnFits("cassandra", sp, c))
    <2> SUFFICES ASSUME known PROVE differs <=> ~ColumnFits("cassandra", sp, c)
      OBVIOUS
    <2>1. wanted \in Range(sp.columns)
      BY Found DEF IsSpec
    <2>2. "type" \in DOMAIN wanted
      BY <2>1, ColumnFields
    <2> HIDE DEF wanted
    <2>3. column.type = CS!unaliasUnparameterizedColumnType(wanted.type)
      BY <2>2 DEF CS!schemaColumnToColumn
    <2> HIDE DEF column, existing
    <2>4. differs <=> existing.type # column.type
      BY DEF CS!columnsMatch
    <2> QED
      BY <2>3, <2>4 DEF ColumnFits, existing, wanted
  <1> HIDE DEF existing, wanted, column, drop, retype, known, differs
  <1>5. CASE ~known
    <2>1. q = <<drop>>
      BY <1>2, <1>5, Zenon
    <2>2. IsSequence(q) /\ Range(q) = {drop}
      BY ONLY <2>1, Literals
    <2>3. /\ IsStatement(drop) /\ drop.op = "dropColumn" /\ ~HasName(sp.columns, drop.arg)
          /\ [op |-> "dropColumn", arg |-> c.name] \in Range(q)
      BY <1>3, <1>5, <2>2 DEF known, drop
    <2> QED
      BY <1>5, <2>2, <2>3 DEF known
  <1>6. CASE known /\ differs
    <2>1. q = <<retype>>
      BY <1>2, <1>6, Zenon
    <2>2. IsSequence(q) /\ Range(q) = {retype}
      BY ONLY <2>1, Literals
    <2> QED
      BY <1>3, <1>4, <1>6, <2>2 DEF known
  <1>7. CASE known /\ ~differs
    <2>1. q = <<>>
      BY <1>2, <1>7, Zenon
    <2>2. IsSequence(q) /\ Range(q) = {}
      BY ONLY <2>1, Literals
    <2> QED
      BY <1>4, <1>7, <2>2 DEF known
  <1> QED
    BY <1>5, <1>6, <1>7

LEMMA ColumnsAreEdited ==
  ASSUME NEW sp, IsSpec(sp), \A c \in Range(sp.columns) : IsColumn(c), NEW t, IsTable(t), NEW f,
         f = [i \in DOMAIN t.columns |-> CS!AlterColumnStatements(sp, CS!ExistingColumn(t.columns[i]))]
  PROVE  ColumnsEdited(sp, t, Flatten(f))
  <1> DEFINE cols == t.columns
             q == Flatten(f)
             drop(c) == [op |-> "dropColumn", arg |-> c.name]
             fits(c) == HasName(sp.columns, c.name) /\ ColumnFits("cassandra", sp, c)
             good(st) == /\ IsStatement(st)
                         /\ st.op = "alterType" \/ (st.op = "dropColumn" /\ ~HasName(sp.columns, st.arg))
  <1>1. f = [i \in DOMAIN cols |-> f[i]] /\ IsSequence(cols) /\ \A i \in DOMAIN cols : cols[i] \in Range(cols)
    BY SequenceDomain DEF IsTable
  <1>2. ASSUME NEW i \in DOMAIN cols
        PROVE  /\ IsSequence(f[i]) /\ \A st \in Range(f[i]) : good(st)
               /\ \/ fits(cols[i]) /\ Range(f[i]) = {}
                  \/ ~HasName(sp.columns, cols[i].name) /\ drop(cols[i]) \in Range(f[i])
                  \/ ~fits(cols[i]) /\ \E st \in Range(f[i]) : st.op = "alterType"
    <2> DEFINE c == cols[i]
               r == f[i]
    <2>1. "name" \in DOMAIN c
      BY <1>1 DEF IsTable
    <2>2. r = CS!AlterColumnStatements(sp, CS!ExistingColumn(c))
      OBVIOUS
    <2> SUFFICES /\ IsSequence(r) /\ \A st \in Range(r) : good(st)
                 /\ \/ fits(c) /\ Range(r) = {}
                    \/ ~HasName(sp.columns, c.name) /\ drop(c) \in Range(r)
                    \/ ~fits(c) /\ \E st \in Range(r) : st.op = "alterType"
      OBVIOUS
    <2> HIDE DEF c, r
    <2>3. /\ IsSequence(r)
          /\ \A st \in Range(r) :
               /\ IsStatement(st)
               /\ st.op = "alterType" \/ (st.op = "dropColumn" /\ ~HasName(sp.columns, st.arg))
          /\ \/ HasName(sp.columns, c.name) /\ ColumnFits("cassandra", sp, c) /\ Range(r) = {}
             \/ ~HasName(sp.columns, c.name) /\ [op |-> "dropColumn", arg |-> c.name] \in Range(r)
             \/ HasName(sp.columns, c.name) /\ ~ColumnFits("cassandra", sp, c) /\ \E st \in Range(r) : st.op = "alterType"
      BY <2>1, <2>2, ColumnEdited, Zenon
    <2> QED
      BY ONLY <2>3, Zenon DEF good, fits, drop
  <1> SUFFICES /\ IsSequence(q) /\ \A st \in Range(q) : good(st)
               /\ \A c \in Range(cols) : \/ fits(c)
                                         \/ ~HasName(sp.columns, c.name) /\ drop(c) \in Range(q)
                                         \/ \E st \in Range(q) : st.op = "alterType"
               /\ (\A c \in Range(cols) : fits(c)) => Range(q) = {}
    BY Zenon DEF ColumnsEdited
  <1> HIDE DEF cols, drop, fits, good
  <1>3. /\ IsSequence(q)
        /\ \A st : st \in Range(q) <=> \E i \in DOMAIN cols : st \in Range(f[i])
    <2>1. \A i \in DOMAIN cols : IsSequence(f[i])
      BY ONLY <1>2
    <2> QED
      BY ONLY <1>1, <2>1, FlatMapped
  <1> HIDE DEF q
  <1>4. ASSUME NEW st \in Range(q) PROVE good(st)
    BY ONLY <1>2, <1>3, <1>4
  <1>5. ASSUME NEW c \in Range(cols)
        PROVE  \/ fits(c)
               \/ ~HasName(sp.columns, c.name) /\ drop(c) \in Range(q)
               \/ \E st \in Range(q) : st.op = "alterType"
    <2>1. PICK i \in DOMAIN cols : c = cols[i]
      BY <1>5 DEF Range
    <2>2. \/ fits(c)
          \/ ~HasName(sp.columns, c.name) /\ drop(c) \in Range(f[i])
          \/ \E st \in Range(f[i]) : st.op = "alterType"
      BY ONLY <1>2, <2>1
    <2>3. \A st \in Range(f[i]) : st \in Range(q)
      BY ONLY <1>3, <2>1
    <2> QED
      BY ONLY <2>2, <2>3
  <1>6. ASSUME \A c \in Range(cols) : fits(c) PROVE Range(q) = {}
    <2>1. ASSUME NEW st \in Range(q) PROVE FALSE
      <3>1. PICK i \in DOMAIN cols : st \in Range(f[i])
        BY ONLY <1>3, <2>1
      <3>2. fits(cols[i]) /\ HasName(sp.columns, cols[i].name)
        BY <1>1, <1>6 DEF fits
      <3> QED
        BY ONLY <1>2, <3>1, <3>2
    <2> QED
      BY ONLY <2>1
  <1> QED
    BY ONLY <1>3, <1>4, <1>5, <1>6

LEMMA PropertiesPlanned ==
  ASSUME NEW sp, NEW t
  PROVE  CS!buildPropertiesStatements(sp, t) =
           IF sp.properties = NoValue \/ Changed(sp, t) = {} THEN <<>>
           ELSE <<[op |-> "alterProperties", arg |-> Changes(sp, Changed(sp, t))]>>
  <1> DEFINE current(p) == CASE p \in CS!Chances \cup CS!Maps \cup {"comment"} ->
                                  CS!Printed(p, CS!ValueIn(t.properties[1], p))
                             [] OTHER -> CS!Unset(p)
             changed == {p \in CS!Chances \cup CS!Maps \cup {"comment"} \cup CS!Numbers \cup CS!Words :
                           current(p) # CS!ValueIn(sp.properties[1], p)}
             arg == {[property |-> p, as |-> CS!AlteredAs(p), value |-> CS!ValueIn(sp.properties[1], p)] : p \in changed}
  <1>1. CS!buildPropertiesStatements(sp, t) =
          IF sp.properties = CS!NoValue \/ changed = {} THEN <<>>
          ELSE <<CS!Statement("alterProperties", arg)>>
    BY Zenon DEF CS!buildPropertiesStatements
  <1>2. \A p : current(p) = CurrentProperty(t, p)
    <2> SUFFICES ASSUME NEW p PROVE current(p) = CurrentProperty(t, p)
      OBVIOUS
    <2>1. ReadProperties = CS!Chances \cup CS!Maps \cup {"comment"}
      BY DEF ReadProperties
    <2>2. CASE p \in ReadProperties
      BY <2>1, <2>2, Zenon DEF CurrentProperty
    <2>3. CASE p \notin ReadProperties
      BY <2>1, <2>3, Zenon DEF CurrentProperty
    <2> QED
      BY <2>2, <2>3
  <1> HIDE DEF current
  <1>3. changed = Changed(sp, t)
    BY <1>2 DEF Changed, PropertyNames, ReadProperties
  <1> HIDE DEF changed
  <1>4. arg = Changes(sp, Changed(sp, t))
    BY <1>3, Zenon DEF Changes
  <1> HIDE DEF arg
  <1>5. CS!Statement("alterProperties", arg) = [op |-> "alterProperties", arg |-> Changes(sp, Changed(sp, t))]
    BY <1>4, CSSame
  <1> QED
    BY <1>1, <1>3, <1>5, CSCompares, Zenon

LEMMA PropertiesDue ==
  ASSUME NEW sp, NEW t, NEW q, q = CS!buildPropertiesStatements(sp, t)
  PROVE  /\ IsSequence(q) /\ (\A st \in Range(q) : IsStatement(st) /\ st.op = "alterProperties")
         /\ PropertiesConverge(sp, t, q)
         /\ (sp.properties # NoValue => Changed(sp, t) = {}) => Range(q) = {}
  <1> DEFINE changed == Changed(sp, t)
             st == [op |-> "alterProperties", arg |-> Changes(sp, changed)]
  <1>1. q = IF sp.properties = NoValue \/ changed = {} THEN <<>> ELSE <<st>>
    BY PropertiesPlanned, Zenon
  <1>2. CASE sp.properties = NoValue \/ changed = {}
    <2>1. q = <<>>
      BY <1>1, <1>2, Zenon
    <2>2. IsSequence(q) /\ Range(q) = {}
      BY ONLY <2>1, Literals
    <2>3. sp.properties # NoValue => Changed(sp, t) = {}
      BY <1>2
    <2>4. PropertiesConverge(sp, t, q)
      BY ONLY <2>2, <2>3 DEF PropertiesConverge
    <2> QED
      BY ONLY <2>2, <2>4
  <1>3. CASE ~(sp.properties = NoValue \/ changed = {})
    <2>1. q = <<st>>
      BY <1>1, <1>3, Zenon
    <2>2. IsStatement(st) /\ st.op = "alterProperties" /\ st.arg = Changes(sp, changed)
      BY DEF IsStatement
    <2>3. {x.property : x \in Changes(sp, changed)} = changed
      <3>1. \A p : [property |-> p, as |-> CS!AlteredAs(p), value |-> CS!ValueIn(sp.properties[1], p)].property = p
        OBVIOUS
      <3> HIDE DEF changed
      <3> QED
        BY <3>1 DEF Changes
    <2>4. changed \subseteq PropertyNames
      BY DEF Changed
    <2> HIDE DEF st
    <2>5. IsSequence(q) /\ Range(q) = {st}
      BY ONLY <2>1, Literals
    <2>6. PropertiesConverge(sp, t, q)
      <3>1. \A y \in Range(q) : y = st
        BY ONLY <2>5
      <3>2. st \in Range(q)
        BY ONLY <2>5
      <3> DEFINE names == {x.property : x \in st.arg}
      <3>3. names = changed
        BY <2>2, <2>3, Zenon
      <3>4. changed \subseteq names /\ names \subseteq PropertyNames /\ st.arg = Changes(sp, names)
        BY <2>2, <2>4, <3>3, Zenon
      <3> HIDE DEF names
      <3> QED
        BY <1>3, <2>2, <3>1, <3>2, <3>4, Zenon DEF PropertiesConverge, names
    <2> QED
      BY <1>3, <2>2, <2>5, <2>6
  <1> QED
    BY <1>2, <1>3

LEMMA EditConverges ==
  ASSUME NEW sp, IsSpec(sp), NEW t, IsTable(t), t.exists,
         NEW a, ColumnsEdited(sp, t, a), NEW f, ColumnsAdded("cassandra", sp, t, f),
         NEW x, x = CS!buildPropertiesStatements(sp, t)
  PROVE  /\ Converges("cassandra", sp, t, (a \o f) \o x)
         /\ Converges("cassandra", sp, t, <<>>) => \A st \in Range((a \o f) \o x) : IsSeed(sp, st)
  <1> DEFINE e == "cassandra"
             q == (a \o f) \o x
  <1>1. /\ IsSequence(x) /\ (\A st \in Range(x) : IsStatement(st) /\ st.op = "alterProperties")
        /\ PropertiesConverge(sp, t, x)
        /\ (sp.properties # NoValue => Changed(sp, t) = {}) => Range(x) = {}
    BY PropertiesDue
  <1>2. /\ IsSequence(a)
        /\ \A st \in Range(a) :
             /\ IsStatement(st)
             /\ st.op = "alterType" \/ (st.op = "dropColumn" /\ ~HasName(sp.columns, st.arg))
    BY DEF ColumnsEdited
  <1>3. /\ IsSequence(f)
        /\ \A st \in Range(f) : /\ IsStatement(st) /\ st.op = "addColumn"
                                /\ \E c \in Range(sp.columns) : st.arg = Wanted(e, c)
    BY DEF ColumnsAdded, IsStatement
  <1>4. IsSequence(a \o f) /\ Range(a \o f) = Range(a) \cup Range(f)
    BY <1>2, <1>3, Concatenated
  <1>5. IsSequence(q) /\ Range(q) = Range(a \o f) \cup Range(x)
    BY <1>1, <1>4, Concatenated
  <1> SUFFICES /\ Converges(e, sp, t, q)
               /\ Converges(e, sp, t, <<>>) => \A st \in Range(q) : IsSeed(sp, st)
    OBVIOUS
  <1> HIDE DEF q
  <1>6. \A st : st \in Range(q) <=> st \in Range(a) \/ st \in Range(f) \/ st \in Range(x)
    BY <1>4, <1>5
  <1>7. ColumnsConverge(e, sp, t, q)
    <2>1. ASSUME NEW c \in Range(t.columns)
          PROVE  \/ HasName(sp.columns, c.name) /\ ColumnFits(e, sp, c)
                 \/ ~HasName(sp.columns, c.name) /\ [op |-> "dropColumn", arg |-> c.name] \in Range(q)
                 \/ \E st \in Range(q) : st.op = "alterType"
      BY <1>6 DEF ColumnsEdited
    <2>2. ASSUME NEW c \in Range(sp.columns)
          PROVE  HasName(t.columns, c.name) \/ [op |-> "addColumn", arg |-> Wanted(e, c)] \in Range(q)
      BY <1>6 DEF ColumnsAdded
    <2>3. ASSUME NEW st \in Range(q)
          PROVE  /\ st.op = "addColumn" => \E c \in Range(sp.columns) : st.arg = Wanted(e, c)
                 /\ st.op = "dropColumn" => ~HasName(sp.columns, st.arg)
      BY <1>1, <1>2, <1>3, <1>6
    <2> QED
      BY <2>1, <2>2, <2>3, Zenon DEF ColumnsConverge
  <1>8. PropertiesConverge(sp, t, q)
    <2>1. \A st \in Range(q) : st.op = "alterProperties" => st \in Range(x)
      BY <1>2, <1>3, <1>6
    <2>2. \A st \in Range(x) : st \in Range(q)
      BY <1>6
    <2> QED
      BY ONLY <1>1, <2>1, <2>2, Zenon DEF PropertiesConverge
  <1>9. \A st \in Range(q) : IsStatement(st) /\ st.op \in CassandraOps
    BY <1>1, <1>2, <1>3, <1>6 DEF CassandraOps
  <1>10. e \notin SqliteLike
    BY DEF SqliteLike
  <1>11. Converges(e, sp, t, q)
    BY <1>5, <1>7, <1>8, <1>9, <1>10 DEF Converges
  <1>12. ASSUME Converges(e, sp, t, <<>>) PROVE Range(q) = {}
    <2>1. Range(<<>>) = {}
      BY Literals
    <2>2. /\ \A c \in Range(t.columns) : HasName(sp.columns, c.name) /\ ColumnFits(e, sp, c)
          /\ \A c \in Range(sp.columns) : HasName(t.columns, c.name)
      BY <1>12, <2>1 DEF Converges, ColumnsConverge
    <2>3. sp.properties # NoValue => Changed(sp, t) = {}
      BY <1>12, <2>1 DEF Converges, PropertiesConverge
    <2>4. Range(a) = {} /\ Range(f) = {} /\ Range(x) = {}
      BY <1>1, <2>2, <2>3 DEF ColumnsEdited, ColumnsAdded
    <2> QED
      BY <1>6, <2>4
  <1> QED
    BY <1>11, <1>12

LEMMA CassandraPlans ==
  ASSUME NEW sp, IsSpec(sp), sp.hasSchema, Settles("cassandra", sp), NEW t, IsTable(t)
  PROVE  Plans("cassandra", sp, t, CS!planCassandraTable(sp, t).statements)
  <1> DEFINE e == "cassandra"
             result == CS!planCassandraTable(sp, t)
             drop == IF t.exists THEN <<CS!Statement("dropTable", "")>> ELSE <<>>
             create == CS!CreateTableStatements(sp)
             columns == CS!buildColumnStatements(sp, t)
             x == CS!buildPropertiesStatements(sp, t)
             alter == columns \o x
             q == CASE sp.isDeleted -> drop [] ~sp.isDeleted /\ ~t.exists -> create [] OTHER -> alter
             f == [i \in DOMAIN t.columns |-> CS!AlterColumnStatements(sp, CS!ExistingColumn(t.columns[i]))]
             g == [i \in DOMAIN sp.columns |->
                     IF HasName(t.columns, sp.columns[i].name) THEN <<>>
                     ELSE <<[op |-> "addColumn", arg |-> Wanted(e, sp.columns[i])]>>]
  <1>1. result.statements = q
    <2>1. result = CS!Result(q)
      BY Zenon DEF CS!planCassandraTable
    <2> HIDE DEF result, q
    <2> QED
      BY <2>1 DEF CS!Result
  <1>2. \A c : Wanted(e, c) = c
    BY DEF Wanted
  <1>3. columns = Flatten(f) \o Flatten(g)
    BY <1>2, CSSame DEF CS!buildColumnStatements, CS!FlatMap, CS!InsertColumnStatement
  <1>4. \A c \in Range(sp.columns) : IsColumn(c)
    BY DEF Settles
  <1>5. ColumnsEdited(sp, t, Flatten(f)) /\ ColumnsAdded(e, sp, t, Flatten(g))
    BY <1>4, ColumnsAreEdited, AddsColumns, Zenon
  <1>6. Makes(e, sp, create)
    <2> DEFINE arg == [CS!NoTable EXCEPT !.exists = TRUE, !.columns = sp.columns,
                         !.primaryKey = sp.primaryKey, !.properties = sp.properties]
               st == [op |-> "createTable", arg |-> arg]
    <2>1. create = <<st>>
      BY CSSame DEF CS!CreateTableStatements
    <2>2. Fresh(e, sp, arg)
      <3>1. /\ DOMAIN arg = DOMAIN NoTable /\ arg.exists = TRUE /\ arg.columns = sp.columns /\ arg.foreignKeys = <<>>
            /\ arg.primaryKey = sp.primaryKey /\ arg.properties = sp.properties
            /\ arg.indexes = <<>> /\ arg.checks = <<>> /\ arg.exclusions = <<>>
            /\ arg.triggers = <<>> /\ arg.policies = <<>>
        BY DEF CS!NoTable, NoTable
      <3> HIDE DEF arg
      <3>2. IsTable(arg)
        BY <3>1, Literals DEF IsTable, IsSpec
      <3>3. Range(arg.columns) = {Wanted(e, c) : c \in Range(sp.columns)}
        BY <1>2, <3>1
      <3> QED
        BY <3>1, <3>2, <3>3 DEF Fresh
    <2>3. st.op = "createTable" /\ st.arg = arg
      OBVIOUS
    <2> HIDE DEF arg, st, create
    <2>4. e \in ConvergingEngines /\ e \notin SqliteLike
      BY DEF ConvergingEngines, SqliteLike
    <2> DEFINE none == <<>>
    <2>5. Converges(e, sp, StoredTable(e, arg), none)
      BY <2>2, <2>4, FreshConverges
    <2>50. Described(e, StoredTable(e, arg))
      BY <2>2, <2>4, FreshDescribed
    <2>6. IsSequence(create) /\ create # <<>> /\ create[1] = st /\ Tail(create) = none
      BY <2>1, Literals
    <2> HIDE DEF none
    <2> QED
      BY <2>3, <2>5, <2>50, <2>6 DEF Makes
  <1>7. drop = IF t.exists THEN <<[op |-> "dropTable", arg |-> ""]>> ELSE <<>>
    BY CSSame, Zenon
  <1> DEFINE F == Flatten(f)  G == Flatten(g)
  <1>8. ColumnsEdited(sp, t, F) /\ ColumnsAdded(e, sp, t, G) /\ alter = (F \o G) \o x
    BY <1>3, <1>5, Zenon
  <1> HIDE DEF result, create, alter, drop, F, G
  <1>9. CASE sp.isDeleted
    <2>1. q = drop
      BY <1>9, Zenon
    <2> HIDE DEF q
    <2>2. Plans(e, sp, t, q)
      BY <1>7, <1>9, <2>1, DropLeaves, Zenon
    <2> QED
      BY <1>1, <2>2, Zenon DEF result
  <1>10. CASE ~sp.isDeleted /\ ~t.exists
    <2>1. q = create
      BY <1>10, Zenon
    <2> HIDE DEF q
    <2>2. Underway(e, sp, t, q)
      BY <1>6, <1>10, <2>1 DEF Underway, InFlight
    <2>3. ~Underway(e, sp, t, <<>>)
      BY <1>10, NothingInFlight DEF Underway, Converges
    <2>4. Plans(e, sp, t, q)
      BY <2>2, <2>3 DEF Plans
    <2> QED
      BY <1>1, <2>4, Zenon DEF result
  <1>11. CASE ~sp.isDeleted /\ t.exists
    <2>1. q = alter
      BY <1>11, Zenon
    <2> HIDE DEF q
    <2>2. /\ Converges(e, sp, t, q)
          /\ Converges(e, sp, t, <<>>) => \A st \in Range(q) : IsSeed(sp, st)
      <3> DEFINE r == (F \o G) \o x
      <3>1. /\ Converges(e, sp, t, r)
            /\ Converges(e, sp, t, <<>>) => \A st \in Range(r) : IsSeed(sp, st)
        BY <1>8, <1>11, EditConverges, Zenon
      <3>2. q = r
        BY <1>8, <2>1, Zenon
      <3> HIDE DEF r, e
      <3> QED
        BY <3>1, <3>2, Zenon
    <2>3. Underway(e, sp, t, q)
      BY <1>11, <2>2 DEF Underway, InFlight
    <2>4. ASSUME Underway(e, sp, t, <<>>) PROVE \A i \in DOMAIN q : IsSeed(sp, q[i])
      <3>1. Converges(e, sp, t, <<>>)
        BY <1>11, <2>4, NothingInFlight DEF Underway
      <3> QED
        BY <2>2, <3>1, OnlySeeds
    <2>5. Plans(e, sp, t, q)
      BY <2>3, <2>4 DEF Plans
    <2> QED
      BY <1>1, <2>5, Zenon DEF result
  <1> QED
    BY <1>9, <1>10, <1>11

-----------------------------------------------------------------------------
(* Planning.                                                               *)

\* A Table without a schema has only seed rows planned.
LEMMA SeedsOnly ==
  ASSUME NEW sp, NEW t, NEW s, s = IF sp.seedData THEN <<[op |-> "seed", arg |-> "key"]>> ELSE <<>>,
         NEW result, result = IF sp.seedData /\ ~t.exists THEN [error |-> TRUE, statements |-> <<>>]
                              ELSE [error |-> FALSE, statements |-> s]
  PROVE  /\ IsSequence(result.statements) /\ \A st \in Range(result.statements) : IsSeed(sp, st)
         /\ \A i \in DOMAIN result.statements : IsSeed(sp, result.statements[i])
  <1>1. IsSequence(s) /\ \A st \in Range(s) : IsSeed(sp, st)
    BY SeedsIdle DEF Idle
  <1>2. result.statements = <<>> \/ result.statements = s
    OBVIOUS
  <1>3. IsSequence(<<>>) /\ Range(<<>>) = {}
    BY Literals
  <1>4. IsSequence(result.statements) /\ \A st \in Range(result.statements) : IsSeed(sp, st)
    BY ONLY <1>1, <1>2, <1>3
  <1> QED
    BY <1>4, OnlySeeds

LEMMA PlanPlans ==
  ASSUME NEW e \in ConvergingEngines, NEW sp, IsSpec(sp), Settles(e, sp), NEW t, IsTable(t)
  PROVE  Plans(e, sp, t, PlanTableSchema(e, sp, t).statements)
  <1> DEFINE result == PlanTableSchema(e, sp, t)
  <1>1. CASE sp.hasSchema
    <2>1. CASE e = "sqlite"
      <3>1. result = SQ!PlanSqliteTable(sp, t)
        BY <1>1, <2>1, Zenon DEF PlanTableSchema
      <3>2. Planned(e, sp, t, SQ!PlanSqliteTable(sp, t).statements) /\ e \in SqliteLike
        BY <1>1, <2>1, SqlitePlanned DEF SqliteLike
      <3> HIDE DEF result
      <3>3. Planned(e, sp, t, result.statements)
        BY <3>1, <3>2, Zenon
      <3> QED
        BY <1>1, <3>2, <3>3, PlannedPlans DEF result
    <2>2. CASE e = "rqlite"
      <3>1. result = RQ!PlanRqliteTable(sp, t)
        BY <1>1, <2>2, Zenon DEF PlanTableSchema
      <3>2. Planned(e, sp, t, RQ!PlanRqliteTable(sp, t).statements) /\ e \in SqliteLike
        BY <1>1, <2>2, RqlitePlanned DEF SqliteLike
      <3> HIDE DEF result
      <3>3. Planned(e, sp, t, result.statements)
        BY <3>1, <3>2, Zenon
      <3> QED
        BY <1>1, <3>2, <3>3, PlannedPlans DEF result
    <2>3. CASE e = "cassandra"
      <3>1. result = CS!planCassandraTable(sp, t)
        BY <1>1, <2>3, Zenon DEF PlanTableSchema
      <3>2. Plans(e, sp, t, CS!planCassandraTable(sp, t).statements)
        BY <1>1, <2>3, CassandraPlans
      <3> QED
        BY <3>1, <3>2, Zenon
    <2> QED
      BY <2>1, <2>2, <2>3 DEF ConvergingEngines, SqliteLike
  <1>2. CASE ~sp.hasSchema
    <2> DEFINE s == IF sp.seedData THEN <<[op |-> "seed", arg |-> "key"]>> ELSE <<>>
    <2>1. result = IF sp.seedData /\ ~t.exists THEN [error |-> TRUE, statements |-> <<>>]
                   ELSE [error |-> FALSE, statements |-> s]
      <3>1. CASE e = "sqlite"
        <4>1. result = SQ!PlanSqliteTableSeedDataOnly(sp, t)
          BY <1>2, <3>1, Zenon DEF PlanTableSchema
        <4>2. SQ!SeedDataStatements(sp) = s
          BY SQSeeds
        <4> HIDE DEF result, s
        <4> QED
          BY <4>1, <4>2, Zenon DEF SQ!PlanSqliteTableSeedDataOnly, SQ!PlanError, SQ!Result
      <3>2. CASE e = "rqlite"
        <4>1. result = RQ!PlanRqliteTableSeedDataOnly(sp, t)
          BY <1>2, <3>2, Zenon DEF PlanTableSchema
        <4>2. RQ!SeedDataStatements(sp) = s
          BY SQSeeds, RQSqlite DEF RQ!SeedDataStatements
        <4> HIDE DEF result, s
        <4> QED
          BY <4>1, <4>2, Zenon DEF RQ!PlanRqliteTableSeedDataOnly, RQ!PlanError, RQ!Result
      <3>3. CASE e = "cassandra"
        <4>1. result = CS!planCassandraTableSeedDataOnly(sp, t)
          BY <1>2, <3>3, Zenon DEF PlanTableSchema
        <4>2. CS!SeedDataStatements(sp) = s
          BY CSSame DEF CS!SeedDataStatements
        <4> HIDE DEF result, s
        <4> QED
          BY <4>1, <4>2, Zenon DEF CS!planCassandraTableSeedDataOnly, CS!PlanError, CS!Result
      <3> QED
        BY <3>1, <3>2, <3>3 DEF ConvergingEngines, SqliteLike
    <2> HIDE DEF result
    <2>2. /\ IsSequence(result.statements) /\ \A st \in Range(result.statements) : IsSeed(sp, st)
          /\ \A i \in DOMAIN result.statements : IsSeed(sp, result.statements[i])
      BY <2>1, SeedsOnly, Zenon
    <2>3. Underway(e, sp, t, result.statements)
      BY <1>2, <2>2 DEF Underway
    <2> QED
      BY <2>2, <2>3 DEF Plans, result
  <1> QED
    BY <1>1, <1>2

-----------------------------------------------------------------------------
(* Every step of a deployment.                                             *)

\* What a connection sees after a statement, of what it saw before.
SeenNext(e, w, st, u) ==
  /\ st.op \in {"begin", "commit"} => u = w.table
  /\ st.op \notin {"begin", "commit"} => u = Outcome(e, w, st).table

LEMMA MakesStep ==
  ASSUME NEW e, NEW sp, NEW w, IsView(w), NEW q, Makes(e, sp, q), NEW u, SeenNext(e, w, q[1], u)
  PROVE  InFlight(e, sp, u, Tail(q))
  <1>1. q[1].op = "createTable" /\ Converges(e, sp, StoredTable(e, q[1].arg), Tail(q))
    BY DEF Makes
  <1>2. u = Outcome(e, w, q[1]).table
    BY <1>1 DEF SeenNext
  <1>3. u = After(e, w.table, q[1])
    BY <1>1, <1>2, Altered
  <1>4. u = StoredTable(e, q[1].arg)
    BY <1>1, <1>3, Zenon DEF After
  <1> QED
    BY <1>1, <1>4 DEF InFlight

LEMMA RenamesStep ==
  ASSUME NEW e, NEW sp, NEW w, IsView(w), NEW q, Renames(e, sp, q), NEW u, SeenNext(e, w, q[1], u)
  PROVE  InFlight(e, sp, u, Tail(q))
  <1>1. q[1].op = "renameTable" /\ Makes(e, sp, Tail(q))
    BY DEF Renames
  <1>2. u = NoTable
    BY <1>1, Renamed DEF SeenNext
  <1> QED
    BY <1>1, <1>2, NoTableShape DEF InFlight

LEMMA InFlightStep ==
  ASSUME NEW e \in ConvergingEngines, NEW sp, IsSpec(sp), Settles(e, sp), NEW w, IsView(w), NEW q, q # <<>>,
         InFlight(e, sp, w.table, q), Runs(e, w, q[1]), NEW u, SeenNext(e, w, q[1], u)
  PROVE  InFlight(e, sp, u, Tail(q))
  <1>1. CASE Converges(e, sp, w.table, q)
    <2>1. q[1] \in Range(q)
      BY <1>1, HeadTail DEF Converges
    <2>2. q[1].op # "begin"
      BY <1>1, <2>1 DEF Converges, ConvergingEngines, SqliteOps, IdleOps, CassandraOps
    <2>3. (q[1].op = "commit" => u = w.table) /\ (q[1].op # "commit" => u = Outcome(e, w, q[1]).table)
      BY <2>2 DEF SeenNext
    <2>4. Converges(e, sp, u, Tail(q))
      BY <1>1, <2>3, ConvergesStep
    <2> QED
      BY <2>4 DEF InFlight
  <1>2. CASE Makes(e, sp, q)
    BY <1>2, MakesStep
  <1>3. CASE Renames(e, sp, q)
    BY <1>3, RenamesStep
  <1>4. CASE e = "sqlite" /\ Begins(e, sp, q)
    BY <1>4 DEF Begins, InFlight, SqliteLike
  <1> QED
    BY <1>1, <1>2, <1>3, <1>4 DEF InFlight

LEMMA LeavesStep ==
  ASSUME NEW e, NEW w, IsView(w), NEW q, q # <<>>, Leaves(w.table, q), NEW u, SeenNext(e, w, q[1], u)
  PROVE  Leaves(u, Tail(q))
  <1>1. q = <<[op |-> "dropTable", arg |-> ""]>>
    BY Zenon DEF Leaves
  <1>2. q[1].op = "dropTable" /\ Tail(q) = <<>>
    <2>1. \A a : <<a>>[1] = a /\ Tail(<<a>>) = <<>>
      OBVIOUS
    <2> QED
      BY <1>1, <2>1
  <1>3. u = After(e, w.table, q[1])
    BY <1>2, Altered DEF SeenNext
  <1>4. u = NoTable
    BY <1>2, <1>3, Zenon DEF After
  <1>5. ~u.exists
    BY <1>4, NoTableShape
  <1> QED
    BY <1>2, <1>5, Zenon DEF Leaves

LEMMA UnderwayStep ==
  ASSUME NEW e \in ConvergingEngines, NEW sp, IsSpec(sp), Settles(e, sp), NEW w, IsView(w), NEW q, q # <<>>,
         Underway(e, sp, w.table, q), Runs(e, w, q[1]), NEW u, SeenNext(e, w, q[1], u)
  PROVE  Underway(e, sp, u, Tail(q))
  <1>1. ASSUME Leaves(w.table, q) PROVE Leaves(u, Tail(q))
    BY <1>1, LeavesStep
  <1>2. ASSUME InFlight(e, sp, w.table, q) PROVE InFlight(e, sp, u, Tail(q))
    BY <1>2, InFlightStep
  <1>3. ASSUME IsSequence(q) /\ \A st \in Range(q) : IsSeed(sp, st)
        PROVE  IsSequence(Tail(q)) /\ \A st \in Range(Tail(q)) : IsSeed(sp, st)
    BY <1>3, HeadTail
  <1> QED
    BY <1>1, <1>2, <1>3 DEF Underway

\* A write between the statements changes rows only.
LEMMA UnderwayOn ==
  ASSUME NEW e, NEW sp, NEW t, t.exists, NEW u, SameSchema(t, u), NEW q, Underway(e, sp, t, q)
  PROVE  Underway(e, sp, u, q)
  <1>1. ASSUME Leaves(t, q) PROVE Leaves(u, q)
    BY <1>1, Zenon DEF Leaves
  <1>2. ASSUME InFlight(e, sp, t, q) PROVE InFlight(e, sp, u, q)
    BY <1>2, ConvergesOn DEF InFlight
  <1> QED
    BY <1>1, <1>2 DEF Underway

LEMMA WritesRows ==
  ASSUME IsTable(table), NEW given, NEW nulled, AppWrite(given, nulled)
  PROVE  table.exists /\ SameSchema(table, table')
  <1> DEFINE unset == {i \in DOMAIN table.columns : table.columns[i].name \notin given \cup nulled}
             defaulted == {table.columns[i].name : i \in {i \in unset : table.columns[i].default # NoValue}}
             filled == table.filled \cup given \cup defaulted
             nulls == table.nulls \cup (ColumnNames(table) \ (given \cup defaulted))
             t == table  u == table'
  <1>1. t.exists /\ u = [t EXCEPT !.filled = t.filled \cup given \cup defaulted,
                                  !.nulls = t.nulls \cup (ColumnNames(t) \ (given \cup defaulted))]
    BY DEF AppWrite
  <1>2. u = [t EXCEPT !.filled = filled, !.nulls = nulls]
    BY <1>1
  <1>3. IsTable(t)
    OBVIOUS
  <1> HIDE DEF filled, nulls, t, u
  <1>4. /\ DOMAIN u = DOMAIN t /\ u.policies = t.policies
        /\ u.columns = t.columns /\ u.primaryKey = t.primaryKey /\ u.exists = t.exists
        /\ u.foreignKeys = t.foreignKeys /\ u.indexes = t.indexes /\ u.properties = t.properties
        /\ u.checks = t.checks /\ u.exclusions = t.exclusions /\ u.triggers = t.triggers
    BY <1>2, <1>3, TableFields
  <1>5. IsTable(u)
    BY <1>3, <1>4 DEF IsTable
  <1>6. SameSchema(t, u)
    BY <1>4, <1>5 DEF SameSchema
  <1> QED
    BY <1>1, <1>6 DEF t, u

-----------------------------------------------------------------------------
(* A table goes on reading back as it is.                                  *)

LEMMA NoTableDescribed ==
  ASSUME NEW e
  PROVE  Described(e, NoTable)
  <1>1. /\ IsTable(NoTable) /\ NoTable.columns = <<>> /\ NoTable.indexes = <<>> /\ NoTable.foreignKeys = <<>>
    <2>1. TableShape(e, NoTable)
      BY NoTableShape
    <2> QED
      BY <2>1 DEF TableShape, NoTable
  <1>2. Range(<<>>) = {}
    BY Literals
  <1> QED
    BY <1>1, <1>2 DEF Described

\* A table with less in it.
LEMMA DescribedLess ==
  ASSUME NEW e, NEW t, Described(e, t), NEW u, IsTable(u), Range(u.columns) \subseteq Range(t.columns),
         e \in SqliteLike => Range(u.indexes) \subseteq Range(t.indexes) /\ u.foreignKeys = <<>>
  PROVE  Described(e, u)
  BY DEF Described

LEMMA DescribedOn ==
  ASSUME NEW e, NEW t, Described(e, t), NEW u, SameSchema(t, u)
  PROVE  Described(e, u)
  <1>1. IsTable(u) /\ u.columns = t.columns /\ u.indexes = t.indexes /\ u.foreignKeys = t.foreignKeys
    BY DEF SameSchema
  <1> QED
    BY <1>1 DEF Described

LEMMA DescribedAdding ==
  ASSUME NEW e \in ConvergingEngines, NEW t, Described(e, t), NEW c, IsColumn(c), c.name \notin ColumnNames(t),
         NEW u, GainsColumn(e, t, u, c)
  PROVE  Described(e, u)
  <1> DEFINE s == Stored(e, c)
  <1>1. s.name = c.name /\ DOMAIN s = DOMAIN c
    BY StoredTypes
  <1>2. \A x \in Range(t.columns) : x.name # s.name
    BY <1>1, NamesInRange DEF ColumnNames
  <1>3. "type" \in DOMAIN s
    BY <1>1, ColumnFields
  <1>4. CS!ExistingColumn(s).type = s.type
    BY <1>3, ExistingType
  <1>5. e \in SqliteLike => IsColumn(s)
    BY StoredIsColumn
  <1>6. e = "cassandra" => s.type # <<"varchar", "">>
    BY StoredInCassandra
  <1>7. /\ IsTable(u) /\ \A x \in Range(u.columns) : x \in Range(t.columns) \/ x = s
        /\ u.indexes = t.indexes /\ u.foreignKeys = t.foreignKeys
    BY ONLY GainsColumn(e, t, u, c) DEF GainsColumn
  <1> HIDE DEF s
  <1>8. CASE e \in SqliteLike
    <2>1. e # "cassandra"
      BY <1>8 DEF SqliteLike
    <2> QED
      BY <1>2, <1>5, <1>7, <1>8, <2>1 DEF Described
  <1>9. CASE e = "cassandra"
    <2>1. e \notin SqliteLike
      BY <1>9 DEF SqliteLike
    <2> QED
      BY <1>2, <1>4, <1>6, <1>7, <1>9, <2>1 DEF Described
  <1> QED
    BY <1>8, <1>9 DEF ConvergingEngines

LEMMA NamedIsPlain ==
  ASSUME NEW d, IsPlain(d)
  PROVE  IsPlain(NamedIndex(d)) /\ NamedIndex(d).name # NoName
  <1>1. CASE d.name # NoName
    BY <1>1 DEF NamedIndex
  <1>2. CASE d.name = NoName
    <2> DEFINE n == <<"idx">> \o d.cols  cols == d.cols  unique == d.unique  x == NamedIndex(d)
    <2>1. d = Index(NoName, cols, unique) /\ IsSequence(cols)
      BY <1>2 DEF IsPlain
    <2>2. n # <<>>
      BY <2>1, TailOf
    <2>3. x = [d EXCEPT !.name = n]
      BY <1>2 DEF NamedIndex, GenerateIndexName
    <2> HIDE DEF n, cols, unique, x
    <2>4. x = Index(n, cols, unique)
      BY <2>1, <2>3 DEF Index
    <2>5. x.name = n /\ x.cols = cols /\ x.unique = unique
      BY <2>4 DEF Index
    <2>6. IsPlain(x) /\ x.name # NoName
      BY <2>1, <2>2, <2>4, <2>5 DEF IsPlain, NoName
    <2> QED
      BY <2>6 DEF x
  <1> QED
    BY <1>1, <1>2

LEMMA DescribedIndexed ==
  ASSUME NEW e \in SqliteLike, NEW t, Described(e, t), NEW x, IsPlain(x), x.name # NoName,
         x.name \notin NamesOf(t.indexes), NEW u, IsTable(u), u.columns = t.columns,
         Range(u.indexes) = Range(t.indexes) \cup {x}, u.foreignKeys = t.foreignKeys
  PROVE  Described(e, u)
  <1>1. \A y \in Range(t.indexes) : y.name # x.name
    BY NamesInRange
  <1>2. e # "cassandra"
    BY DEF SqliteLike
  <1> QED
    BY <1>1, <1>2 DEF Described

\* What is added is not there yet.
LEMMA AddRuns ==
  ASSUME NEW e, NEW w, NEW st, Runs(e, w, st)
  PROVE  /\ st.op = "addColumn" => st.arg.name \notin ColumnNames(w.table)
         /\ st.op = "addIndex" => st.arg.name \notin NamesOf(w.table.indexes)
  <1>1. ASSUME st.op = "addColumn" PROVE st.arg.name \notin ColumnNames(w.table)
    BY <1>1, Zenon DEF Runs
  <1>2. ASSUME st.op = "addIndex" PROVE st.arg.name \notin NamesOf(w.table.indexes)
    <2>1. st.arg.name \notin NamesOf(w.table.indexes) \cup NamesOf(w.old.indexes)
      BY <1>2, Zenon DEF Runs
    <2> QED
      BY <2>1
  <1> QED
    BY <1>1, <1>2

LEMMA ConvergesDescribed ==
  ASSUME NEW e \in ConvergingEngines, NEW sp, Settles(e, sp), NEW w, IsView(w), Described(e, w.table),
         NEW q, q # <<>>, Converges(e, sp, w.table, q), Runs(e, w, q[1]), NEW u, SeenNext(e, w, q[1], u)
  PROVE  Described(e, u)
  <1> DEFINE t == w.table  st == q[1]
  <1>1. /\ IsSequence(q) /\ IsTable(t) /\ ColumnsConverge(e, sp, t, q)
        /\ e \in SqliteLike => t.foreignKeys = <<>> /\ IndexesConverge(sp, t, q) /\ \A x \in Range(q) : x.op \in SqliteOps
        /\ e = "cassandra" => \A x \in Range(q) : x.op \in CassandraOps
    BY DEF Converges
  <1>2. st \in Range(q)
    BY <1>1, HeadTail
  <1>3. CASE e \in SqliteLike /\ st.op \in IdleOps
    <2>1. (st.op = "commit" => u = t) /\ (st.op # "commit" => u = Outcome(e, w, st).table)
      BY <1>3 DEF SeenNext, IdleOps
    <2>2. SameSchema(t, u)
      BY <1>1, <1>3, <2>1, IdleRuns
    <2> QED
      BY <2>2, DescribedOn
  <1>4. CASE st.op = "addColumn"
    <2>1. PICK c \in Range(sp.columns) : st.arg = Wanted(e, c)
      BY <1>1, <1>2, <1>4 DEF ColumnsConverge
    <2>2. IsColumn(st.arg)
      BY <2>1, WantedColumn DEF Settles
    <2>3. "name" \in DOMAIN st.arg
      BY <2>2, ColumnFields
    <2>4. u = After(e, t, st)
      BY <1>4, Altered DEF SeenNext
    <2>5. GainsColumn(e, t, u, st.arg)
      BY <1>1, <1>4, <2>3, <2>4, AddsColumn
    <2>6. st.arg.name \notin ColumnNames(t)
      BY <1>4, AddRuns
    <2> QED
      BY <2>2, <2>5, <2>6, DescribedAdding
  <1>5. CASE st.op = "dropColumn"
    <2>1. u = After(e, t, st)
      BY <1>5, Altered DEF SeenNext
    <2>2. LosesColumn(t, u, st.arg)
      BY <1>1, <1>5, <2>1, DropsColumn
    <2>3. IsTable(u) /\ Range(u.columns) \subseteq Range(t.columns)
      BY ONLY <2>2 DEF LosesColumn
    <2>4. ASSUME e \in SqliteLike PROVE Range(u.indexes) \subseteq Range(t.indexes) /\ u.foreignKeys = <<>>
      <3>1. st.arg \notin Range(t.primaryKey) /\ ~Uses(t.indexes, st.arg) /\ t.foreignKeys = <<>>
        BY <1>1, <1>5, <2>4, SqliteDrops
      <3> QED
        BY ONLY <2>2, <3>1 DEF LosesColumn
    <2> QED
      BY <2>3, <2>4, DescribedLess
  <1>6. CASE e \in SqliteLike /\ st.op \in {"addIndex", "dropIndex", "dropIndexIfExists"}
    <2>1. u = After(e, t, st)
      BY <1>6, Altered DEF SeenNext
    <2>2. IndexesChanged(t, u, st)
      BY <1>1, <1>6, <2>1, ChangesIndexes
    <2>3. /\ IsTable(u) /\ u.columns = t.columns /\ u.foreignKeys = t.foreignKeys /\ u.foreignKeys = <<>>
          /\ st.op = "addIndex" => Range(u.indexes) = Range(t.indexes) \cup {st.arg}
          /\ st.op # "addIndex" => Range(u.indexes) \subseteq Range(t.indexes)
      BY <1>1, <1>6, <2>2 DEF IndexesChanged
    <2>4. CASE st.op = "addIndex"
      <3>1. PICK d \in Range(sp.indexes) : st.arg = NamedIndex(d)
        BY <1>1, <1>2, <1>6, <2>4 DEF IndexesConverge
      <3>2. IsPlain(d)
        BY <1>6 DEF Settles, SettlesInSqlite
      <3>3. IsPlain(st.arg) /\ st.arg.name # NoName
        BY <3>1, <3>2, NamedIsPlain
      <3>4. st.arg.name \notin NamesOf(t.indexes)
        BY <2>4, AddRuns
      <3> QED
        BY <1>6, <2>3, <2>4, <3>3, <3>4, DescribedIndexed
    <2>5. CASE st.op # "addIndex"
      BY <2>3, <2>5, DescribedLess
    <2> QED
      BY <2>4, <2>5
  <1>7. CASE e = "cassandra" /\ st.op = "alterProperties"
    <2>1. u = After(e, t, st)
      BY <1>7, Altered DEF SeenNext
    <2>2. PropertiesAltered(t, u, st.arg)
      BY <1>1, <1>7, <2>1, AltersProperties
    <2>3. IsTable(u) /\ u.columns = t.columns
      BY ONLY <2>2, Zenon DEF PropertiesAltered
    <2>4. e \notin SqliteLike
      BY <1>7 DEF SqliteLike
    <2> QED
      BY <2>3, <2>4, DescribedLess
  <1>8. st.op # "alterType"
    BY Zenon DEF Runs
  <1> QED
    BY <1>1, <1>2, <1>3, <1>4, <1>5, <1>6, <1>7, <1>8 DEF ConvergingEngines, SqliteOps, CassandraOps

LEMMA SeedDescribed ==
  ASSUME NEW e, NEW w, IsView(w), Described(e, w.table), NEW st, st.op = "seed", NEW u, SeenNext(e, w, st, u)
  PROVE  Described(e, u)
  <1>1. u = After(e, w.table, st)
    BY Altered DEF SeenNext
  <1>2. SameSchema(w.table, u)
    BY <1>1, SeedAdded DEF Described
  <1> QED
    BY <1>2, DescribedOn

LEMMA InFlightDescribed ==
  ASSUME NEW e \in ConvergingEngines, NEW sp, Settles(e, sp), NEW w, IsView(w), Described(e, w.table),
         NEW q, q # <<>>, InFlight(e, sp, w.table, q), Runs(e, w, q[1]), NEW u, SeenNext(e, w, q[1], u)
  PROVE  Described(e, u)
  <1>1. CASE Converges(e, sp, w.table, q)
    BY <1>1, ConvergesDescribed
  <1>2. CASE Makes(e, sp, q)
    <2>1. q[1].op = "createTable" /\ Described(e, StoredTable(e, q[1].arg))
      BY <1>2 DEF Makes
    <2>2. u = After(e, w.table, q[1])
      BY <2>1, Altered DEF SeenNext
    <2>3. u = StoredTable(e, q[1].arg)
      BY <2>1, <2>2, Zenon DEF After
    <2> QED
      BY <2>1, <2>3
  <1>3. CASE Renames(e, sp, q)
    <2>1. u = NoTable
      BY <1>3, Renamed DEF Renames, SeenNext
    <2> QED
      BY <2>1, NoTableDescribed
  <1>4. CASE Begins(e, sp, q)
    BY <1>4 DEF Begins, SeenNext
  <1> QED
    BY <1>1, <1>2, <1>3, <1>4 DEF InFlight

LEMMA DescribedStep ==
  ASSUME NEW e \in ConvergingEngines, NEW sp, Settles(e, sp), NEW w, IsView(w), Described(e, w.table),
         NEW q, q # <<>>, Underway(e, sp, w.table, q), Runs(e, w, q[1]), NEW u, SeenNext(e, w, q[1], u)
  PROVE  Described(e, u)
  <1>1. ASSUME Leaves(w.table, q) PROVE Described(e, u)
    <2>1. q = <<[op |-> "dropTable", arg |-> ""]>>
      BY <1>1, Zenon DEF Leaves
    <2>2. q[1].op = "dropTable"
      <3>1. \A a : <<a>>[1] = a
        OBVIOUS
      <3> QED
        BY <2>1, <3>1
    <2>3. u = After(e, w.table, q[1])
      BY <2>2, Altered DEF SeenNext
    <2>4. u = NoTable
      BY <2>2, <2>3, Zenon DEF After
    <2> QED
      BY <2>4, NoTableDescribed
  <1>2. ASSUME InFlight(e, sp, w.table, q) PROVE Described(e, u)
    BY <1>2, InFlightDescribed
  <1>3. ASSUME IsSequence(q) /\ \A st \in Range(q) : IsSeed(sp, st) PROVE Described(e, u)
    <2>1. q[1].op = "seed"
      BY <1>3, HeadTail DEF IsSeed
    <2> QED
      BY <2>1, SeedDescribed
  <1> QED
    BY <1>1, <1>2, <1>3 DEF Underway

\* A transaction is begun where none is open.
LEMMA BeginsOutside ==
  ASSUME NEW e, NEW sp, NEW t, NEW x, NEW w, NEW q, Deploying(e, sp, t, x, w, q), q # <<>>, q[1].op = "begin"
  PROVE  x = <<>>
  <1>1. ~AlteringStage(e, sp, t, w, q)
    BY EachTail DEF AlteringStage, Harmless, TableOps
  <1>2. ~CreatingStage(e, sp, t, w, q)
    BY CreatingTail DEF CreatingStage, IsCreate
  <1>3. ~DroppingStage(e, sp, w, q)
    <2>1. \A a : <<a>>[1] = a
      OBVIOUS
    <2>2. [op |-> "dropTable", arg |-> ""].op = "dropTable"
      OBVIOUS
    <2> QED
      BY <2>1, <2>2, Zenon DEF DroppingStage
  <1>4. CASE CopyingStage(e, sp, t, x, w, q)
    <2>1. e \in {"sqlite", "rqlite"}
      BY <1>4 DEF CopyingStage
    <2>2. ~Copying(e, sp, q, 2) /\ ~Copying(e, sp, q, 1) /\ ~Copying(e, sp, q, 0)
      <3>1. ~IsCreate(sp, q[1])
        BY DEF IsCreate
      <3>2. ASSUME NEW k \in 0..3, Copying(e, sp, q, k) PROVE k = 3
        <4>1. /\ k = 2 => q[1].op = "renameTable"
              /\ k = 1 => IsCreate(sp, q[1])
              /\ k = 0 => q[1].op \in {"addIndex", "copyRows"}
          BY ONLY <3>2, CopyTail
        <4> QED
          BY <3>1, <3>2, <4>1
      <3> QED
        BY <3>2
    <2>3. ~CopyEnd(e, sp, q, 2) /\ ~CopyEnd(e, sp, q, 1)
      <3>1. ASSUME CopyEnd(e, sp, q, 2) PROVE q[1].op = "dropOldTable"
        BY <3>1, CopyEndTail
      <3>2. ASSUME CopyEnd(e, sp, q, 1) PROVE q[1].op \in {"commit", "dropOldTable"}
        BY <3>2, CopyEndTail
      <3> QED
        BY <3>1, <3>2
    <2>4. ~DroppingOld(e, sp, t, x, w, q)
      BY <2>3 DEF DroppingOld
    <2> QED
      BY <1>4, <2>2, <2>4 DEF CopyingStage, StartingCopy, RenamingOld, MakingNew, CopyingRows
  <1> QED
    BY <1>1, <1>2, <1>3, <1>4 DEF Deploying

LEMMA ConvergenceInit ==
  ASSUME Init
  PROVE  ConvergenceInv
  <1>1. phase = "idle" /\ table = NoTable
    BY DEF Init
  <1>2. Described(engine, table)
    BY <1>1, NoTableDescribed
  <1> QED
    BY <1>1, <1>2 DEF ConvergenceInv

LEMMA ConvergenceStep ==
  ASSUME SpecsSettle, PlanInv, ConvergenceInv, [Next]_vars
  PROVE  ConvergenceInv'
  <1>0. /\ engine \in Engines /\ spec \in Specs(engine) /\ IsTable(table)
        /\ phase # "applying" => session = <<>>
        /\ phase = "applying" => Deploying(engine, spec, table, session, Seen, statements)
        /\ IsSpec(spec)
    BY SpecIs DEF PlanInv, TableShape
  <1>00. engine' = engine
    BY DEF Next, Plan, StartDeploy, ExecuteStatement, StatementFails, FinishDeploy, Interrupt, Edit, AppWrite, vars
  <1> SUFFICES ASSUME engine \in ConvergingEngines
               PROVE  /\ phase' \in {"planned", "applying"} => Underway(engine, spec', Seen'.table, statements')
                      /\ phase' = "applied" => Underway(engine, spec', table', <<>>)
                      /\ Described(engine, table')
                      /\ phase' = "applying" => Described(engine, Seen'.table)
    BY <1>00 DEF ConvergenceInv
  <1>01. /\ Settles(engine, spec)
         /\ phase \in {"planned", "applying"} => Underway(engine, spec, Seen.table, statements)
         /\ phase = "applied" => Underway(engine, spec, table, <<>>)
         /\ Described(engine, table)
         /\ phase = "applying" => Described(engine, Seen.table)
    BY <1>0 DEF SpecsSettle, ConvergenceInv
  <1>02. phase # "applying" => Seen.table = table
    BY <1>0, ViewIs DEF Seen
  <1>1. CASE Plan
    <2> DEFINE result == PlanTableSchema(engine, spec, table)
    <2>1. /\ phase = "idle" /\ statements' = result.statements
          /\ phase' = (IF result.error THEN "refused" ELSE "planned")
          /\ spec' = spec /\ table' = table /\ session' = session
      BY <1>1 DEF Plan
    <2>2. Underway(engine, spec, table, result.statements)
      BY <1>0, <1>01, PlanPlans DEF Plans
    <2> HIDE DEF result
    <2>3. Seen'.table = table
      BY <1>02, <2>1 DEF Seen
    <2> QED
      BY <1>01, <2>1, <2>2, <2>3
  <1>2. CASE StartDeploy
    <2>1. /\ phase = "planned" /\ phase' = "applying"
          /\ session' = (IF engine = "rqlite" THEN <<View(table)>> ELSE <<>>)
          /\ spec' = spec /\ table' = table /\ statements' = statements
      BY <1>2 DEF StartDeploy
    <2>2. Seen' = View(table)
      BY <2>1 DEF Seen
    <2> QED
      BY <1>01, <1>02, <2>1, <2>2, ViewIs
  <1>3. CASE ExecuteStatement
    <2> DEFINE st == Head(statements)  w == Outcome(engine, Seen, st)  u == Seen'.table
    <2>1. /\ phase = "applying" /\ statements # <<>> /\ Runs(engine, Seen, st)
          /\ statements' = Tail(statements)
          /\ spec' = spec /\ phase' = phase
      BY <1>3 DEF ExecuteStatement
    <2>2. /\ st.op = "begin" => table' = table /\ session' = <<View(table)>>
          /\ st.op = "commit" => table' = Seen.table /\ session' = <<>>
          /\ st.op \notin {"begin", "commit"} /\ session = <<>> => table' = w.table /\ session' = <<>>
          /\ st.op \notin {"begin", "commit"} /\ session # <<>> => table' = table /\ session' = <<w>>
      BY <1>3, Zenon DEF ExecuteStatement
    <2>3. Deploying(engine, spec, table, session, Seen, statements)
      BY <1>0, <2>1
    <2>4. st = statements[1]
      BY <2>1, <2>3, DeployingSequence, Tailed
    <2>5. IsView(Seen)
      BY <2>3 DEF Deploying
    <2>6. st.op = "begin" => session = <<>>
      BY <2>1, <2>3, <2>4, BeginsOutside
    <2>7. session = <<>> => Seen.table = table
      BY ViewIs DEF Seen
    <2>8. (session' = <<>> => Seen' = View(table')) /\ (session' # <<>> => Seen' = session'[1])
      BY DEF Seen
    <2>9. \A a : <<a>> # <<>> /\ <<a>>[1] = a
      OBVIOUS
    <2> HIDE DEF st, w
    <2>10. st.op \in {"begin", "commit"} => u = Seen.table
      BY <2>2, <2>6, <2>7, <2>8, <2>9, ViewIs
    <2>11. st.op \notin {"begin", "commit"} => u = w.table
      BY <2>2, <2>8, <2>9, ViewIs
    <2>12. SeenNext(engine, Seen, statements[1], u)
      BY <2>4, <2>10, <2>11 DEF SeenNext, w
    <2> HIDE DEF u
    <2>13. Runs(engine, Seen, statements[1])
      BY <2>1, <2>4
    <2>14. Underway(engine, spec, u, Tail(statements))
      BY <1>0, <1>01, <2>1, <2>5, <2>12, <2>13, UnderwayStep
    <2>15. Described(engine, Seen.table)
      BY <1>01, <2>1
    <2>16. Described(engine, u)
      BY <1>01, <2>1, <2>5, <2>12, <2>13, <2>15, DescribedStep
    <2>17. table' \in {table, Seen.table, u}
      <3>1. u = Seen'.table
        BY DEF u
      <3>2. session' = <<>> => u = table'
        BY <2>8, <3>1, ViewIs
      <3> QED
        BY <2>2, <3>2
    <2>18. Described(engine, table')
      BY <1>01, <2>15, <2>16, <2>17
    <2> QED
      BY <2>1, <2>14, <2>16, <2>18 DEF u
  <1>4. CASE StatementFails
    BY <1>01, <1>4 DEF StatementFails
  <1>5. CASE FinishDeploy
    BY <1>01, <1>5 DEF FinishDeploy
  <1>6. CASE Interrupt
    BY <1>01, <1>6 DEF Interrupt
  <1>7. CASE \E s \in Specs(engine) : Edit(s)
    BY <1>01, <1>7 DEF Edit
  <1>8. CASE \E given \in {ColumnNames(table), Range(table.primaryKey)} :
               \E nulled \in {{}, Nullable(table) \ given} : AppWrite(given, nulled)
    <2>0. PICK given \in {ColumnNames(table), Range(table.primaryKey)} :
            \E nulled \in {{}, Nullable(table) \ given} : AppWrite(given, nulled)
      BY <1>8
    <2>1. PICK nulled \in {{}, Nullable(table) \ given} : AppWrite(given, nulled)
      BY <2>0
    <2>2. /\ session = <<>> /\ spec' = spec /\ session' = session
          /\ statements' = statements /\ phase' = phase
      BY <2>1 DEF AppWrite
    <2>3. table.exists /\ SameSchema(table, table')
      BY <1>0, <2>1, WritesRows
    <2>4. Seen.table = table /\ Seen'.table = table'
      BY <2>2, ViewIs DEF Seen
    <2>5. Described(engine, table')
      BY <1>01, <2>3, DescribedOn
    <2> QED
      BY <1>01, <2>2, <2>3, <2>4, <2>5, UnderwayOn
  <1>9. CASE UNCHANGED vars
    <2>1. /\ spec' = spec /\ table' = table /\ session' = session
          /\ statements' = statements /\ phase' = phase
      BY <1>9 DEF vars
    <2>2. Seen' = Seen
      BY <2>1 DEF Seen
    <2> QED
      BY <1>01, <2>1, <2>2
  <1> QED
    BY <1>1, <1>2, <1>3, <1>4, <1>5, <1>6, <1>7, <1>8, <1>9, Zenon DEF Next

-----------------------------------------------------------------------------
(* The theorems.                                                           *)

\* Whatever is edited, written and interrupted: what a plan of sqlite, rqlite or
\* cassandra still has to do to the table is in the statements that are left,
\* and when none are left the table is as the spec says.
THEOREM PlansConverge ==
  ASSUME SpecsSettle
  PROVE  Spec => []ConvergenceInv
  <1>1. Init => ConvergenceInv
    BY ConvergenceInit
  <1>2. PlanInv /\ ConvergenceInv /\ [Next]_vars => ConvergenceInv'
    BY ConvergenceStep
  <1> QED
    BY <1>1, <1>2, DeploymentStages, PTL DEF Spec

\* Planning a spec again that was just applied finds nothing to do but its seed
\* rows: on sqlite and rqlite, altered or copied into a new table, and on
\* cassandra, for every spec that can be settled there.
THEOREM ReplanAlwaysEmpty ==
  ASSUME SpecsSettle
  PROVE  Spec => [](engine \in ConvergingEngines => ReplanIsEmpty)
  <1>1. PlanInv /\ ConvergenceInv => (engine \in ConvergingEngines => ReplanIsEmpty)
    <2> SUFFICES ASSUME PlanInv, ConvergenceInv, engine \in ConvergingEngines, phase = "applied"
                 PROVE  ReplanIsEmpty
      BY DEF ReplanIsEmpty
    <2>1. /\ engine \in Engines /\ spec \in Specs(engine) /\ IsTable(table) /\ IsSpec(spec)
          /\ Settles(engine, spec) /\ Underway(engine, spec, table, <<>>)
      BY SpecIs DEF PlanInv, TableShape, SpecsSettle, ConvergenceInv
    <2>2. Plans(engine, spec, table, PlanTableSchema(engine, spec, table).statements)
      BY <2>1, PlanPlans
    <2> QED
      BY <2>1, <2>2 DEF Plans, IsSeed, ReplanIsEmpty
  <1> QED
    BY <1>1, DeploymentStages, PlansConverge, PTL

-----------------------------------------------------------------------------
(* The spec that is generated from a table.                                *)

LEMMA GeneratedSpec ==
  ASSUME NEW cols, NEW t, NEW fks, NEW idx, NEW g, g = GE!Generated(cols, t, fks, idx),
         IsSequence(cols), \A c \in Range(cols) : "name" \in DOMAIN c, IsSequence(fks), IsSequence(idx)
  PROVE  /\ IsSpec(g) /\ g.hasSchema /\ ~g.isDeleted /\ ~g.seedData /\ g.properties = NoValue
         /\ g.columns = cols /\ g.primaryKey = t.primaryKey /\ g.foreignKeys = fks /\ g.indexes = idx
  <1>1. g = [EmptySpec EXCEPT !.columns = cols, !.primaryKey = t.primaryKey, !.foreignKeys = fks, !.indexes = idx]
    BY DEF GE!Generated, GE!EmptySpec, EmptySpec, GE!NoValue, NoValue
  <1>2. /\ DOMAIN g = DOMAIN EmptySpec /\ g.hasSchema = TRUE /\ g.isDeleted = FALSE /\ g.seedData = FALSE
        /\ g.properties = <<>> /\ g.checks = <<>> /\ g.exclusions = <<>> /\ g.triggers = <<>>
        /\ g.policies = <<>> /\ g.hypertable = <<>>
        /\ g.columns = cols /\ g.primaryKey = t.primaryKey /\ g.foreignKeys = fks /\ g.indexes = idx
    BY <1>1 DEF EmptySpec, NoValue
  <1>3. IsSpec(g)
    BY <1>2, Literals DEF IsSpec
  <1> QED
    BY <1>2, <1>3 DEF NoValue

LEMMA ColumnAgain ==
  ASSUME NEW n, NEW type, NEW notNull, NEW default, NEW c, c = Column(n, type, notNull, default)
  PROVE  [c EXCEPT !.autoIncrement = "unset"] = c /\ [c EXCEPT !.default = default] = c
  <1>1. c = [k \in DOMAIN c |-> c[k]] /\ c.autoIncrement = "unset" /\ c.default = default
    BY DEF Column
  <1>2. ASSUME NEW k, NEW v, c[k] = v PROVE [c EXCEPT ![k] = v] = c
    BY <1>1, <1>2
  <1> QED
    BY <1>1, <1>2

\* The column written for one of sqlite's and rqlite's.
GeneratedColumn(c) == Column(c.name, c.type, c.notNull, InCatalogAll(c.default))

LEMMA GeneratedInSqlite ==
  ASSUME NEW c, IsColumn(c)
  PROVE  /\ GE!ColumnToSqliteSchemaColumn(GE!SQ!ExistingColumn(c)) = GeneratedColumn(c)
         /\ GE!ColumnToRqliteSchemaColumn(GE!SQ!ExistingColumn(c)) = GeneratedColumn(c)
  <1> DEFINE x == GE!SQ!ExistingColumn(c)  default == InCatalogAll(c.default)
  <1>1. x = [c EXCEPT !.autoIncrement = "unset", !.default = default]
    BY Zenon DEF GE!SQ!ExistingColumn, GE!SQ!InCatalogAll, GE!SQ!InCatalog, InCatalogAll, InCatalog
  <1> HIDE DEF x, default
  <1>2. /\ x.name = c.name /\ x.type = c.type /\ x.notNull = c.notNull /\ x.default = default
        /\ x.autoIncrement = "unset"
    BY <1>1, ColumnFields
  <1>3. GeneratedColumn(c) = Column(x.name, x.type, x.notNull, x.default)
    BY <1>2 DEF GeneratedColumn, default
  <1>4. GE!ColumnToSqliteSchemaColumn(x) = GeneratedColumn(c)
    BY <1>3 DEF GE!ColumnToSqliteSchemaColumn, GE!Column, Column
  <1>5. GE!ColumnToRqliteSchemaColumn(x) = GeneratedColumn(c)
    <2> DEFINE y == Column(x.name, x.type, x.notNull, x.default)
    <2>1. GE!Column(x.name, x.type, x.notNull, x.default) = y
      BY DEF GE!Column, Column
    <2>2. [y EXCEPT !.autoIncrement = "unset"] = y
      BY ColumnAgain
    <2> HIDE DEF y
    <2>3. GE!ColumnToRqliteSchemaColumn(x) = y
      BY <1>2, <2>1, <2>2 DEF GE!ColumnToRqliteSchemaColumn, GE!ColumnToPostgresqlSchemaColumn
    <2> QED
      BY <1>3, <2>3 DEF y
  <1> QED
    BY <1>4, <1>5 DEF x

LEMMA GeneratedIsColumn ==
  ASSUME NEW c, IsColumn(c)
  PROVE  /\ IsColumn(GeneratedColumn(c)) /\ GeneratedColumn(c).name = c.name /\ GeneratedColumn(c).autoIncrement = "unset"
         /\ "name" \in DOMAIN GeneratedColumn(c)
  <1> DEFINE x == GeneratedColumn(c)
  <1>1. /\ DOMAIN x = DOMAIN Column("", "", "", NoValue) /\ x.name = c.name /\ x.autoIncrement = "unset"
        /\ x.default = InCatalogAll(c.default) /\ "name" \in DOMAIN x
    BY DEF GeneratedColumn, Column
  <1>2. \A i \in DOMAIN InCatalogAll(c.default) : "meaning" \in DOMAIN InCatalogAll(c.default)[i]
    BY DEF InCatalogAll, InCatalog, IsColumn
  <1> HIDE DEF x
  <1>3. IsColumn(x)
    BY <1>1, <1>2 DEF IsColumn
  <1> QED
    BY <1>1, <1>3 DEF x

\* It reads back as the column it was written for.
LEMMA GeneratedMatches ==
  ASSUME NEW e \in SqliteLike, NEW c, IsColumn(c)
  PROVE  SQ!columnsMatch(Wanted(e, GeneratedColumn(c)), SQ!ExistingColumn(c))
  <1> DEFINE x == SQ!ExistingColumn(c)  default == InCatalogAll(c.default)  y == GeneratedColumn(c)
  <1>1. x = [c EXCEPT !.autoIncrement = "unset", !.default = default]
    BY Zenon DEF SQ!ExistingColumn, SQ!InCatalogAll, SQ!InCatalog, InCatalogAll, InCatalog
  <1>2. default # <<RQ!EmptyStringSentinel>>
    <2>1. ASSUME default = <<RQ!EmptyStringSentinel>> PROVE FALSE
      <3>1. DOMAIN default = DOMAIN c.default /\ \A i \in DOMAIN c.default : default[i] = InCatalog(c.default[i])
        BY DEF InCatalogAll
      <3>2. 1 \in DOMAIN default /\ default[1] = RQ!EmptyStringSentinel
        BY <2>1
      <3>3. InCatalog(c.default[1]) = RQ!EmptyStringSentinel
        BY <3>1, <3>2
      <3>4. DOMAIN RQ!EmptyStringSentinel = {"meaning", "catalog"} /\ RQ!EmptyStringSentinel.catalog = FALSE
        BY DEF RQ!EmptyStringSentinel, RQ!Expr
      <3>5. "catalog" \in DOMAIN c.default[1]
        BY <3>3, <3>4 DEF InCatalog
      <3>6. InCatalog(c.default[1]).catalog = TRUE
        BY <3>5 DEF InCatalog
      <3> QED
        BY <3>3, <3>4, <3>6
    <2> QED
      BY <2>1
  <1> HIDE DEF x, default
  <1>3. x.type = c.type /\ x.notNull = c.notNull /\ x.default = default /\ x.autoIncrement = "unset"
    BY <1>1, ColumnFields
  <1>4. y = Column(c.name, c.type, c.notNull, default)
    BY DEF GeneratedColumn, default
  <1> HIDE DEF y
  <1>5. y.type = c.type /\ y.notNull = c.notNull /\ y.default = default /\ y.autoIncrement = "unset"
    BY <1>4 DEF Column
  <1>6. Wanted(e, y) = y
    <2>1. [y EXCEPT !.default = default] = y
      BY <1>4, ColumnAgain
    <2>2. RQ!schemaColumnToColumn(y) = y
      BY <1>2, <1>5, <2>1 DEF RQ!schemaColumnToColumn
    <2> QED
      BY <2>2 DEF Wanted
  <1>7. SQ!columnsMatch(y, x)
    BY <1>3, <1>5 DEF SQ!columnsMatch, SQ!BoolsEqual, SQ!Canonical
  <1> QED
    BY <1>6, <1>7 DEF x, y

\* What the spec generated from a table says.
GeneratedFrom(e, t, g) ==
  /\ IsSpec(g) /\ g.hasSchema /\ ~g.isDeleted /\ ~g.seedData /\ g.properties = NoValue
  /\ g.primaryKey = t.primaryKey /\ g.foreignKeys = <<>>
  /\ \A x \in Range(g.columns) : \E c \in Range(t.columns) :
       /\ e \in SqliteLike => x = GeneratedColumn(c)
       /\ e = "cassandra" => x = Column(c.name, c.type, "unset", NoValue)
  /\ \A c \in Range(t.columns) : \E x \in Range(g.columns) :
       /\ e \in SqliteLike => x = GeneratedColumn(c)
       /\ e = "cassandra" => x = Column(c.name, c.type, "unset", NoValue)
  /\ e \in SqliteLike => Range(g.indexes) = Range(t.indexes)

LEMMA GeneratesSqlite ==
  ASSUME NEW e \in SqliteLike, NEW t, Described(e, t)
  PROVE  GeneratedFrom(e, t, GE!generateTableYAML(e, t))
  <1> DEFINE g == GE!generateTableYAML(e, t)
             cols == [i \in DOMAIN t.columns |-> GeneratedColumn(t.columns[i])]
             idx == [i \in DOMAIN t.indexes |-> t.indexes[i]]
  <1>1. /\ IsTable(t) /\ IsSequence(t.columns) /\ IsSequence(t.indexes)
        /\ t.foreignKeys = <<>> /\ (\A c \in Range(t.columns) : IsColumn(c))
        /\ \A x \in Range(t.indexes) : IsPlain(x)
    BY DEF Described, IsTable
  <1>2. IsSequence(cols) /\ DOMAIN cols = DOMAIN t.columns /\ \A i \in DOMAIN t.columns : cols[i] = GeneratedColumn(t.columns[i])
    BY <1>1, Mapped
  <1>3. IsSequence(idx) /\ DOMAIN idx = DOMAIN t.indexes /\ \A i \in DOMAIN t.indexes : idx[i] = t.indexes[i]
    BY <1>1, Mapped
  <1>4. \A i \in DOMAIN t.columns : IsColumn(t.columns[i])
    BY <1>1 DEF Range
  <1>5. \A i \in DOMAIN t.indexes : GE!Index(t.indexes[i].name, t.indexes[i].cols, t.indexes[i].unique) = t.indexes[i]
    <2>1. \A n, c, b : GE!Index(n, c, b) = Index(n, c, b)
      BY DEF GE!Index, Index, GE!NoValue, NoValue
    <2>2. \A x \in Range(t.indexes) : x = Index(x.name, x.cols, x.unique)
      BY <1>1 DEF IsPlain
    <2> QED
      BY ONLY <2>1, <2>2 DEF Range
  <1>6. \A x \in Range(cols) : "name" \in DOMAIN x
    BY <1>2, <1>4, GeneratedIsColumn DEF Range
  <1> DEFINE existing == [i \in DOMAIN t.columns |-> GE!SQ!ExistingColumn(t.columns[i])]
  <1>7. GE!Each(GE!SQ!ExistingColumn, t.columns) = existing
    BY DEF GE!Each
  <1>8. GE!Each(GE!ColumnToSqliteSchemaColumn, existing) = cols /\ GE!Each(GE!ColumnToRqliteSchemaColumn, existing) = cols
    BY <1>4, GeneratedInSqlite DEF GE!Each
  <1>9. GE!Each(GE!IndexToSqliteSchemaIndex, t.indexes) = idx /\ GE!Each(GE!IndexToRqliteSchemaIndex, t.indexes) = idx
    BY <1>5 DEF GE!Each, GE!IndexToSqliteSchemaIndex, GE!IndexToRqliteSchemaIndex
  <1>10. GE!SQ!ListTableForeignKeys(t) = <<>>
    BY <1>1 DEF GE!SQ!ListTableForeignKeys
  <1> HIDE DEF cols, idx, existing
  <1>11. g = GE!Generated(cols, t, <<>>, idx)
    <2>1. CASE e = "sqlite"
      <3>1. g = GE!generateSqliteTableYAML(t)
        BY <2>1, Zenon DEF GE!generateTableYAML
      <3> QED
        BY <3>1, <1>7, <1>8, <1>9, <1>10 DEF GE!generateSqliteTableYAML
    <2>2. CASE e = "rqlite"
      <3>1. g = GE!generateRqliteTableYAML(t)
        BY <2>2, Zenon DEF GE!generateTableYAML
      <3> QED
        BY <3>1, <1>7, <1>8, <1>9, <1>10 DEF GE!generateRqliteTableYAML
    <2> QED
      BY <2>1, <2>2 DEF SqliteLike
  <1> HIDE DEF g
  <1>12. /\ IsSpec(g) /\ g.hasSchema /\ ~g.isDeleted /\ ~g.seedData /\ g.properties = NoValue
         /\ g.columns = cols /\ g.primaryKey = t.primaryKey /\ g.foreignKeys = <<>> /\ g.indexes = idx
    BY <1>2, <1>3, <1>6, <1>11, GeneratedSpec, Literals
  <1>13. /\ \A x \in Range(cols) : \E c \in Range(t.columns) : x = GeneratedColumn(c)
         /\ \A c \in Range(t.columns) : \E x \in Range(cols) : x = GeneratedColumn(c)
    BY <1>2 DEF Range
  <1>14. Range(idx) = Range(t.indexes)
    BY <1>3 DEF Range
  <1>15. e # "cassandra"
    BY DEF SqliteLike
  <1>16. GeneratedFrom(e, t, g)
    BY <1>12, <1>13, <1>14, <1>15 DEF GeneratedFrom
  <1> QED
    BY <1>16 DEF g

LEMMA GeneratesCassandra ==
  ASSUME NEW t, Described("cassandra", t)
  PROVE  GeneratedFrom("cassandra", t, GE!generateTableYAML("cassandra", t))
  <1> DEFINE g == GE!generateTableYAML("cassandra", t)
             column(c) == Column(c.name, c.type, "unset", NoValue)
             cols == [i \in DOMAIN t.columns |-> column(t.columns[i])]
  <1>1. IsSequence(t.columns)
    BY DEF Described, IsTable
  <1>2. IsSequence(cols) /\ DOMAIN cols = DOMAIN t.columns /\ \A i \in DOMAIN t.columns : cols[i] = column(t.columns[i])
    BY <1>1, Mapped
  <1>3. \A x \in Range(cols) : "name" \in DOMAIN x
    <2>1. \A c : "name" \in DOMAIN column(c)
      BY DEF Column
    <2> HIDE DEF column
    <2>2. \A i \in DOMAIN cols : "name" \in DOMAIN cols[i]
      BY <1>2, <2>1
    <2> QED
      BY <2>2 DEF Range
  <1>4. cols = [i \in DOMAIN t.columns |-> GE!Column(t.columns[i].name, t.columns[i].type, "unset", GE!NoValue)]
    BY DEF GE!Column, Column, GE!NoValue, NoValue
  <1> HIDE DEF cols
  <1>5. g = GE!generateCassandraTableYAML(t)
    BY Zenon DEF GE!generateTableYAML
  <1>6. g = GE!Generated(cols, t, <<>>, <<>>)
    BY <1>4, <1>5 DEF GE!generateCassandraTableYAML
  <1> HIDE DEF g
  <1>7. /\ IsSpec(g) /\ g.hasSchema /\ ~g.isDeleted /\ ~g.seedData /\ g.properties = NoValue
        /\ g.columns = cols /\ g.primaryKey = t.primaryKey /\ g.foreignKeys = <<>> /\ g.indexes = <<>>
    BY <1>2, <1>3, <1>6, GeneratedSpec, Literals
  <1>8. /\ \A x \in Range(cols) : \E c \in Range(t.columns) : x = column(c)
        /\ \A c \in Range(t.columns) : \E x \in Range(cols) : x = column(c)
    BY <1>2 DEF Range
  <1>9. "cassandra" \notin SqliteLike
    BY DEF SqliteLike
  <1>10. GeneratedFrom("cassandra", t, g)
    BY <1>7, <1>8, <1>9 DEF GeneratedFrom
  <1> QED
    BY <1>10 DEF g

LEMMA GeneratedSettles ==
  ASSUME NEW e \in ConvergingEngines, NEW t, Described(e, t), NEW g, GeneratedFrom(e, t, g)
  PROVE  Settles(e, g)
  <1>1. CASE e \in SqliteLike
    <2>1. /\ \A c, d \in Range(t.columns) : c.name = d.name => c = d
          /\ \A c \in Range(t.columns) : IsColumn(c)
          /\ \A x, y \in Range(t.indexes) : x.name = y.name => x = y
          /\ \A x \in Range(t.indexes) : IsPlain(x) /\ x.name # NoName
      BY <1>1 DEF Described
    <2>2. /\ \A x \in Range(g.columns) : \E c \in Range(t.columns) : x = GeneratedColumn(c)
          /\ g.foreignKeys = <<>> /\ Range(g.indexes) = Range(t.indexes)
      BY <1>1 DEF GeneratedFrom
    <2>3. \A x \in Range(g.columns) : \E c \in Range(t.columns) :
            x = GeneratedColumn(c) /\ IsColumn(x) /\ x.name = c.name /\ x.autoIncrement = "unset"
      BY <2>1, <2>2, GeneratedIsColumn
    <2>4. \A x \in Range(g.columns) : IsColumn(x) /\ x.autoIncrement # "true"
      BY <2>3
    <2>5. \A x, y \in Range(g.columns) : x.name = y.name => x = y
      BY <2>1, <2>3
    <2>6. \A d \in Range(g.indexes) : IsPlain(d) /\ NamedIndex(d) = d
      BY <2>1, <2>2 DEF NamedIndex
    <2>7. SettlesInSqlite(g)
      BY <2>1, <2>2, <2>4, <2>6 DEF SettlesInSqlite
    <2>8. e # "cassandra"
      BY <1>1 DEF SqliteLike
    <2> QED
      BY <2>4, <2>5, <2>7, <2>8 DEF Settles
  <1>2. CASE e = "cassandra"
    <2> DEFINE column(c) == Column(c.name, c.type, "unset", NoValue)
    <2>1. /\ \A x \in Range(g.columns) : \E c \in Range(t.columns) : x = column(c)
          /\ g.properties = NoValue
      BY <1>2 DEF GeneratedFrom
    <2>2. \A c, d \in Range(t.columns) : c.name = d.name => c.type = d.type
      BY <1>2 DEF Described
    <2>3. \A c : IsColumn(column(c)) /\ column(c).name = c.name
      BY DEF Column, IsColumn, NoValue
    <2>4. \A c, d : c.name = d.name /\ c.type = d.type => column(c) = column(d)
      OBVIOUS
    <2> HIDE DEF column
    <2>5. \A x \in Range(g.columns) : IsColumn(x)
      BY <2>1, <2>3
    <2>6. \A x, y \in Range(g.columns) : x.name = y.name => x = y
      BY <2>1, <2>2, <2>3, <2>4
    <2>7. SettlesInCassandra(g)
      BY <2>1 DEF SettlesInCassandra
    <2>8. e \notin SqliteLike
      BY <1>2 DEF SqliteLike
    <2> QED
      BY <2>5, <2>6, <2>7, <2>8 DEF Settles
  <1> QED
    BY <1>1, <1>2 DEF ConvergingEngines

LEMMA GeneratedFits ==
  ASSUME NEW e \in ConvergingEngines, NEW t, Described(e, t), NEW g, GeneratedFrom(e, t, g), NEW c \in Range(t.columns)
  PROVE  HasName(g.columns, c.name) /\ ColumnFits(e, g, c)
  <1>1. IsSequence(g.columns) /\ Distinct(g.columns)
    BY GeneratedSettles DEF GeneratedFrom, IsSpec, Settles, Distinct
  <1>2. CASE e \in SqliteLike
    <2>1. IsColumn(c) /\ e # "cassandra"
      BY <1>2 DEF Described, SqliteLike
    <2>2. GeneratedColumn(c) \in Range(g.columns)
      BY <1>2 DEF GeneratedFrom
    <2>3. GeneratedColumn(c).name = c.name
      BY <2>1, GeneratedIsColumn
    <2>4. HasName(g.columns, c.name) /\ ByName(g.columns, c.name) = GeneratedColumn(c)
      BY <1>1, <2>2, <2>3, FoundIs
    <2>5. SQ!columnsMatch(Wanted(e, GeneratedColumn(c)), SQ!ExistingColumn(c))
      BY <1>2, <2>1, GeneratedMatches
    <2> QED
      BY <2>1, <2>4, <2>5 DEF ColumnFits
  <1>3. CASE e = "cassandra"
    <2> DEFINE x == Column(c.name, c.type, "unset", NoValue)
    <2>1. x \in Range(g.columns)
      BY <1>3 DEF GeneratedFrom
    <2>2. x.name = c.name /\ x.type = c.type
      BY DEF Column
    <2> HIDE DEF x
    <2>3. HasName(g.columns, c.name) /\ ByName(g.columns, c.name) = x
      BY <1>1, <2>1, <2>2, FoundIs
    <2>4. CS!ExistingColumn(c).type = c.type /\ c.type # <<"varchar", "">>
      BY <1>3 DEF Described
    <2>5. CS!unaliasUnparameterizedColumnType(c.type) = c.type
      BY <2>4 DEF CS!unaliasUnparameterizedColumnType
    <2> QED
      BY <1>3, <2>2, <2>3, <2>4, <2>5 DEF ColumnFits
  <1> QED
    BY <1>2, <1>3 DEF ConvergingEngines

LEMMA GeneratedConverges ==
  ASSUME NEW e \in ConvergingEngines, NEW t, Described(e, t), t.exists, NEW g, GeneratedFrom(e, t, g)
  PROVE  Converges(e, g, t, <<>>)
  <1>1. IsSequence(<<>>) /\ Range(<<>>) = {}
    BY Literals
  <1>2. \A c \in Range(t.columns) : HasName(g.columns, c.name) /\ ColumnFits(e, g, c)
    BY GeneratedFits
  <1>3. \A x \in Range(g.columns) : HasName(t.columns, x.name)
    <2>1. ASSUME NEW x \in Range(g.columns) PROVE \E c \in Range(t.columns) : c.name = x.name
      <3>1. CASE e \in SqliteLike
        <4>1. PICK c \in Range(t.columns) : x = GeneratedColumn(c)
          BY <3>1 DEF GeneratedFrom
        <4>2. IsColumn(c)
          BY <3>1 DEF Described
        <4> QED
          BY <4>1, <4>2, GeneratedIsColumn
      <3>2. CASE e = "cassandra"
        <4>1. PICK c \in Range(t.columns) : x = Column(c.name, c.type, "unset", NoValue)
          BY <3>2 DEF GeneratedFrom
        <4>2. x.name = c.name
          BY <4>1 DEF Column
        <4> QED
          BY <4>2
      <3> QED
        BY <3>1, <3>2 DEF ConvergingEngines
    <2> QED
      BY <2>1, HasNameIs
  <1>4. ColumnsConverge(e, g, t, <<>>)
    BY <1>1, <1>2, <1>3 DEF ColumnsConverge
  <1>5. ASSUME e \in SqliteLike
        PROVE  SameColumns(t.primaryKey, g.primaryKey) /\ t.foreignKeys = <<>> /\ IndexesConverge(g, t, <<>>)
    <2>1. g.primaryKey = t.primaryKey /\ t.foreignKeys = <<>> /\ Range(g.indexes) = Range(t.indexes)
      BY <1>5 DEF GeneratedFrom, Described
    <2>2. \A x \in Range(t.indexes) : NamedIndex(x) = x /\ IndexEquals(x, NamedIndex(x)) /\ IndexNamed(g, x.name)
      <3>1. \A x \in Range(t.indexes) : NamedIndex(x) = x
        BY <1>5 DEF Described, NamedIndex
      <3> QED
        BY <2>1, <3>1, IndexItself DEF IndexNamed
    <2>3. Followed(<<>>, IndexSwaps(g))
      BY <1>1, FollowedNone
    <2>4. IndexesConverge(g, t, <<>>)
      BY <1>1, <2>1, <2>2, <2>3 DEF IndexesConverge
    <2> QED
      BY <2>1, <2>4 DEF SameColumns
  <1>6. ASSUME e = "cassandra" PROVE PropertiesConverge(g, t, <<>>)
    <2>1. g.properties = NoValue
      BY DEF GeneratedFrom
    <2> QED
      BY <1>1, <2>1 DEF PropertiesConverge
  <1>7. IsTable(t)
    BY DEF Described
  <1> QED
    BY <1>1, <1>4, <1>5, <1>6, <1>7 DEF Converges

\* The YAML generated from a live table describes that table: planned, it
\* changes nothing, on sqlite, rqlite and cassandra.
THEOREM GeneratedAlwaysInSync ==
  ASSUME SpecsSettle
  PROVE  Spec => [](engine \in ConvergingEngines => GeneratedInSync)
  <1>1. PlanInv /\ ConvergenceInv => (engine \in ConvergingEngines => GeneratedInSync)
    <2> DEFINE g == GE!generateTableYAML(engine, table)
               q == PlanTableSchema(engine, g, table).statements
    <2> SUFFICES ASSUME PlanInv, ConvergenceInv, engine \in ConvergingEngines, table.exists
                 PROVE  \A i \in DOMAIN q : FALSE
      BY DEF GeneratedInSync
    <2>1. Described(engine, table)
      BY DEF ConvergenceInv
    <2>2. GeneratedFrom(engine, table, g)
      BY <2>1, GeneratesSqlite, GeneratesCassandra DEF ConvergingEngines
    <2> HIDE DEF g
    <2>3. Converges(engine, g, table, <<>>) /\ Settles(engine, g)
      BY <2>1, <2>2, GeneratedConverges, GeneratedSettles
    <2>4. IsSpec(g) /\ g.hasSchema /\ ~g.isDeleted /\ ~g.seedData
      BY <2>2 DEF GeneratedFrom
    <2>5. Underway(engine, g, table, <<>>)
      BY <2>3, <2>4 DEF Underway, InFlight
    <2>6. Plans(engine, g, table, q)
      BY <2>1, <2>3, <2>4, PlanPlans DEF Described
    <2> HIDE DEF q
    <2> QED
      BY <2>4, <2>5, <2>6 DEF Plans, IsSeed
  <1> QED
    BY <1>1, DeploymentStages, PlansConverge, PTL
=============================================================================
