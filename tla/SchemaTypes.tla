---------------------------- MODULE SchemaTypes ----------------------------
(***************************************************************************)
(* The canonical schema types every planner compares with                  *)
(* (pkg/database/types), the shape of a table's spec                       *)
(* (pkg/apis/schemas/v1alpha4) and of the table a database holds.          *)
(*                                                                         *)
(* A name is a sequence of words: <<>> is no name, and a generated name is *)
(* made of a prefix and the columns it was generated from.  A data type is *)
(* <<base, argument>>; an optional value is a sequence of at most one      *)
(* element.  A boolean pointer is "unset", "true" or "false".  An SQL      *)
(* expression is its meaning and whether it is the catalog's rendering,    *)
(* with the casts and parentheses a database adds.                         *)
(***************************************************************************)
EXTENDS Naturals, Sequences, FiniteSets, Functions

NoName == <<>>
NoValue == <<>>

Expr(meaning) == [meaning |-> meaning, catalog |-> FALSE]

(* What a database stores and renders for an expression it was given.      *)
InCatalog(e) == [e EXCEPT !.catalog = TRUE]
InCatalogAll(opt) == [i \in DOMAIN opt |-> InCatalog(opt[i])]

(* Lower case, no casts, no parentheses, one space between words: what is  *)
(* left of the two renderings is the same text.                            *)
CanonicalizeSQLExpr(e) == e.meaning

BoolsEqual(a, b) == (a = "true") = (b = "true")

-----------------------------------------------------------------------------
(* Steps over Go slices.  Flatten is a recursive function, so that what it *)
(* computes can be proved (SequenceFacts).                                 *)
IsSequence(s) == s \in Seq(Range(s))
Flatten(seqs) ==
  LET upTo[i \in 0..Len(seqs)] == IF i = 0 THEN <<>> ELSE upTo[i - 1] \o seqs[i]
  IN upTo[Len(seqs)]
FlatMap(Op(_), s) == Flatten([i \in DOMAIN s |-> Op(s[i])])
Where(s, Test(_)) == FlatMap(LAMBDA e : IF Test(e) THEN <<e>> ELSE <<>>, s)
NamesOf(s) == {s[i].name : i \in DOMAIN s}
HasName(s, n) == n \in NamesOf(s)
ByName(s, n) == s[CHOOSE i \in DOMAIN s : s[i].name = n /\ \A j \in 1..(i - 1) : s[j].name # n]
WithoutName(s, n) == Where(s, LAMBDA e : e.name # n)
AnySeq(s, Test(_)) == \E i \in DOMAIN s : Test(s[i])

(* Two column lists are the same when they have the same length and every  *)
(* column of the second is in the first.                                   *)
SameColumns(a, b) == Len(a) = Len(b) /\ Range(b) \subseteq Range(a)

-----------------------------------------------------------------------------
(* The objects of a table.                                                 *)
Column(n, type, notNull, default) ==
  [name |-> n, type |-> type, isArray |-> FALSE, notNull |-> notNull, default |-> default,
   charset |-> "", collation |-> "", autoIncrement |-> "unset", isStatic |-> "unset"]

ForeignKey(n, cols, parent, onDelete) ==
  [name |-> n, cols |-> cols, parent |-> parent, onDelete |-> onDelete]

Index(n, cols, unique) ==
  [name |-> n, cols |-> cols, unique |-> unique, method |-> "", where |-> NoValue,
   elements |-> <<>>, constraint |-> FALSE]

Constraint(n, expr) == [name |-> n, expr |-> expr]

Policy(n, command, roles, using) ==
  [name |-> n, command |-> command, roles |-> roles, using |-> using]

normalizeOnDelete(action) == IF action \in {"NO ACTION", ""} THEN "" ELSE action

(* Names are compared only where both sides have one.                      *)
ForeignKeyEquals(fk, other) ==
  /\ fk.name = NoName \/ other.name = NoName \/ fk.name = other.name
  /\ fk.parent = other.parent
  /\ normalizeOnDelete(fk.onDelete) = normalizeOnDelete(other.onDelete)
  /\ SameColumns(fk.cols, other.cols)

normalizeIndexMethod(method) == IF method = "btree" THEN "" ELSE method

Canonical(opt) == [i \in DOMAIN opt |-> CanonicalizeSQLExpr(opt[i])]

(* Ordered and expression elements are compared by position; without them  *)
(* the columns are compared as a set.                                      *)
IndexEquals(idx, other) ==
  /\ idx.name = other.name
  /\ idx.unique = other.unique
  /\ normalizeIndexMethod(idx.method) = normalizeIndexMethod(other.method)
  /\ Canonical(idx.where) = Canonical(other.where)
  /\ IF idx.elements # <<>> \/ other.elements # <<>>
     THEN Canonical(idx.elements) = Canonical(other.elements)
     ELSE SameColumns(idx.cols, other.cols)

(* A nil key is <<>>.                                                      *)
KeyConstraintEquals(k, other) == k = other

normalizePolicyCommand(command) == IF command = "" THEN "ALL" ELSE command

normalizePolicyRoles(roles) == IF roles = {} THEN {"public"} ELSE roles

AttributesEqual(p, other) ==
  /\ normalizePolicyCommand(p.command) = normalizePolicyCommand(other.command)
  /\ normalizePolicyRoles(p.roles) = normalizePolicyRoles(other.roles)

ExclusionEquals(e, other) == CanonicalizeSQLExpr(e.expr) = CanonicalizeSQLExpr(other.expr)

GenerateFKName(fk) == IF fk.name # NoName THEN fk.name ELSE fk.cols \o <<"fkey">>
GenerateIndexName(idx) == <<"idx">> \o idx.cols
GenerateCheckName(c) == IF c.name # NoName THEN c.name ELSE <<c.expr.meaning, "check">>
GenerateExclusionName(c) == IF c.name # NoName THEN c.name ELSE <<c.expr.meaning, "excl">>
GenerateKeyName == <<"pkey">>

(* Dropping to the name the planners generate when a spec leaves it out.   *)
NamedIndex(idx) == IF idx.name = NoName THEN [idx EXCEPT !.name = GenerateIndexName(idx)] ELSE idx

(* Two rows of one foreign key: the second row replaces the columns by its *)
(* own, twice (plugins/postgres, plugins/mysql ListTableForeignKeys).      *)
ScannedColumns(cols) == IF Len(cols) = 1 THEN cols ELSE <<cols[Len(cols)], cols[Len(cols)]>>

-----------------------------------------------------------------------------
(* A table's spec, and a table in a database.  An engine uses the fields   *)
(* it knows.                                                               *)
EmptySpec ==
  [hasSchema |-> TRUE, isDeleted |-> FALSE, columns |-> <<>>, primaryKey |-> <<>>, foreignKeys |-> <<>>,
   indexes |-> <<>>, checks |-> <<>>, exclusions |-> <<>>, triggers |-> <<>>, rls |-> NoValue,
   policies |-> <<>>, seedData |-> FALSE, charset |-> "", collation |-> "",
   properties |-> NoValue, hypertable |-> NoValue]

IsSpec(s) ==
  /\ DOMAIN s = DOMAIN EmptySpec
  /\ IsSequence(s.columns) /\ \A c \in Range(s.columns) : "name" \in DOMAIN c
  /\ IsSequence(s.foreignKeys) /\ IsSequence(s.indexes) /\ IsSequence(s.checks)
  /\ IsSequence(s.exclusions) /\ IsSequence(s.triggers) /\ IsSequence(s.policies) /\ IsSequence(s.hypertable)

NoTable ==
  [exists |-> FALSE, columns |-> <<>>, primaryKey |-> <<>>, foreignKeys |-> <<>>,
   indexes |-> <<>>, checks |-> <<>>, exclusions |-> <<>>, triggers |-> <<>>,
   rls |-> [enable |-> FALSE, force |-> FALSE], policies |-> <<>>, charset |-> "", collation |-> "",
   properties |-> NoValue, hypertable |-> NoValue, filled |-> {}, nulls |-> {}, seeds |-> 0]

Statement(op, arg) == [op |-> op, arg |-> arg]

(* What planning returns: statements, or an error.                         *)
Result(statements) == [error |-> FALSE, statements |-> statements]
PlanError == [error |-> TRUE, statements |-> <<>>]
=============================================================================
