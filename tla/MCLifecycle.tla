---------------------------- MODULE MCLifecycle ----------------------------
(* Small instances of MigrationLifecycle for TLC.                          *)
EXTENDS MigrationLifecycle, ColumnPlanner

CONSTANT o1

S(cols, seed, default) == [cols |-> cols, seed |-> seed, default |-> default]

SpecA     == S({1}, FALSE, "none")
SpecB     == S({2}, FALSE, "none")
SpecOdd   == S({1}, TRUE, "empty")
SpecNone  == S({}, FALSE, "none")

\* Two specs that differ in two columns, so that a plan has two statements.
TwoSpecs == {SpecA, SpecB}

\* No column, and one with an empty-string default and seed rows: a plan of
\* two statements.
NoneOrOdd == {SpecNone, SpecOdd}

\* The smallest pair of specs.
OneColumnSpecs == {SpecA, SpecNone}
=============================================================================
