--------------------------- MODULE ColumnPlanner ---------------------------
(***************************************************************************)
(* The planner of the lifecycle's instances: how a database plugin turns   *)
(* the difference between the table and its spec into statements.  The     *)
(* existing columns are visited first and dropped when the spec does not   *)
(* name them, then the columns of the spec that were not found are added,  *)
(* then the seed rows, whether or not they are there already.              *)
(***************************************************************************)
LOCAL INSTANCE Naturals
LOCAL INSTANCE Sequences
LOCAL INSTANCE SequencesExt

\* Both the driver's rows and the spec's list have an order; ascending is one.
PerColumn(op, cols) ==
    LET q == SetToSortSeq(cols, <) IN [i \in DOMAIN q |-> <<op, q[i]>>]

BuildColumnStatements(d, spec) ==
    PerColumn("drop", d.cols \ spec.cols)
    \o PerColumn("add", spec.cols \ d.cols)
    \o IF spec.seed THEN << <<"seed", 0>> >> ELSE <<>>
=============================================================================
