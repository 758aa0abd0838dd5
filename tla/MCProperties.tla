---------------------------- MODULE MCProperties ----------------------------
(***************************************************************************)
(* A cassandra table whose spec gives some of its properties only.         *)
(***************************************************************************)
EXTENDS Planning

Commented(comment) ==
  [EmptySpec EXCEPT
     !.primaryKey = <<"id">>, !.columns = <<Column("id", <<"integer", "">>, "unset", NoValue)>>,
     !.properties = <<[comment |-> comment, bloom_filter_fp_chance |-> "0.010000"]>>]

PartialSpecs(e) == {Commented("one"), Commented("two")}
=============================================================================
