---------------------------- MODULE ApprovalGate ----------------------------
(***************************************************************************)
(* What SchemaHero promises of a managed database: texts of statements are *)
(* approved under a name, and the database changes only by running, one    *)
(* text at a time and in the text's order, statements of a text that was   *)
(* approved as a whole.  A run may be given up at any point, and a text    *)
(* counts as done only when one run reached its end.                       *)
(***************************************************************************)
EXTENDS Naturals, Sequences

CONSTANTS EmptyDatabase, Runs(_, _), Run(_, _)

VARIABLES
    db,         \* the database
    approved,   \* the <<name, text>> approved so far
    done,       \* the <<name, text>> run to the end
    jobs        \* the run in progress, if there is one

vars == <<db, approved, done, jobs>>

Init == db = EmptyDatabase /\ approved = {} /\ done = {} /\ jobs = {}

\* Approvals are never taken back: what is withdrawn is the text beside them.
Approve ==
    /\ approved \subseteq approved'
    /\ UNCHANGED <<db, done, jobs>>

Begin ==
    /\ jobs = {}
    /\ \E p \in approved : jobs' = {[name |-> p[1], text |-> p[2], left |-> p[2]]}
    /\ UNCHANGED <<db, approved, done>>

Step(j) ==
    /\ j.left # <<>> /\ Runs(db, Head(j.left))
    /\ db' = Run(db, Head(j.left))
    /\ jobs' = {[name |-> j.name, text |-> j.text, left |-> Tail(j.left)]}
    /\ done' = IF Len(j.left) = 1 THEN done \cup {<<j.name, j.text>>} ELSE done
    /\ UNCHANGED approved

End ==
    /\ jobs' = {}
    /\ UNCHANGED <<db, approved, done>>

Next == Approve \/ Begin \/ (\E j \in jobs : Step(j)) \/ End

Spec == Init /\ [][Next]_vars
=============================================================================
