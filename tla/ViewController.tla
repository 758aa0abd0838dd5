-------------------------- MODULE ViewController ----------------------------
(***************************************************************************)
(* The view controller of Target's manager, and what its migration         *)
(* controller does with the migrations this makes.  Only timescaledb plans *)
(* views: a view that exists is left alone, or dropped when its spec says  *)
(* isDeleted (the body "deleted").  The migrations are those of a Database *)
(* with immediateDeploy: approved when they are written.                   *)
(***************************************************************************)
EXTENDS Fleet

Migrations == {"none", "approved", "executed"}

View == kind = "view" /\ Running(Target)

\* isViewManagedByThisController lets no other manager past; a View that is
\* not there is an error, and is tried again.
ReadView ==
    /\ View /\ w[Target].pc = "idle" /\ obj.exists
    /\ Take(Target, "connect")
    /\ UNCHANGED <<kind, dvars, svars, obj, content, mvars, changes, faults, removed>>

\* The view's spec has the wanted effect on the database already.
InPlace(body) == content.exists = (body.as # "deleted")

\* Mutant: a migration of that name is taken for the one that is wanted.
PlanViewOnce ==
    /\ View /\ w[Target].pc = "connect"
    /\ IF dobj[Target].exists /\ ~InPlace(w[Target].copy.body) /\ migs[w[Target].copy.body] = "none"
       THEN Goto(Target, "get") /\ UNCHANGED current ELSE Return(Target)
    /\ UNCHANGED <<kind, dvars, svars, obj, content, mvars, changes, faults, removed>>

\* Neither check for an earlier plan applies: the planned SHA is never recorded
\* in the View's status, and getMigrationSpec always answers nil.
PlanView ==
    /\ View /\ w[Target].pc = "connect"
    /\ IF dobj[Target].exists /\ ~InPlace(w[Target].copy.body)
       THEN Goto(Target, "get") /\ UNCHANGED current ELSE Return(Target)
    /\ UNCHANGED <<kind, dvars, svars, obj, content, mvars, changes, faults, removed>>

GetMigration ==
    /\ View /\ w[Target].pc = "get"
    /\ w' = [w EXCEPT ![Target].pc = "write", ![Target].seen = migs[w[Target].copy.body]]
    /\ UNCHANGED <<kind, dvars, svars, ovars, content, mvars, changes, faults, removed>>

\* Update the spec and the status of what was found, which keeps its owner;
\* create what was not found, owned by the copy's View.  If another version is
\* stored by now the write is refused.
WriteMigration ==
    /\ View /\ w[Target].pc = "write"
    /\ LET b == w[Target].copy.body
           owned == obj.exists /\ obj.uid = w[Target].copy.uid
       IN  IF migs[b] = w[Target].seen
           THEN /\ migs' = [migs EXCEPT ![b] = "approved"]
                /\ doomed' = IF migs[b] = "none" /\ ~owned THEN doomed \cup {b} ELSE doomed
           ELSE UNCHANGED <<migs, doomed>>
    /\ Return(Target)
    /\ UNCHANGED <<kind, dvars, svars, obj, content, mw, changes, faults, removed>>

\* The migration controller executes an approved migration whose View and
\* Database exist.  A statement that does not apply fails and is tried again.
Execute(b) ==
    /\ View /\ mw = {} /\ migs[b] = "approved"
    /\ obj.exists /\ dobj[Target].exists
    /\ ~InPlace(b)
    /\ content' = [exists |-> b.as # "deleted", as |-> b.as, returns |-> b.returns]
    /\ mw' = {b}
    /\ UNCHANGED <<kind, dvars, svars, ovars, w, migs, doomed, changes, faults, removed>>

\* The stamp goes, after a conflict, on whatever the migration holds by then.
StampExecuted(b) ==
    /\ View /\ mw = {b}
    /\ mw' = {}
    /\ migs' = [migs EXCEPT ![b] = IF @ = "none" THEN @ ELSE "executed"]
    /\ UNCHANGED <<kind, dvars, svars, ovars, w, content, doomed, changes, faults, removed>>

\* Kubernetes collects the migrations of a View that is gone.
CollectMigrations ==
    /\ doomed # {}
    /\ migs' = [b \in Bodies |-> IF b \in doomed THEN "none" ELSE migs[b]]
    /\ doomed' = {}
    /\ UNCHANGED <<kind, dvars, svars, ovars, w, content, mw, changes, faults, removed>>

ViewStep == ReadView \/ PlanView \/ GetMigration \/ WriteMigration
=============================================================================
