-------------------------- MODULE TableController --------------------------
(***************************************************************************)
(* The table controller's worker: one reconcile of the Table object, from  *)
(* reading it in the cache to recording the planned SHA in its status.     *)
(* Every API call is a step of its own.  An error returned from Reconcile  *)
(* puts the Table back in the queue; so does RequeueAfter, whose ten       *)
(* seconds are any delay here.                                             *)
(***************************************************************************)
EXTENDS Cluster

IdleTW == [pc |-> "idle", spec |-> FirstSpec, ddl |-> <<>>, found |-> FALSE]

\* spec is the copy of the Table's spec, found whether a migration was found.
TableWorker == [pc : {"idle", "plan", "get", "write", "status"},
                spec : Specs \cup Names, ddl : DDLs, found : BOOLEAN]

\* The name of the migration the worker writes.
TWName == SHA(tw.spec)

\* Reconcile finds the planned SHA unchanged and returns.
SkipPlanned ==
    /\ tw.pc = "idle" /\ tqueue
    /\ tcache.sha = SHA(tcache.spec)
    /\ tqueue' = FALSE
    /\ UNCHANGED <<tapi, mapi, cache, mqueue, ready, db, tw, mw, cli, bounds, history>>

\* Reconcile finds the Database object, its controller and the required
\* extensions in place, and goes on to plan.  While they are not in place the
\* Table is requeued as it is: a stuttering step.
StartPlan ==
    /\ tw.pc = "idle" /\ tqueue
    /\ tcache.sha # SHA(tcache.spec)
    /\ ready
    /\ tqueue' = FALSE
    /\ tw' = [IdleTW EXCEPT !.pc = "plan", !.spec = tcache.spec]
    /\ tcurrent' = IF "cache" \in tcurrent THEN tcurrent \cup {"tableWorker"} ELSE tcurrent
    /\ UNCHANGED <<table, mapi, cache, mqueue, ready, db, mw, cli, bounds, history>>

\* Mutant: plan records the SHA and returns whether or not there is something to do.
PlanAlwaysReturns ==
    /\ tw.pc = "plan"
    /\ LET spec == AfterPlan(tw.spec)
           ddl  == PlanTable(db, spec)
       IN  /\ tw' = [tw EXCEPT !.pc = "status", !.spec = spec, !.ddl = ddl]
           /\ inSync' = IF ddl = <<>> THEN inSync \cup {SHA(spec)} ELSE inSync
    /\ UNCHANGED <<tapi, mapi, cache, queues, ready, db, mw, cli, bounds, approvals, completed>>

\* plan connects to the database and compares it with the spec.
Plan ==
    /\ tw.pc = "plan"
    /\ LET spec == AfterPlan(tw.spec)
           ddl  == PlanTable(db, spec)
       IN  /\ tw' = [tw EXCEPT !.pc = IF ddl = <<>> THEN "status" ELSE "get",
                               !.spec = spec, !.ddl = ddl]
           /\ inSync' = IF ddl = <<>> THEN inSync \cup {SHA(spec)} ELSE inSync
    /\ UNCHANGED <<tapi, mapi, cache, queues, ready, db, mw, cli, bounds, approvals, completed>>

\* Look for a migration of that name, in the cache.
GetExisting ==
    /\ tw.pc = "get"
    /\ tw' = [tw EXCEPT !.pc = "write", !.found = Exists(mcache[TWName])]
    /\ FromCache(TWName, "tableWorker")
    /\ UNCHANGED <<tapi, migs, cache, queues, ready, db, mw, cli, bounds, history>>

\* Mutant: the phase is left empty.
PlannedMigrationNoPhase(ddl) ==
    [AbsentMigration EXCEPT !.ddl = ddl, !.phase = "", !.approvedAt = ImmediateDeploy]

\* The migration plan builds: immediateDeploy approves it but leaves it PLANNED.
PlannedMigration(ddl) ==
    [AbsentMigration EXCEPT !.ddl = ddl, !.phase = "PLANNED", !.approvedAt = ImmediateDeploy]

\* Update the migration that was found, or create it.
WriteAccepted ==
    IF tw.found THEN Accepts(TWName, "tableWorker") ELSE ~Exists(migs[TWName])

\* Mutant: only the spec of a migration that was found is replaced.
WriteMigrationKeepsStatus ==
    /\ tw.pc = "write" /\ WriteAccepted
    /\ Store(TWName, IF tw.found THEN [migs[TWName] EXCEPT !.ddl = tw.ddl]
                                 ELSE PlannedMigration(tw.ddl))
    /\ tw' = [tw EXCEPT !.pc = "status"]
    /\ UNCHANGED <<tapi, cache, queues, ready, db, mw, cli, bounds, history>>

\* Both its spec and its status are replaced.
WriteMigration ==
    /\ tw.pc = "write" /\ WriteAccepted
    /\ Store(TWName, PlannedMigration(tw.ddl))
    /\ tw' = [tw EXCEPT !.pc = "status"]
    /\ approvals' = IF ImmediateDeploy THEN approvals \cup {<<TWName, tw.ddl>>} ELSE approvals
    /\ UNCHANGED <<tapi, cache, queues, ready, db, mw, cli, bounds, completed, inSync>>

\* Mutant: the error is not returned, and the Table is not queued again.
FailWithoutRequeue ==
    /\ tw' = IdleTW
    /\ tcurrent' = tcurrent \ {"tableWorker"} /\ Drop("tableWorker")
    /\ UNCHANGED <<table, migs, cache, queues, ready, db, mw, cli, edits, commands, history>>

\* An error ends the reconcile and queues the Table again.
Fail ==
    /\ tw' = IdleTW /\ tqueue' = TRUE
    /\ tcurrent' = tcurrent \ {"tableWorker"} /\ Drop("tableWorker")
    /\ UNCHANGED <<table, migs, cache, mqueue, ready, db, mw, cli, edits, commands, history>>

\* A conflict, or the migration was created since.
WriteRefused == tw.pc = "write" /\ ~WriteAccepted /\ Fail /\ UNCHANGED faults

\* The shipped tables CRD has no status subresource: every write is a 404.
StatusAccepted == "ok" \in StatusAnswers /\ "tableWorker" \in tcurrent

\* Writing the status that is stored already creates no new version.
UpdateStatus ==
    /\ tw.pc = "status" /\ StatusAccepted
    /\ table' = [table EXCEPT !.sha = TWName]
    /\ tcurrent' = IF table.sha = TWName THEN tcurrent \ {"tableWorker"} ELSE {}
    /\ tw' = IdleTW /\ Drop("tableWorker")
    /\ UNCHANGED <<migs, cache, queues, ready, db, mw, cli, bounds, history>>

\* 404 without the subresource, a conflict on a stale copy.
StatusRefused ==
    /\ tw.pc = "status"
    /\ "notFound" \in StatusAnswers \/ "tableWorker" \notin tcurrent
    /\ Fail
    /\ UNCHANGED faults

\* The database or the API server cannot be reached.
TableFault ==
    /\ tw.pc # "idle" /\ faults < MaxFaults
    /\ faults' = faults + 1
    /\ Fail

TableStep ==
    \/ SkipPlanned \/ StartPlan \/ Plan \/ GetExisting
    \/ WriteMigration \/ WriteRefused \/ UpdateStatus \/ StatusRefused
=============================================================================
