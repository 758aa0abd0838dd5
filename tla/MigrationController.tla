------------------------ MODULE MigrationController ------------------------
(***************************************************************************)
(* The migration controller's worker: it takes a name from its queue,      *)
(* reads the migration in the cache, runs its statements one by one, each  *)
(* committed by itself, and writes the outcome back.                       *)
(***************************************************************************)
EXTENDS Cluster

IdleMW == [pc |-> "idle", name |-> NoName, mig |-> AbsentMigration, todo |-> <<>>]

MigrationWorker == [pc : {"idle", "apply", "remark"},
                    name : Names, mig : Migration, todo : DDLs]

\* Mutant: the approval is not looked at.
shouldApplyUnapproved(m) == ~m.executedAt

\* Rejection and invalidation are not looked at.
shouldApplyMigration(m) == m.approvedAt /\ ~m.executedAt

\* Dequeue n.  The statements are those of the copy whose approval is checked.
SkipMigration(n) ==
    /\ mw.pc = "idle" /\ n \in mqueue
    /\ ~shouldApplyMigration(mcache[n])
    /\ mqueue' = mqueue \ {n}
    /\ UNCHANGED <<tapi, mapi, cache, tqueue, ready, db, tw, mw, cli, bounds, history>>

StartApply(n) ==
    /\ mw.pc = "idle" /\ n \in mqueue
    /\ shouldApplyMigration(mcache[n])
    /\ mqueue' = mqueue \ {n}
    /\ mw' = [pc |-> "apply", name |-> n, mig |-> mcache[n], todo |-> mcache[n].ddl]
    /\ FromCache(n, "migrationWorker")
    /\ UNCHANGED <<tapi, migs, cache, tqueue, ready, db, tw, cli, bounds, history>>

(***************************************************************************)
(* The database: adding a column that is there, or dropping one that is    *)
(* not, is an error; seed rows are inserted or updated.                    *)
(***************************************************************************)
Runs(d, st) == CASE st[1] = "add"  -> st[2] \notin d.cols
                 [] st[1] = "drop" -> st[2] \in d.cols
                 [] OTHER          -> TRUE

Run(d, st) == CASE st[1] = "add"  -> [d EXCEPT !.cols = @ \cup {st[2]}]
                [] st[1] = "drop" -> [d EXCEPT !.cols = @ \ {st[2]}]
                [] OTHER          -> [d EXCEPT !.seeded = TRUE]

\* One statement of DeployStatements.
ExecuteStatement ==
    /\ mw.pc = "apply" /\ mw.todo # <<>>
    /\ Runs(db, Head(mw.todo))
    /\ db' = Run(db, Head(mw.todo))
    /\ mw' = [mw EXCEPT !.todo = Tail(@)]
    /\ completed' = IF Len(mw.todo) = 1
                    THEN completed \cup {<<mw.name, mw.mig.ddl>>} ELSE completed
    /\ UNCHANGED <<tapi, mapi, cache, queues, ready, tw, cli, bounds, approvals, inSync>>

\* Mutant: the error is not returned, and the migration is not queued again.
RetryWithoutRequeue ==
    /\ mw' = IdleMW
    /\ Drop("migrationWorker")
    /\ UNCHANGED <<tapi, migs, cache, queues, ready, db, tw, cli, edits, commands, history>>

\* An error ends the reconcile and queues the migration again.
Retry ==
    /\ mw' = IdleMW /\ mqueue' = mqueue \cup {mw.name}
    /\ Drop("migrationWorker")
    /\ UNCHANGED <<tapi, migs, cache, tqueue, ready, db, tw, cli, edits, commands, history>>

\* DeployStatements stops at the first statement that fails; those before it stay.
StatementFails ==
    /\ mw.pc = "apply" /\ mw.todo # <<>>
    /\ ~Runs(db, Head(mw.todo))
    /\ Retry /\ UNCHANGED faults

\* All statements ran: the copy, marked executed, replaces the stored migration.
MarkExecuted ==
    /\ mw.pc = "apply" /\ mw.todo = <<>>
    /\ Accepts(mw.name, "migrationWorker")
    /\ Store(mw.name, [mw.mig EXCEPT !.executedAt = TRUE, !.phase = "EXECUTED"])
    /\ mw' = IdleMW
    /\ UNCHANGED <<tapi, cache, queues, ready, db, tw, cli, bounds, history>>

\* On a conflict the migration is read again, from the cache.  Once stale a copy
\* stays so, hence the refused Update and the read that follows it are one step.
GetUpdated ==
    /\ mw.pc = "apply" /\ mw.todo = <<>>
    /\ ~Accepts(mw.name, "migrationWorker")
    /\ mw' = [mw EXCEPT !.pc = "remark", !.mig = mcache[mw.name]]
    /\ FromCache(mw.name, "migrationWorker")
    /\ UNCHANGED <<tapi, migs, cache, queues, ready, db, tw, cli, bounds, history>>

\* Mutant: Phase too is set on the copy that was read again.
MarkUpdatedWithPhase ==
    /\ mw.pc = "remark"
    /\ Accepts(mw.name, "migrationWorker")
    /\ Store(mw.name, [mw.mig EXCEPT !.executedAt = TRUE, !.phase = "EXECUTED"])
    /\ mw' = IdleMW
    /\ UNCHANGED <<tapi, cache, queues, ready, db, tw, cli, bounds, history>>

\* ExecutedAt is set on the new copy; Phase is set on the old one, and lost.
MarkUpdated ==
    /\ mw.pc = "remark"
    /\ Accepts(mw.name, "migrationWorker")
    /\ Store(mw.name, [mw.mig EXCEPT !.executedAt = TRUE])
    /\ mw' = IdleMW
    /\ UNCHANGED <<tapi, cache, queues, ready, db, tw, cli, bounds, history>>

MarkRefused ==
    /\ mw.pc = "remark"
    /\ ~Accepts(mw.name, "migrationWorker")
    /\ Retry /\ UNCHANGED faults

\* The database or the API server cannot be reached.
MigrationFault ==
    /\ mw.pc # "idle" /\ faults < MaxFaults
    /\ faults' = faults + 1
    /\ Retry

ReconcileMigration(n) == SkipMigration(n) \/ StartApply(n)

ApplyStep ==
    ExecuteStatement \/ StatementFails \/ MarkExecuted \/ GetUpdated \/ MarkUpdated \/ MarkRefused

MigrationStep == ApplyStep \/ \E n \in Names : ReconcileMigration(n)
=============================================================================
