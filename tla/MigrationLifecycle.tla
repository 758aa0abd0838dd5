------------------------- MODULE MigrationLifecycle -------------------------
(***************************************************************************)
(* The life of a Table's migrations: users edit the spec, the table        *)
(* controller plans, operators approve or reject, the migration controller *)
(* applies, while the informer cache lags, calls fail and the controller   *)
(* process restarts.                                                       *)
(***************************************************************************)
EXTENDS TableController, MigrationController, KubectlPlugin

Init ==
    /\ table = [spec |-> FirstSpec, sha |-> NoSHA]
    /\ migs = [n \in Names |-> AbsentMigration]
    /\ tcache = table /\ tcurrent = {"cache"}
    /\ mcache = migs /\ mcurrent = [n \in Names |-> {"cache"}]
    /\ tqueue = TRUE /\ mqueue = {}
    /\ ready = FALSE
    /\ db = [cols |-> {}, seeded |-> FALSE]
    /\ tw = IdleTW /\ mw = IdleMW
    /\ cli = [o \in Operators |-> IdleCommand]
    /\ edits = 0 /\ commands = 0 /\ faults = 0
    /\ approvals = {} /\ completed = {} /\ inSync = {}

(***************************************************************************)
(* The users and the platform.                                             *)
(***************************************************************************)
\* A user applies another spec; the status stays.
EditTable(s) ==
    /\ edits < MaxEdits /\ s # table.spec
    /\ edits' = edits + 1
    /\ table' = [table EXCEPT !.spec = s] /\ tcurrent' = {}
    /\ UNCHANGED <<mapi, cache, queues, ready, db, tw, mw, cli, commands, faults, history>>

\* A watch event brings the Table, or a Migration, into the cache and its queue.
DeliverTable ==
    /\ "cache" \notin tcurrent
    /\ tcache' = table /\ tcurrent' = tcurrent \cup {"cache"}
    /\ tqueue' = TRUE
    /\ UNCHANGED <<table, mapi, mcache, mqueue, ready, db, tw, mw, cli, bounds, history>>

DeliverMigration(n) ==
    /\ "cache" \notin mcurrent[n]
    /\ mcache' = [mcache EXCEPT ![n] = migs[n]]
    /\ mcurrent' = [mcurrent EXCEPT ![n] = @ \cup {"cache"}]
    /\ mqueue' = mqueue \cup {n}
    /\ UNCHANGED <<tapi, migs, tcache, tqueue, ready, db, tw, mw, cli, bounds, history>>

\* The informers' periodic resync queues every object of the cache again.
Resync ==
    /\ tqueue' = TRUE
    /\ mqueue' = {n \in Names : Exists(mcache[n])}
    /\ UNCHANGED <<tapi, mapi, cache, ready, db, tw, mw, cli, bounds, history>>

\* The Database object, its controller pod and the required extensions come up.
BecomeReady ==
    /\ ~ready
    /\ ready' = TRUE
    /\ UNCHANGED <<tapi, mapi, cache, queues, db, tw, mw, cli, bounds, history>>

\* One of them goes away.
LoseReady ==
    /\ ready /\ faults < MaxFaults
    /\ ready' = FALSE
    /\ faults' = faults + 1
    /\ UNCHANGED <<tapi, mapi, cache, queues, db, tw, mw, cli, edits, commands, history>>

\* The controller process dies and starts again: it lists everything anew.
Restart ==
    /\ faults < MaxFaults
    /\ faults' = faults + 1
    /\ tw' = IdleTW /\ mw' = IdleMW
    /\ tcache' = table /\ tcurrent' = {"cache"}
    /\ mcache' = migs
    /\ mcurrent' = [n \in Names |->
                      (mcurrent[n] \cup {"cache"}) \ {"tableWorker", "migrationWorker"}]
    /\ tqueue' = TRUE
    /\ mqueue' = {n \in Names : Exists(migs[n])}
    /\ UNCHANGED <<table, migs, ready, db, cli, edits, commands, history>>

Deliver == DeliverTable \/ \E n \in Names : DeliverMigration(n)

Environment ==
    \/ \E s \in Specs : EditTable(s)
    \/ Deliver \/ Resync \/ BecomeReady \/ LoseReady \/ Restart

Next ==
    \/ TableStep \/ TableFault
    \/ MigrationStep \/ MigrationFault
    \/ OperatorStep
    \/ Environment

Spec == Init /\ [][Next]_vars

(***************************************************************************)
(* Each worker is a goroutine, and the informers deliver every change: all *)
(* of them go on while they can.  Nothing is assumed of the operators.     *)
(***************************************************************************)
Fairness ==
    /\ WF_vars(TableStep)
    /\ WF_vars(ApplyStep)
    /\ \A n \in Names : SF_vars(ReconcileMigration(n))
    /\ WF_vars(DeliverTable)
    /\ \A n \in Names : WF_vars(DeliverMigration(n))
    /\ WF_vars(BecomeReady)

FairSpec == Spec /\ Fairness

-----------------------------------------------------------------------------
\* Every variable has its type.
TypeOK ==
    /\ table \in Table /\ tcache \in Table
    /\ migs \in [Names -> Migration] /\ mcache \in [Names -> Migration]
    /\ tcurrent \in SUBSET Holders /\ mcurrent \in [Names -> SUBSET Holders]
    /\ tqueue \in BOOLEAN /\ mqueue \in SUBSET Names
    /\ ready \in BOOLEAN
    /\ db \in Databases
    /\ tw \in TableWorker /\ mw \in MigrationWorker
    /\ cli \in [Operators -> Command]
    /\ edits \in 0..MaxEdits /\ commands \in 0..MaxCommands /\ faults \in 0..MaxFaults
    /\ approvals \in SUBSET (Names \X DDLs)
    /\ completed \in SUBSET (Names \X DDLs)
    /\ inSync \in SUBSET Names

\* No statement runs on the database unless the whole text it belongs to was
\* approved under that migration's name: a plan written over an approved one
\* takes the approval away, and a worker runs the text it checked.
OnlyApprovedRuns == [][db' # db => <<mw.name, mw.mig.ddl>> \in approvals]_vars

\* The system implements ApprovalGate: the run in progress is the text in the
\* migration worker's hands from the check of the approval to the write of the
\* outcome.  However its parts interleave, fail and restart, all the database
\* ever sees is whole approved texts, one at a time, in order, or their prefixes.
Gate == INSTANCE ApprovalGate WITH
    EmptyDatabase <- [cols |-> {}, seeded |-> FALSE],
    approved <- approvals,
    done     <- completed,
    jobs     <- IF mw.pc = "apply"
                THEN {[name |-> mw.name, text |-> mw.mig.ddl, left |-> mw.todo]} ELSE {}

ImplementsGate == Gate!Spec

\* A migration in phase EXECUTED holds exactly a text that ran to its end: the
\* phase is written only onto the version that was applied.
ExecutedPhaseIsTrue ==
    \A n \in Names : migs[n].phase = "EXECUTED" => <<n, migs[n].ddl>> \in completed

\* The early return on an unchanged SHA never hides work: a recorded SHA means
\* the migration of that name was written, or that the database was in sync.
RecordedMeansPlanned ==
    table.sha # NoSHA => table.sha \in inSync \/ Exists(migs[table.sha])

\* "To deny and cancel this migration": a rejected migration is never run.
RejectedNeverApplied == mw.pc = "apply" => mw.mig.phase # "REJECTED"

\* "To apply this migration: approve migration": a migration an operator
\* approved is not one the migration controller takes for executed while its
\* text never ran.
ApprovedIsNotWrittenOff ==
    \A n \in Names : migs[n].phase = "APPROVED" /\ migs[n].executedAt
                        => <<n, migs[n].ddl>> \in completed

\* Every spec that stays is eventually planned and its SHA recorded, so that
\* later reconciles return early, through conflicts, stale reads and restarts.
SpecEventuallyRecorded ==
    \A s \in Specs : table.spec = s ~> table.sha = SHA(s) \/ table.spec # s

\* A spec that stays is in the end planned against the database as it is, and
\* the plan stays offered: the database is in sync with the spec, or the migration
\* of that name has the statements that are missing now.  Nothing that was planned
\* before a conflict, a stale read, a restart or another migration's run is left.
PlanKeepsUp ==
    \A s \in Specs :
        LET n == SHA(AfterPlan(s)) IN
        <>[](table.spec = s) =>
        <>[](PlanTable(db, n) \in {<<>>, migs[n].ddl})

\* A migration waiting to be run is eventually marked executed, or loses its
\* approval to a new plan, or meets a database its next statement cannot run on.
Waiting(n) == Exists(migs[n]) /\ shouldApplyMigration(migs[n])

ApprovedProceeds ==
    \A n \in Names : Waiting(n) ~> ~Waiting(n) \/ ~Runs(db, Head(migs[n].ddl))
=============================================================================
