-------------------------- MODULE LifecycleProofs --------------------------
(***************************************************************************)
(* Theorems about MigrationLifecycle, for every set of specs, every        *)
(* planner, every number of operators and every bound.                     *)
(***************************************************************************)
EXTENDS MigrationLifecycle, SequenceTheorems, TLAPS

(***************************************************************************)
(* The spec a table worker holds is the user's until planning rewrites it, *)
(* and it writes no migration without statements.                          *)
(***************************************************************************)
WorkerSpec ==
    /\ tw.pc = "plan" => tw.spec \in Specs
    /\ tw.pc \in {"get", "write", "status"} => tw.spec \in Names
    /\ tw.pc \in {"get", "write"} => tw.ddl # <<>>

Typed == TypeOK /\ WorkerSpec

LEMMA NamesFacts ==
    /\ NoName \in Names
    /\ \A s \in Specs : AfterPlan(s) \in Names
    /\ FirstSpec \in Specs
    /\ NoSHA \notin Names
  <1>1. FirstSpec \in Specs
    BY ClusterAssumption
  <1>2. \A s \in Specs : AfterPlan(s) \in Names
    BY DEF Names, SHA
  <1>3. \A s \in Specs : AfterPlan(s).default # "unplanned"
    <2> TAKE s \in Specs
    <2>1. s \in TableSpec
      BY ClusterAssumption
    <2> QED
      BY <2>1 DEF AfterPlan, TableSpec
  <1>4. NoSHA \notin Names
    BY <1>3 DEF Names, SHA, NoSHA
  <1> QED
    BY <1>1, <1>2, <1>4 DEF NoName, SHA

LEMMA RecordTypes ==
    /\ AbsentMigration \in Migration
    /\ IdleTW \in TableWorker
    /\ IdleMW \in MigrationWorker
    /\ IdleCommand \in Command
    /\ \A d \in DDLs : PlannedMigration(d) \in Migration
  <1>1. <<>> \in DDLs
    BY DEF DDLs
  <1>2. AbsentMigration \in Migration
    BY <1>1 DEF AbsentMigration, Migration, Phases
  <1>3. IdleTW \in TableWorker
    BY <1>1, NamesFacts DEF IdleTW, TableWorker
  <1>4. IdleMW \in MigrationWorker
    BY <1>1, <1>2, NamesFacts DEF IdleMW, MigrationWorker
  <1>5. IdleCommand \in Command
    BY <1>2, NamesFacts DEF IdleCommand, Command
  <1>6. \A d \in DDLs : PlannedMigration(d) \in Migration
    BY ClusterAssumption, <1>2 DEF PlannedMigration, AbsentMigration, Migration, Phases
  <1> QED
    BY <1>2, <1>3, <1>4, <1>5, <1>6

LEMMA InitTyped == Init => Typed
  <1> SUFFICES ASSUME Init PROVE Typed
    OBVIOUS
  <1> USE DEF Init
  <1>1. table \in Table /\ tcache \in Table
    BY NamesFacts DEF Table
  <1>2. migs \in [Names -> Migration] /\ mcache \in [Names -> Migration]
    BY RecordTypes
  <1>3. tcurrent \in SUBSET Holders /\ mcurrent \in [Names -> SUBSET Holders]
    BY DEF Holders
  <1>4. tqueue \in BOOLEAN /\ mqueue \in SUBSET Names /\ ready \in BOOLEAN
    OBVIOUS
  <1>5. db \in Databases
    BY DEF Databases
  <1>6. tw \in TableWorker /\ mw \in MigrationWorker /\ cli \in [Operators -> Command]
    BY RecordTypes
  <1>7. edits \in 0..MaxEdits /\ commands \in 0..MaxCommands /\ faults \in 0..MaxFaults
    BY ClusterAssumption
  <1>8. /\ approvals \in SUBSET (Names \X DDLs)
        /\ completed \in SUBSET (Names \X DDLs)
        /\ inSync \in SUBSET Names
    OBVIOUS
  <1>9. WorkerSpec
    BY DEF WorkerSpec, IdleTW
  <1> QED
    BY <1>1, <1>2, <1>3, <1>4, <1>5, <1>6, <1>7, <1>8, <1>9 DEF Typed, TypeOK

(***************************************************************************)
(* What the marks on a migration, and the bookkeeping of versions, keep.   *)
(***************************************************************************)
LEMMA MarkedTypes ==
    ASSUME NEW m \in Migration
    PROVE  /\ [m EXCEPT !.executedAt = TRUE, !.phase = "EXECUTED"] \in Migration
           /\ [m EXCEPT !.executedAt = TRUE] \in Migration
           /\ [m EXCEPT !.approvedAt = TRUE, !.phase = "APPROVED"] \in Migration
           /\ [m EXCEPT !.rejectedAt = TRUE, !.phase = "REJECTED"] \in Migration
  BY DEF Migration, Phases

LEMMA VersionTypes ==
    ASSUME mcurrent \in [Names -> SUBSET Holders], NEW n, NEW h \in Holders
    PROVE  /\ FromServer(n, h) => mcurrent' \in [Names -> SUBSET Holders]
           /\ FromCache(n, h) => mcurrent' \in [Names -> SUBSET Holders]
           /\ Drop(h) => mcurrent' \in [Names -> SUBSET Holders]
  BY DEF FromServer, FromCache, Drop

\* Who holds the stored version after a copy was taken or given up.
LEMMA VersionEffects ==
    ASSUME NEW n, NEW h, NEW k \in Names, NEW g \in mcurrent'[k]
    PROVE  /\ FromServer(n, h) => (g # h /\ g \in mcurrent[k]) \/ (g = h /\ k = n)
           /\ FromCache(n, h) => \/ g # h /\ g \in mcurrent[k]
                                 \/ g = h /\ k = n /\ "cache" \in mcurrent[k]
           /\ Drop(h) => g # h /\ g \in mcurrent[k]
  BY DEF FromServer, FromCache, Drop

LEMMA StoreTypes ==
    ASSUME migs \in [Names -> Migration], mcurrent \in [Names -> SUBSET Holders],
           NEW n \in Names, NEW m \in Migration, Store(n, m)
    PROVE  migs' \in [Names -> Migration] /\ mcurrent' \in [Names -> SUBSET Holders]
  BY DEF Store

LEMMA HoldersFacts ==
    /\ "cache" \in Holders /\ "tableWorker" \in Holders /\ "migrationWorker" \in Holders
    /\ \A o \in Operators : o \in Holders /\ o \notin {"cache", "tableWorker", "migrationWorker"}
  BY ClusterAssumption DEF Holders

LEMMA FieldTypes ==
    ASSUME TypeOK
    PROVE  /\ table.spec \in Specs /\ tcache.spec \in Specs
           /\ tw.ddl \in DDLs /\ tw.found \in BOOLEAN
           /\ mw.name \in Names /\ mw.mig \in Migration /\ mw.todo \in DDLs
           /\ \A m \in Migration : m.ddl \in DDLs
           /\ \A o \in Operators : cli[o].name \in Names /\ cli[o].mig \in Migration
  BY DEF TypeOK, Table, TableWorker, MigrationWorker, Migration, Command

\* Statements of a text keep the database within its type.
LEMMA RunTypes ==
    ASSUME NEW d \in Databases, NEW st \in Statements
    PROVE  Run(d, st) \in Databases
  <1>1. CASE st[1] = "add"
    <2>1. st[2] \in Columns
      BY <1>1 DEF Statements
    <2> QED
      BY <1>1, <2>1 DEF Run, Databases
  <1>2. CASE st[1] = "drop"
    BY <1>2 DEF Run, Databases
  <1>3. CASE st[1] \notin {"add", "drop"}
    BY <1>3 DEF Run, Databases
  <1> QED
    BY <1>1, <1>2, <1>3

LEMMA TextSteps ==
    ASSUME NEW q \in DDLs, q # <<>>
    PROVE  /\ Head(q) \in Statements /\ Tail(q) \in DDLs
           /\ Len(q) = 1 <=> Tail(q) = <<>>
  <1>1. Len(q) \in Nat /\ Len(q) # 0
    BY EmptySeq, LenProperties DEF DDLs
  <1>2. /\ Head(q) \in Statements /\ Tail(q) \in Seq(Statements)
        /\ Len(Tail(q)) = Len(q) - 1
    BY HeadTailProperties DEF DDLs
  <1>3. Tail(q) = <<>> <=> Len(Tail(q)) = 0
    BY <1>2, EmptySeq
  <1> QED
    BY <1>1, <1>2, <1>3 DEF DDLs

\* Ends of a reconcile.
LEMMA FailTyped ==
    ASSUME Typed, Fail, faults' \in 0..MaxFaults
    PROVE  Typed'
  <1>1. mcurrent' \in [Names -> SUBSET Holders]
    BY VersionTypes, HoldersFacts DEF Typed, TypeOK, Fail
  <1>2. tw' \in TableWorker /\ WorkerSpec'
    BY RecordTypes DEF Fail, WorkerSpec, IdleTW
  <1> QED
    BY <1>1, <1>2 DEF Typed, TypeOK, Fail, cache, history

LEMMA RetryTyped ==
    ASSUME Typed, Retry, faults' \in 0..MaxFaults
    PROVE  Typed'
  <1>1. mcurrent' \in [Names -> SUBSET Holders]
    BY VersionTypes, HoldersFacts DEF Typed, TypeOK, Retry
  <1>2. mw' \in MigrationWorker /\ mqueue' \in SUBSET Names
    BY RecordTypes, FieldTypes DEF Typed, TypeOK, Retry
  <1> QED
    BY <1>1, <1>2 DEF Typed, TypeOK, WorkerSpec, Retry, tapi, cache, history

LEMMA NextTyped == Typed /\ [Next]_vars => Typed'
  <1> SUFFICES ASSUME Typed, [Next]_vars PROVE Typed'
    OBVIOUS
  <1>1. ASSUME SkipPlanned PROVE Typed'
    BY <1>1 DEF Typed, TypeOK, WorkerSpec, SkipPlanned, tapi, mapi, cache, bounds, history
  <1>2. ASSUME StartPlan PROVE Typed'
    <2>1. tw' \in TableWorker /\ WorkerSpec'
      BY <1>2, RecordTypes, FieldTypes DEF Typed, StartPlan, TableWorker, WorkerSpec, IdleTW
    <2>2. tcurrent' \in SUBSET Holders
      BY <1>2, HoldersFacts DEF Typed, TypeOK, StartPlan
    <2> QED
      BY <1>2, <2>1, <2>2 DEF Typed, TypeOK, StartPlan, mapi, cache, bounds, history
  <1>3. ASSUME Plan PROVE Typed'
    <2>1. AfterPlan(tw.spec) \in Names
      BY <1>3, NamesFacts DEF Typed, WorkerSpec, Plan
    <2>2. PlanTable(db, AfterPlan(tw.spec)) \in DDLs
      BY <2>1, PlannerAssumption DEF Typed, TypeOK
    <2>3. tw' \in TableWorker /\ WorkerSpec'
      BY <1>3, <2>1, <2>2 DEF Typed, TypeOK, Plan, TableWorker, WorkerSpec
    <2>4. inSync' \in SUBSET Names
      BY <1>3, <2>1 DEF Typed, TypeOK, Plan, SHA
    <2> QED
      BY <1>3, <2>3, <2>4
         DEF Typed, TypeOK, Plan, tapi, mapi, cache, queues, bounds
  <1>4. ASSUME GetExisting PROVE Typed'
    <2>1. tw' \in TableWorker /\ WorkerSpec'
      BY <1>4 DEF Typed, TypeOK, GetExisting, TableWorker, WorkerSpec, Exists
    <2>2. mcurrent' \in [Names -> SUBSET Holders]
      BY <1>4, VersionTypes, HoldersFacts DEF Typed, TypeOK, GetExisting
    <2> QED
      BY <1>4, <2>1, <2>2 DEF Typed, TypeOK, GetExisting, tapi, cache, queues, bounds, history
  <1>5. ASSUME WriteMigration PROVE Typed'
    <2>1. TWName \in Names /\ tw.ddl \in DDLs
      BY <1>5, FieldTypes DEF Typed, WorkerSpec, WriteMigration, TWName, SHA
    <2>2. migs' \in [Names -> Migration] /\ mcurrent' \in [Names -> SUBSET Holders]
      BY <1>5, <2>1, RecordTypes, StoreTypes DEF Typed, TypeOK, WriteMigration
    <2>3. tw' \in TableWorker /\ WorkerSpec'
      BY <1>5 DEF Typed, TypeOK, WriteMigration, TableWorker, WorkerSpec
    <2>4. approvals' \in SUBSET (Names \X DDLs)
      BY <1>5, <2>1 DEF Typed, TypeOK, WriteMigration
    <2> QED
      BY <1>5, <2>2, <2>3, <2>4 DEF Typed, TypeOK, WriteMigration, tapi, cache, queues, bounds
  <1>6. ASSUME WriteRefused PROVE Typed'
    BY <1>6, FailTyped DEF Typed, TypeOK, WriteRefused
  <1>7. ASSUME UpdateStatus PROVE Typed'
    <2>1. TWName \in Names
      BY <1>7 DEF Typed, WorkerSpec, UpdateStatus, TWName, SHA
    <2>2. table' \in Table /\ tcurrent' \in SUBSET Holders
      BY <1>7, <2>1 DEF Typed, TypeOK, UpdateStatus, Table
    <2>3. tw' \in TableWorker /\ WorkerSpec'
      BY <1>7, RecordTypes DEF UpdateStatus, WorkerSpec, IdleTW
    <2>4. mcurrent' \in [Names -> SUBSET Holders]
      BY <1>7, VersionTypes, HoldersFacts DEF Typed, TypeOK, UpdateStatus
    <2> QED
      BY <1>7, <2>2, <2>3, <2>4 DEF Typed, TypeOK, UpdateStatus, cache, queues, bounds, history
  <1>8. ASSUME StatusRefused PROVE Typed'
    BY <1>8, FailTyped DEF Typed, TypeOK, StatusRefused
  <1>9. ASSUME TableFault PROVE Typed'
    <2>1. faults' \in 0..MaxFaults
      BY <1>9, ClusterAssumption DEF Typed, TypeOK, TableFault
    <2> QED
      BY <1>9, <2>1, FailTyped DEF TableFault
  <1>10. ASSUME NEW n \in Names, SkipMigration(n) PROVE Typed'
    BY <1>10 DEF Typed, TypeOK, WorkerSpec, SkipMigration, tapi, mapi, cache, bounds, history
  <1>11. ASSUME NEW n \in Names, StartApply(n) PROVE Typed'
    <2>1. mcache[n] \in Migration /\ mcache[n].ddl \in DDLs
      BY FieldTypes DEF Typed, TypeOK
    <2>2. mw' \in MigrationWorker
      BY <1>11, <2>1 DEF StartApply, MigrationWorker
    <2>3. mcurrent' \in [Names -> SUBSET Holders]
      BY <1>11, VersionTypes, HoldersFacts DEF Typed, TypeOK, StartApply
    <2> QED
      BY <1>11, <2>2, <2>3
         DEF Typed, TypeOK, WorkerSpec, StartApply, tapi, cache, bounds, history
  <1>12. ASSUME ExecuteStatement PROVE Typed'
    <2>1. mw.todo \in DDLs /\ mw.name \in Names /\ mw.mig.ddl \in DDLs
      BY FieldTypes DEF Typed
    <2>2. db' \in Databases
      BY <1>12, <2>1, TextSteps, RunTypes DEF Typed, TypeOK, ExecuteStatement
    <2>3. mw' \in MigrationWorker
      BY <1>12, <2>1, TextSteps DEF Typed, TypeOK, ExecuteStatement, MigrationWorker
    <2>4. completed' \in SUBSET (Names \X DDLs)
      BY <1>12, <2>1 DEF Typed, TypeOK, ExecuteStatement
    <2> QED
      BY <1>12, <2>2, <2>3, <2>4
         DEF Typed, TypeOK, WorkerSpec, ExecuteStatement, tapi, mapi, cache, queues, bounds
  <1>13. ASSUME StatementFails PROVE Typed'
    BY <1>13, RetryTyped DEF Typed, TypeOK, StatementFails
  <1>14. ASSUME MarkExecuted PROVE Typed'
    <2>1. migs' \in [Names -> Migration] /\ mcurrent' \in [Names -> SUBSET Holders]
      BY <1>14, FieldTypes, MarkedTypes, StoreTypes DEF Typed, TypeOK, MarkExecuted
    <2>2. mw' \in MigrationWorker
      BY <1>14, RecordTypes DEF MarkExecuted
    <2> QED
      BY <1>14, <2>1, <2>2
         DEF Typed, TypeOK, WorkerSpec, MarkExecuted, tapi, cache, queues, bounds, history
  <1>15. ASSUME GetUpdated PROVE Typed'
    <2>1. mw.name \in Names /\ mcache[mw.name] \in Migration
      BY FieldTypes DEF Typed, TypeOK
    <2>2. mw' \in MigrationWorker
      BY <1>15, <2>1 DEF Typed, TypeOK, GetUpdated, MigrationWorker
    <2>3. mcurrent' \in [Names -> SUBSET Holders]
      BY <1>15, VersionTypes, HoldersFacts DEF Typed, TypeOK, GetUpdated
    <2> QED
      BY <1>15, <2>2, <2>3
         DEF Typed, TypeOK, WorkerSpec, GetUpdated, tapi, cache, queues, bounds, history
  <1>16. ASSUME MarkUpdated PROVE Typed'
    <2>1. migs' \in [Names -> Migration] /\ mcurrent' \in [Names -> SUBSET Holders]
      BY <1>16, FieldTypes, MarkedTypes, StoreTypes DEF Typed, TypeOK, MarkUpdated
    <2>2. mw' \in MigrationWorker
      BY <1>16, RecordTypes DEF MarkUpdated
    <2> QED
      BY <1>16, <2>1, <2>2
         DEF Typed, TypeOK, WorkerSpec, MarkUpdated, tapi, cache, queues, bounds, history
  <1>17. ASSUME MarkRefused PROVE Typed'
    BY <1>17, RetryTyped DEF Typed, TypeOK, MarkRefused
  <1>18. ASSUME MigrationFault PROVE Typed'
    <2>1. faults' \in 0..MaxFaults
      BY <1>18, ClusterAssumption DEF Typed, TypeOK, MigrationFault
    <2> QED
      BY <1>18, <2>1, RetryTyped DEF MigrationFault
  <1>19. ASSUME NEW o \in Operators, NEW n \in Names,
               NEW v \in {"approve", "reject"}, GetMigration(o, n, v) PROVE Typed'
    <2>1. cli' \in [Operators -> Command]
      BY <1>19 DEF Typed, TypeOK, GetMigration, Command
    <2>2. commands' \in 0..MaxCommands
      BY <1>19, ClusterAssumption DEF Typed, TypeOK, GetMigration
    <2>3. mcurrent' \in [Names -> SUBSET Holders]
      BY <1>19, VersionTypes, HoldersFacts DEF Typed, TypeOK, GetMigration
    <2> QED
      BY <1>19, <2>1, <2>2, <2>3
         DEF Typed, TypeOK, WorkerSpec, GetMigration, tapi, cache, queues, history
  <1>20. ASSUME NEW o \in Operators, Approve(o) PROVE Typed'
    <2>1. migs' \in [Names -> Migration] /\ mcurrent' \in [Names -> SUBSET Holders]
      BY <1>20, FieldTypes, MarkedTypes, StoreTypes DEF Typed, TypeOK, Approve
    <2>2. cli' \in [Operators -> Command]
      BY <1>20, RecordTypes DEF Typed, TypeOK, Approve
    <2>3. approvals' \in SUBSET (Names \X DDLs)
      BY <1>20, FieldTypes DEF Typed, TypeOK, Approve
    <2> QED
      BY <1>20, <2>1, <2>2, <2>3
         DEF Typed, TypeOK, WorkerSpec, Approve, tapi, cache, queues, bounds
  <1>21. ASSUME NEW o \in Operators, Reject(o) PROVE Typed'
    <2>1. migs' \in [Names -> Migration] /\ mcurrent' \in [Names -> SUBSET Holders]
      BY <1>21, FieldTypes, MarkedTypes, StoreTypes DEF Typed, TypeOK, Reject
    <2>2. cli' \in [Operators -> Command]
      BY <1>21, RecordTypes DEF Typed, TypeOK, Reject
    <2> QED
      BY <1>21, <2>1, <2>2
         DEF Typed, TypeOK, WorkerSpec, Reject, tapi, cache, queues, bounds, history
  <1>22. ASSUME NEW o \in Operators, CommandRefused(o) PROVE Typed'
    <2>1. cli' \in [Operators -> Command]
      BY <1>22, RecordTypes DEF Typed, TypeOK, CommandRefused
    <2> QED
      BY <1>22, <2>1
         DEF Typed, TypeOK, WorkerSpec, CommandRefused, tapi, mapi, cache, queues, bounds, history
  <1>23. ASSUME Recalculate PROVE Typed'
    <2>1. edits' \in 0..MaxEdits
      BY <1>23, ClusterAssumption DEF Typed, TypeOK, Recalculate
    <2>2. tcurrent' \in SUBSET Holders
      BY <1>23 DEF Recalculate
    <2> QED
      BY <1>23, <2>1, <2>2 DEF Typed, TypeOK, WorkerSpec, Recalculate, mapi, cache, queues, history
  <1>24. ASSUME NEW s \in Specs, EditTable(s) PROVE Typed'
    <2>1. edits' \in 0..MaxEdits
      BY <1>24, ClusterAssumption DEF Typed, TypeOK, EditTable
    <2>2. table' \in Table /\ tcurrent' \in SUBSET Holders
      BY <1>24 DEF Typed, TypeOK, EditTable, Table
    <2> QED
      BY <1>24, <2>1, <2>2 DEF Typed, TypeOK, WorkerSpec, EditTable, mapi, cache, queues, history
  <1>25. ASSUME DeliverTable PROVE Typed'
    BY <1>25, HoldersFacts
       DEF Typed, TypeOK, WorkerSpec, DeliverTable, mapi, bounds, history
  <1>26. ASSUME NEW n \in Names, DeliverMigration(n) PROVE Typed'
    BY <1>26, HoldersFacts
       DEF Typed, TypeOK, WorkerSpec, DeliverMigration, tapi, bounds, history
  <1>27. ASSUME Resync PROVE Typed'
    BY <1>27 DEF Typed, TypeOK, WorkerSpec, Resync, tapi, mapi, cache, bounds, history
  <1>28. ASSUME BecomeReady PROVE Typed'
    BY <1>28 DEF Typed, TypeOK, WorkerSpec, BecomeReady, tapi, mapi, cache, queues, bounds, history
  <1>29. ASSUME LoseReady PROVE Typed'
    <2>1. faults' \in 0..MaxFaults
      BY <1>29, ClusterAssumption DEF Typed, TypeOK, LoseReady
    <2>2. ready' \in BOOLEAN
      BY <1>29 DEF LoseReady
    <2> QED
      BY <1>29, <2>1, <2>2 DEF Typed, TypeOK, WorkerSpec, LoseReady, tapi, mapi, cache, queues, history
  <1>30. ASSUME Restart PROVE Typed'
    <2>1. faults' \in 0..MaxFaults
      BY <1>30, ClusterAssumption DEF Typed, TypeOK, Restart
    <2>2. tw' \in TableWorker /\ WorkerSpec' /\ mw' \in MigrationWorker
      BY <1>30, RecordTypes DEF Restart, WorkerSpec, IdleTW
    <2>3. tcurrent' \in SUBSET Holders /\ mcurrent' \in [Names -> SUBSET Holders]
      BY <1>30, HoldersFacts DEF Typed, TypeOK, Restart
    <2>4. tqueue' \in BOOLEAN /\ mqueue' \in SUBSET Names
      BY <1>30 DEF Restart
    <2> QED
      BY <1>30, <2>1, <2>2, <2>3, <2>4 DEF Typed, TypeOK, Restart, history
  <1>31. ASSUME UNCHANGED vars PROVE Typed'
    BY <1>31
       DEF Typed, TypeOK, WorkerSpec, vars, tapi, mapi, cache, queues, bounds, history
  <1> QED
    BY <1>1, <1>2, <1>3, <1>4, <1>5, <1>6, <1>7, <1>8, <1>9, <1>10, <1>11,
       <1>12, <1>13, <1>14, <1>15, <1>16, <1>17, <1>18, <1>19, <1>20, <1>21, <1>22,
       <1>23, <1>24, <1>25, <1>26, <1>27, <1>28, <1>29, <1>30, <1>31
       DEF Next, TableStep, MigrationStep, ApplyStep, ReconcileMigration, OperatorStep,
           Environment, Deliver

(***************************************************************************)
(* The invariant on the migrations' side.                                  *)
(*                                                                         *)
(* CopiesAgree: a copy whose version is the stored one is the stored       *)
(* object.  This is what the API server's conflict check buys: whoever     *)
(* writes back a whole copy changes only the fields it meant to.           *)
(*                                                                         *)
(* ApprovedTexts: an approval, stored, cached or in the worker's hands,    *)
(* stands beside the text it was given for.                                *)
(*                                                                         *)
(* ExecutedTexts: a worker that ran out of statements ran the whole text,  *)
(* so the phase EXECUTED is true of the text beside it.                    *)
(***************************************************************************)
CopiesAgree ==
    /\ \A n \in Names : "cache" \in mcurrent[n] => mcache[n] = migs[n]
    /\ mw.pc # "idle" /\ "migrationWorker" \in mcurrent[mw.name] => mw.mig = migs[mw.name]
    /\ \A o \in Operators :
          cli[o].pc # "idle" /\ o \in mcurrent[cli[o].name] => cli[o].mig = migs[cli[o].name]

ApprovedText(n, m) == m.approvedAt => m.ddl # <<>> /\ <<n, m.ddl>> \in approvals

ApprovedTexts ==
    /\ \A n \in Names : ApprovedText(n, migs[n]) /\ ApprovedText(n, mcache[n])
    /\ \A n \in Names : migs[n].phase = "PLANNED" => migs[n].ddl # <<>>
    /\ mw.pc = "apply" => <<mw.name, mw.mig.ddl>> \in approvals
    /\ \A o \in Operators : cli[o].pc # "idle" => cli[o].mig.ddl # <<>>

ExecutedTexts ==
    /\ ExecutedPhaseIsTrue
    /\ mw.pc = "apply" /\ mw.todo = <<>> => <<mw.name, mw.mig.ddl>> \in completed

MigrationInv == CopiesAgree /\ ApprovedTexts /\ ExecutedTexts

LEMMA InitMigrationInv == Init => MigrationInv
  <1> SUFFICES ASSUME Init PROVE MigrationInv
    OBVIOUS
  <1>1. CopiesAgree
    BY DEF Init, CopiesAgree, IdleMW, IdleCommand
  <1>2. ApprovedTexts
    BY DEF Init, ApprovedTexts, ApprovedText, AbsentMigration, IdleMW, IdleCommand
  <1>3. ExecutedTexts
    BY DEF Init, ExecutedTexts, ExecutedPhaseIsTrue, AbsentMigration, IdleMW
  <1> QED
    BY <1>1, <1>2, <1>3 DEF MigrationInv

(***************************************************************************)
(* The steps that matter on the migrations' side.                          *)
(***************************************************************************)
migrationSide == <<migs, mcurrent, mcache, mw, cli, approvals, completed>>

TableWorkerLeaves ==
    Drop("tableWorker") /\ UNCHANGED <<migs, mcache, mw, cli, approvals, completed>>

LEMMA MigrationSideSteps ==
    ASSUME [Next]_vars
    PROVE  \/ UNCHANGED migrationSide
           \/ TableWorkerLeaves \/ GetExisting \/ WriteMigration
           \/ \E n \in Names : StartApply(n) \/ DeliverMigration(n)
           \/ ExecuteStatement \/ Retry \/ MarkExecuted \/ GetUpdated \/ MarkUpdated
           \/ \E o \in Operators :
                 \/ \E n \in Names, v \in {"approve", "reject"} : GetMigration(o, n, v)
                 \/ Approve(o) \/ Reject(o) \/ CommandRefused(o)
           \/ Restart
  <1>1. SkipPlanned \/ StartPlan \/ Plan => UNCHANGED migrationSide
    BY DEF SkipPlanned, StartPlan, Plan, migrationSide, mapi, cache, history
  <1>2. WriteRefused \/ StatusRefused \/ TableFault \/ UpdateStatus => TableWorkerLeaves
    BY DEF WriteRefused, StatusRefused, TableFault, UpdateStatus, Fail, TableWorkerLeaves,
           cache, history
  <1>3. \A n \in Names : SkipMigration(n) => UNCHANGED migrationSide
    BY DEF SkipMigration, migrationSide, mapi, cache, history
  <1>4. StatementFails \/ MarkRefused \/ MigrationFault => Retry
    BY DEF StatementFails, MarkRefused, MigrationFault
  <1>5. Recalculate => UNCHANGED migrationSide
    BY DEF Recalculate, migrationSide, mapi, cache, history
  <1>6. (\E s \in Specs : EditTable(s)) => UNCHANGED migrationSide
    BY DEF EditTable, migrationSide, mapi, cache, history
  <1>7. DeliverTable \/ Resync \/ BecomeReady \/ LoseReady => UNCHANGED migrationSide
    BY DEF DeliverTable, Resync, BecomeReady, LoseReady, migrationSide, mapi, cache, history
  <1>8. UNCHANGED vars => UNCHANGED migrationSide
    BY DEF vars, migrationSide, mapi, cache, history
  <1> QED
    BY <1>1, <1>2, <1>3, <1>4, <1>5, <1>6, <1>7, <1>8
       DEF Next, TableStep, MigrationStep, ApplyStep, ReconcileMigration, OperatorStep,
           Environment, Deliver

LEMMA NextMigrationInv == Typed /\ MigrationInv /\ [Next]_vars => MigrationInv'
  <1> SUFFICES ASSUME Typed, MigrationInv, [Next]_vars PROVE MigrationInv'
    OBVIOUS
  <1>1. ASSUME UNCHANGED migrationSide PROVE MigrationInv'
    <2>1. CopiesAgree'
      BY <1>1 DEF MigrationInv, Typed, TypeOK, CopiesAgree, migrationSide
    <2>2. ApprovedTexts'
      BY <1>1 DEF MigrationInv, Typed, TypeOK, ApprovedTexts, ApprovedText, migrationSide
    <2>3. ExecutedTexts'
      BY <1>1 DEF MigrationInv, Typed, TypeOK, ExecutedTexts, ExecutedPhaseIsTrue, migrationSide
    <2> QED
      BY <2>1, <2>2, <2>3 DEF MigrationInv
  <1>2. ASSUME TableWorkerLeaves PROVE MigrationInv'
    <2>1. CopiesAgree'
      BY <1>2, HoldersFacts, FieldTypes, VersionEffects
         DEF MigrationInv, Typed, TypeOK, CopiesAgree, TableWorkerLeaves
    <2>2. ApprovedTexts'
      BY <1>2 DEF MigrationInv, Typed, TypeOK, ApprovedTexts, ApprovedText, TableWorkerLeaves
    <2>3. ExecutedTexts'
      BY <1>2 DEF MigrationInv, Typed, TypeOK, ExecutedTexts, ExecutedPhaseIsTrue, TableWorkerLeaves
    <2> QED
      BY <2>1, <2>2, <2>3 DEF MigrationInv
  <1>3. ASSUME GetExisting PROVE MigrationInv'
    <2>1. CopiesAgree'
      <3>1. \A k \in Names, g \in Holders :
              g \in mcurrent'[k] /\ g # "tableWorker" => g \in mcurrent[k]
        BY <1>3, VersionEffects DEF GetExisting
      <3> QED
        BY <1>3, <3>1, HoldersFacts, FieldTypes
           DEF MigrationInv, Typed, CopiesAgree, GetExisting, cache
    <2>2. ApprovedTexts'
      BY <1>3 DEF MigrationInv, Typed, TypeOK, ApprovedTexts, ApprovedText, GetExisting, cache, history
    <2>3. ExecutedTexts'
      BY <1>3 DEF MigrationInv, Typed, TypeOK, ExecutedTexts, ExecutedPhaseIsTrue, GetExisting, history
    <2> QED
      BY <2>1, <2>2, <2>3 DEF MigrationInv
  <1>4. ASSUME WriteMigration PROVE MigrationInv'
    <2>1. CopiesAgree'
      BY <1>4, FieldTypes DEF MigrationInv, Typed, TypeOK, CopiesAgree, WriteMigration, Store, TWName, SHA, WorkerSpec, cache
    <2>2. ApprovedTexts'
      BY <1>4, FieldTypes DEF MigrationInv, Typed, TypeOK, ApprovedTexts, ApprovedText, WriteMigration, Store, TWName, SHA, WorkerSpec, PlannedMigration, AbsentMigration, cache
    <2>3. ExecutedTexts'
      BY <1>4, FieldTypes DEF MigrationInv, Typed, TypeOK, ExecutedTexts, ExecutedPhaseIsTrue, WriteMigration, Store, TWName, SHA, WorkerSpec, PlannedMigration, AbsentMigration
    <2> QED
      BY <2>1, <2>2, <2>3 DEF MigrationInv
  <1>5. ASSUME NEW n \in Names, StartApply(n) PROVE MigrationInv'
    <2>1. CopiesAgree'
      <3>1. \A k \in Names, g \in Holders : g \in mcurrent'[k] =>
              \/ g # "migrationWorker" /\ g \in mcurrent[k]
              \/ g = "migrationWorker" /\ k = n /\ "cache" \in mcurrent[k]
        BY <1>5, VersionEffects DEF StartApply
      <3>2. \A k \in Names : "cache" \in mcurrent'[k] => mcache'[k] = migs'[k]
        BY <1>5, <3>1, HoldersFacts DEF MigrationInv, CopiesAgree, StartApply, cache
      <3>3. "migrationWorker" \in mcurrent'[n] => mw'.mig = migs'[n]
        BY <1>5, <3>1, HoldersFacts DEF MigrationInv, CopiesAgree, StartApply
      <3>4. mw'.name = n
        BY <1>5 DEF StartApply
      <3>5. \A o \in Operators :
              cli'[o].pc # "idle" /\ o \in mcurrent'[cli'[o].name] => cli'[o].mig = migs'[cli'[o].name]
        BY <1>5, <3>1, HoldersFacts, FieldTypes
           DEF MigrationInv, Typed, CopiesAgree, StartApply
      <3> QED
        BY <3>2, <3>3, <3>4, <3>5 DEF CopiesAgree
    <2>2. ApprovedTexts'
      BY <1>5 DEF MigrationInv, Typed, TypeOK, ApprovedTexts, ApprovedText, StartApply, shouldApplyMigration, cache, history
    <2>3. ExecutedTexts'
      BY <1>5 DEF MigrationInv, Typed, TypeOK, ExecutedTexts, ExecutedPhaseIsTrue, StartApply, ApprovedTexts, ApprovedText, shouldApplyMigration, history
    <2> QED
      BY <2>1, <2>2, <2>3 DEF MigrationInv
  <1>6. ASSUME NEW n \in Names, DeliverMigration(n) PROVE MigrationInv'
    <2>1. CopiesAgree'
      BY <1>6, HoldersFacts DEF MigrationInv, Typed, TypeOK, CopiesAgree, DeliverMigration
    <2>2. ApprovedTexts'
      BY <1>6 DEF MigrationInv, Typed, TypeOK, ApprovedTexts, ApprovedText, DeliverMigration, history
    <2>3. ExecutedTexts'
      BY <1>6 DEF MigrationInv, Typed, TypeOK, ExecutedTexts, ExecutedPhaseIsTrue, DeliverMigration, history
    <2> QED
      BY <2>1, <2>2, <2>3 DEF MigrationInv
  <1>7. ASSUME ExecuteStatement PROVE MigrationInv'
    <2>1. CopiesAgree'
      BY <1>7 DEF MigrationInv, Typed, TypeOK, CopiesAgree, ExecuteStatement, mapi, cache, MigrationWorker
    <2>2. ApprovedTexts'
      BY <1>7 DEF MigrationInv, Typed, TypeOK, ApprovedTexts, ApprovedText, ExecuteStatement, mapi, cache, MigrationWorker
    <2>3. ExecutedTexts'
      BY <1>7, FieldTypes, TextSteps DEF MigrationInv, Typed, TypeOK, ExecutedTexts, ExecutedPhaseIsTrue, ExecuteStatement, mapi, MigrationWorker
    <2> QED
      BY <2>1, <2>2, <2>3 DEF MigrationInv
  <1>8. ASSUME Retry PROVE MigrationInv'
    <2>1. CopiesAgree'
      BY <1>8, HoldersFacts, FieldTypes, VersionEffects
         DEF MigrationInv, Typed, TypeOK, CopiesAgree, Retry, IdleMW, cache
    <2>2. ApprovedTexts'
      BY <1>8 DEF MigrationInv, Typed, TypeOK, ApprovedTexts, ApprovedText, Retry, IdleMW, cache, history
    <2>3. ExecutedTexts'
      BY <1>8 DEF MigrationInv, Typed, TypeOK, ExecutedTexts, ExecutedPhaseIsTrue, Retry, IdleMW, history
    <2> QED
      BY <2>1, <2>2, <2>3 DEF MigrationInv
  <1>9. ASSUME MarkExecuted PROVE MigrationInv'
    <2>1. CopiesAgree'
      BY <1>9, FieldTypes DEF MigrationInv, Typed, TypeOK, CopiesAgree, MarkExecuted, Store, IdleMW, cache
    <2>2. ApprovedTexts'
      BY <1>9, FieldTypes DEF MigrationInv, Typed, TypeOK, ApprovedTexts, ApprovedText, MarkExecuted, CopiesAgree, Accepts, Store, IdleMW, Migration, cache, history
    <2>3. ExecutedTexts'
      BY <1>9, FieldTypes DEF MigrationInv, Typed, TypeOK, ExecutedTexts, ExecutedPhaseIsTrue, MarkExecuted, Store, IdleMW, Migration, history
    <2> QED
      BY <2>1, <2>2, <2>3 DEF MigrationInv
  <1>10. ASSUME GetUpdated PROVE MigrationInv'
    <2>1. CopiesAgree'
      BY <1>10, HoldersFacts, FieldTypes DEF MigrationInv, Typed, TypeOK, CopiesAgree, GetUpdated, FromCache, MigrationWorker, cache
    <2>2. ApprovedTexts'
      BY <1>10 DEF MigrationInv, Typed, TypeOK, ApprovedTexts, ApprovedText, GetUpdated, MigrationWorker, cache, history
    <2>3. ExecutedTexts'
      BY <1>10 DEF MigrationInv, Typed, TypeOK, ExecutedTexts, ExecutedPhaseIsTrue, GetUpdated, MigrationWorker, history
    <2> QED
      BY <2>1, <2>2, <2>3 DEF MigrationInv
  <1>11. ASSUME MarkUpdated PROVE MigrationInv'
    <2>1. CopiesAgree'
      BY <1>11, FieldTypes DEF MigrationInv, Typed, TypeOK, CopiesAgree, MarkUpdated, Store, IdleMW, cache
    <2>2. ApprovedTexts'
      BY <1>11, FieldTypes DEF MigrationInv, Typed, TypeOK, ApprovedTexts, ApprovedText, MarkUpdated, CopiesAgree, Accepts, Store, IdleMW, Migration, cache, history
    <2>3. ExecutedTexts'
      BY <1>11, FieldTypes DEF MigrationInv, Typed, TypeOK, ExecutedTexts, ExecutedPhaseIsTrue, MarkUpdated, CopiesAgree, Accepts, Store, IdleMW, Migration, history
    <2> QED
      BY <2>1, <2>2, <2>3 DEF MigrationInv
  <1>12. ASSUME NEW o \in Operators, NEW n \in Names,
               NEW v \in {"approve", "reject"}, GetMigration(o, n, v) PROVE MigrationInv'
    <2>1. CopiesAgree'
      BY <1>12, HoldersFacts, FieldTypes, VersionEffects
         DEF MigrationInv, Typed, TypeOK, CopiesAgree, GetMigration, cache
    <2>2. ApprovedTexts'
      BY <1>12 DEF MigrationInv, Typed, TypeOK, ApprovedTexts, ApprovedText, GetMigration, cache, history
    <2>3. ExecutedTexts'
      BY <1>12 DEF MigrationInv, Typed, TypeOK, ExecutedTexts, ExecutedPhaseIsTrue, GetMigration, history
    <2> QED
      BY <2>1, <2>2, <2>3 DEF MigrationInv
  <1>13. ASSUME NEW o \in Operators, Approve(o) PROVE MigrationInv'
    <2>1. CopiesAgree'
      BY <1>13, FieldTypes DEF MigrationInv, Typed, TypeOK, CopiesAgree, Approve, Store, IdleCommand, cache
    <2>2. ApprovedTexts'
      BY <1>13, FieldTypes DEF MigrationInv, Typed, TypeOK, ApprovedTexts, ApprovedText, Approve, CopiesAgree, Accepts, Store, IdleCommand, Migration, cache
    <2>3. ExecutedTexts'
      BY <1>13, FieldTypes DEF MigrationInv, Typed, TypeOK, ExecutedTexts, ExecutedPhaseIsTrue, Approve, Store, Migration
    <2> QED
      BY <2>1, <2>2, <2>3 DEF MigrationInv
  <1>14. ASSUME NEW o \in Operators, Reject(o) PROVE MigrationInv'
    <2>1. CopiesAgree'
      BY <1>14, FieldTypes DEF MigrationInv, Typed, TypeOK, CopiesAgree, Reject, Store, IdleCommand, cache
    <2>2. ApprovedTexts'
      BY <1>14, FieldTypes DEF MigrationInv, Typed, TypeOK, ApprovedTexts, ApprovedText, Reject, CopiesAgree, Accepts, Store, IdleCommand, Migration, cache, history
    <2>3. ExecutedTexts'
      BY <1>14, FieldTypes DEF MigrationInv, Typed, TypeOK, ExecutedTexts, ExecutedPhaseIsTrue, Reject, Store, Migration, history
    <2> QED
      BY <2>1, <2>2, <2>3 DEF MigrationInv
  <1>15. ASSUME NEW o \in Operators, CommandRefused(o) PROVE MigrationInv'
    <2>1. CopiesAgree'
      BY <1>15 DEF MigrationInv, Typed, TypeOK, CopiesAgree, CommandRefused, IdleCommand, mapi, cache
    <2>2. ApprovedTexts'
      BY <1>15 DEF MigrationInv, Typed, TypeOK, ApprovedTexts, ApprovedText, CommandRefused, IdleCommand, mapi, cache, history
    <2>3. ExecutedTexts'
      BY <1>15 DEF MigrationInv, Typed, TypeOK, ExecutedTexts, ExecutedPhaseIsTrue, CommandRefused, mapi, history
    <2> QED
      BY <2>1, <2>2, <2>3 DEF MigrationInv
  <1>16. ASSUME Restart PROVE MigrationInv'
    <2>1. CopiesAgree'
      BY <1>16, HoldersFacts, FieldTypes, VersionEffects
         DEF MigrationInv, Typed, TypeOK, CopiesAgree, Restart, IdleMW
    <2>2. ApprovedTexts'
      BY <1>16 DEF MigrationInv, Typed, TypeOK, ApprovedTexts, ApprovedText, Restart, IdleMW, history
    <2>3. ExecutedTexts'
      BY <1>16 DEF MigrationInv, Typed, TypeOK, ExecutedTexts, ExecutedPhaseIsTrue, Restart, IdleMW, history
    <2> QED
      BY <2>1, <2>2, <2>3 DEF MigrationInv
  <1> QED
    BY <1>1, <1>2, <1>3, <1>4, <1>5, <1>6, <1>7, <1>8, <1>9, <1>10, <1>11,
       <1>12, <1>13, <1>14, <1>15, <1>16, MigrationSideSteps

(***************************************************************************)
(* The status side: what a recorded SHA means.                             *)
(***************************************************************************)
Planned(n) == n \in inSync \/ Exists(migs[n])

RecordedInv ==
    /\ RecordedMeansPlanned
    /\ tw.pc = "status" => Planned(TWName)

\* A migration, once created, stays: a stored copy is only replaced by a copy
\* that exists too.
LEMMA PlannedStays ==
    ASSUME Typed, MigrationInv, [Next]_vars, NEW n \in Names, Planned(n)
    PROVE  Planned(n)'
  <1>1. inSync \subseteq inSync'
    BY DEF Next, TableStep, SkipPlanned, StartPlan, Plan, GetExisting, WriteMigration, WriteRefused,
           UpdateStatus, StatusRefused, TableFault, Fail, MigrationStep, ApplyStep,
           ReconcileMigration, SkipMigration, StartApply, ExecuteStatement, StatementFails,
           MarkExecuted, GetUpdated, MarkUpdated, MarkRefused, MigrationFault, Retry,
           OperatorStep, GetMigration, Approve, Reject, CommandRefused, Recalculate,
           Environment, EditTable, Deliver, DeliverTable, DeliverMigration, Resync,
           BecomeReady, LoseReady, Restart, vars, history
  <1>2. Exists(migs[n]) => Exists(migs'[n])
    <2> SUFFICES ASSUME Exists(migs[n]) PROVE Exists(migs'[n])
      OBVIOUS
    <2>1. UNCHANGED migs => Exists(migs'[n])
      OBVIOUS
    <2>2. CASE WriteMigration
      BY <2>2 DEF Typed, TypeOK, WriteMigration, Store, PlannedMigration, AbsentMigration, Exists
    <2>3. CASE MarkExecuted
      BY <2>3, FieldTypes DEF Typed, TypeOK, MarkExecuted, Store, Migration, Exists
    <2>4. CASE MarkUpdated
      BY <2>4, FieldTypes
         DEF Typed, TypeOK, MarkUpdated, Store, Accepts, MigrationInv, CopiesAgree, Migration, Exists
    <2>5. ASSUME NEW o \in Operators, Approve(o) PROVE Exists(migs'[n])
      BY <2>5, FieldTypes DEF Typed, TypeOK, Approve, Store, Migration, Exists
    <2>6. ASSUME NEW o \in Operators, Reject(o) PROVE Exists(migs'[n])
      BY <2>6, FieldTypes DEF Typed, TypeOK, Reject, Store, Migration, Exists
    <2>7. UNCHANGED migs \/ WriteMigration \/ MarkExecuted \/ MarkUpdated
          \/ \E o \in Operators : Approve(o) \/ Reject(o)
      BY MigrationSideSteps
         DEF migrationSide, TableWorkerLeaves, GetExisting, StartApply, DeliverMigration,
             ExecuteStatement, Retry, GetUpdated, GetMigration, CommandRefused, Restart, mapi
    <2> QED
      BY <2>1, <2>2, <2>3, <2>4, <2>5, <2>6, <2>7
  <1> QED
    BY <1>1, <1>2 DEF Planned

LEMMA InitRecordedInv == Init => RecordedInv
  BY DEF Init, RecordedInv, RecordedMeansPlanned, IdleTW

LEMMA NextRecordedInv ==
    Typed /\ MigrationInv /\ RecordedInv /\ [Next]_vars => RecordedInv'
  <1> SUFFICES ASSUME Typed, MigrationInv, RecordedInv, [Next]_vars PROVE RecordedInv'
    OBVIOUS
  <1>1. table.sha # NoSHA => table.sha \in Names
    BY DEF Typed, TypeOK, Table
  <1>2. table'.sha = table.sha /\ UNCHANGED tw => RecordedInv'
    <2> SUFFICES ASSUME table'.sha = table.sha, UNCHANGED tw PROVE RecordedInv'
      OBVIOUS
    <2>1. tw.pc = "status" => TWName \in Names
      BY DEF Typed, WorkerSpec, TWName, SHA
    <2> QED
      BY <1>1, <2>1, PlannedStays DEF RecordedInv, RecordedMeansPlanned, Planned, TWName
  <1>3. table'.sha = table.sha /\ tw'.pc # "status" => RecordedInv'
    BY <1>1, PlannedStays DEF RecordedInv, RecordedMeansPlanned, Planned
  <1>4. CASE Plan
    <2>1. AfterPlan(tw.spec) \in Names
      BY <1>4, NamesFacts DEF Typed, WorkerSpec, Plan
    <2>2. tw'.pc = "status" => Planned(TWName)'
      BY <1>4 DEF Plan, Planned, TWName, SHA, Typed, TypeOK, TableWorker
    <2>3. table' = table
      BY <1>4 DEF Plan, tapi
    <2> QED
      BY <1>1, <2>2, <2>3, PlannedStays DEF RecordedInv, RecordedMeansPlanned, Planned
  <1>5. CASE WriteMigration
    <2>1. TWName \in Names /\ TWName' = TWName
      BY <1>5 DEF Typed, TypeOK, WorkerSpec, WriteMigration, TWName, SHA, TableWorker
    <2>2. Exists(migs'[TWName])
      BY <1>5, <2>1
         DEF Typed, TypeOK, WriteMigration, Store, PlannedMigration, AbsentMigration, Exists
    <2>3. table' = table
      BY <1>5 DEF WriteMigration, tapi
    <2> QED
      BY <1>1, <2>1, <2>2, <2>3, PlannedStays DEF RecordedInv, RecordedMeansPlanned, Planned
  <1>6. CASE UpdateStatus
    <2>1. TWName \in Names /\ Planned(TWName)
      BY <1>6 DEF RecordedInv, Typed, WorkerSpec, UpdateStatus, TWName, SHA
    <2>2. table'.sha = TWName /\ tw'.pc # "status"
      BY <1>6 DEF Typed, TypeOK, UpdateStatus, Table, IdleTW
    <2> QED
      BY <2>1, <2>2, PlannedStays DEF RecordedInv, RecordedMeansPlanned, Planned
  <1>7. \/ table'.sha = table.sha /\ UNCHANGED tw
        \/ table'.sha = table.sha /\ tw'.pc # "status"
        \/ Plan \/ WriteMigration \/ UpdateStatus
    <2>1. StartPlan \/ GetExisting => table' = table /\ tw'.pc # "status"
      BY DEF StartPlan, GetExisting, IdleTW, Typed, TypeOK, TableWorker, tapi
    <2>2. WriteRefused \/ StatusRefused \/ TableFault \/ Restart
            => table' = table /\ tw'.pc # "status"
      BY DEF WriteRefused, StatusRefused, TableFault, Fail, Restart, IdleTW
    <2>3. SkipPlanned \/ MigrationStep \/ MigrationFault \/ OperatorStep => UNCHANGED <<table, tw>>
      BY DEF SkipPlanned, MigrationStep, ApplyStep, ReconcileMigration, SkipMigration, StartApply,
             ExecuteStatement, StatementFails, MarkExecuted, GetUpdated, MarkUpdated, MarkRefused,
             MigrationFault, Retry, OperatorStep, GetMigration, Approve, Reject, CommandRefused,
             Recalculate, tapi
    <2>4. (\E s \in Specs : EditTable(s)) => UNCHANGED tw /\ table'.sha = table.sha
      BY DEF EditTable, Typed, TypeOK, Table
    <2> QED
      BY <2>1, <2>2, <2>3, <2>4
         DEF Next, TableStep, Environment, Deliver, DeliverTable, DeliverMigration, Resync,
             BecomeReady, LoseReady, vars, tapi
  <1> QED
    BY <1>2, <1>3, <1>4, <1>5, <1>6, <1>7

(***************************************************************************)
(* Rejection.  Without immediateDeploy only approve sets ApprovedAt, and   *)
(* it sets the phase with it: a migration in one of the other phases is    *)
(* not approved, so the migration controller, which looks at ApprovedAt    *)
(* and not at RejectedAt, leaves it alone.                                 *)
(***************************************************************************)
Unapproved(m) == m.phase \in {"ABSENT", "PLANNED", "REJECTED"} => ~m.approvedAt

RejectedInv ==
    /\ \A n \in Names : Unapproved(migs[n]) /\ Unapproved(mcache[n])
    /\ \A o \in Operators : cli[o].pc # "idle" => ~cli[o].mig.approvedAt
    /\ RejectedNeverApplied

LEMMA InitRejectedInv == Init => RejectedInv
  BY DEF Init, RejectedInv, RejectedNeverApplied, Unapproved, AbsentMigration, IdleMW, IdleCommand

LEMMA NextRejectedInv ==
    ASSUME ~ImmediateDeploy
    PROVE  Typed /\ MigrationInv /\ RejectedInv /\ [Next]_vars => RejectedInv'
  <1> SUFFICES ASSUME Typed, MigrationInv, RejectedInv, [Next]_vars PROVE RejectedInv'
    OBVIOUS
  <1> USE DEF RejectedInv, RejectedNeverApplied, Typed, TypeOK
  <1>1. CASE UNCHANGED migrationSide
    BY <1>1 DEF migrationSide
  <1>2. CASE TableWorkerLeaves
    BY <1>2 DEF TableWorkerLeaves
  <1>3. CASE GetExisting
    BY <1>3 DEF GetExisting, cache
  <1>4. CASE WriteMigration
    BY <1>4 DEF WriteMigration, Store, PlannedMigration, AbsentMigration, Unapproved, cache
  <1>5. ASSUME NEW n \in Names, StartApply(n) PROVE RejectedInv'
    BY <1>5 DEF StartApply, shouldApplyMigration, Unapproved, cache
  <1>6. ASSUME NEW n \in Names, DeliverMigration(n) PROVE RejectedInv'
    BY <1>6 DEF DeliverMigration
  <1>7. CASE ExecuteStatement
    BY <1>7 DEF ExecuteStatement, MigrationWorker, mapi, cache
  <1>8. CASE Retry
    BY <1>8 DEF Retry, IdleMW, cache
  <1>9. CASE MarkExecuted
    BY <1>9, FieldTypes DEF MarkExecuted, Store, Unapproved, Migration, IdleMW, cache
  <1>10. CASE GetUpdated
    BY <1>10 DEF GetUpdated, MigrationWorker, cache
  <1>11. CASE MarkUpdated
    BY <1>11, FieldTypes
       DEF MarkUpdated, Store, Accepts, MigrationInv, CopiesAgree, Unapproved, Migration, IdleMW,
           cache
  <1>12. ASSUME NEW o \in Operators, NEW n \in Names,
               NEW v \in {"approve", "reject"}, GetMigration(o, n, v) PROVE RejectedInv'
    BY <1>12 DEF GetMigration, Unapproved, cache
  <1>13. ASSUME NEW o \in Operators, Approve(o) PROVE RejectedInv'
    BY <1>13, FieldTypes DEF Approve, Store, Unapproved, Migration, IdleCommand, cache
  <1>14. ASSUME NEW o \in Operators, Reject(o) PROVE RejectedInv'
    BY <1>14, FieldTypes DEF Reject, Store, Unapproved, Migration, IdleCommand, cache
  <1>15. ASSUME NEW o \in Operators, CommandRefused(o) PROVE RejectedInv'
    BY <1>15 DEF CommandRefused, IdleCommand, mapi, cache
  <1>16. CASE Restart
    BY <1>16 DEF Restart, IdleMW
  <1> QED
    BY <1>1, <1>2, <1>3, <1>4, <1>5, <1>6, <1>7, <1>8, <1>9, <1>10, <1>11,
       <1>12, <1>13, <1>14, <1>15, <1>16, MigrationSideSteps

-----------------------------------------------------------------------------
\* Every reachable state has its type: in particular every DDL a migration or a
\* worker holds is a sequence of statements of the planner, and a worker always
\* names a migration of the Table.
THEOREM TypeCorrect == Spec => []TypeOK
  <1>1. Typed => TypeOK
    BY DEF Typed
  <1> QED
    BY <1>1, InitTyped, NextTyped, PTL DEF Spec

\* The invariant all the safety theorems below rest on.
LEMMA Safety == Spec => [](Typed /\ MigrationInv /\ RecordedInv)
  BY InitTyped, NextTyped, InitMigrationInv, NextMigrationInv, InitRecordedInv,
     NextRecordedInv, PTL DEF Spec

\* Whatever the planner, the specs, the number of operators, and however the
\* cache lags, a statement runs only as part of a text that was approved as a
\* whole under that migration's name.
THEOREM ApprovalGuardsDatabase == Spec => OnlyApprovedRuns
  <1>1. Typed /\ MigrationInv /\ [Next]_vars
          => [db' # db => <<mw.name, mw.mig.ddl>> \in approvals]_vars
    <2> SUFFICES ASSUME MigrationInv, [Next]_vars, db' # db
                 PROVE  <<mw.name, mw.mig.ddl>> \in approvals
      OBVIOUS
    <2>1. ExecuteStatement
      BY DEF Next, TableStep, SkipPlanned, StartPlan, Plan, GetExisting, WriteMigration,
             WriteRefused, UpdateStatus, StatusRefused, TableFault, Fail, MigrationStep, ApplyStep,
             ReconcileMigration, SkipMigration, StartApply, StatementFails,
             MarkExecuted, GetUpdated, MarkUpdated, MarkRefused, MigrationFault, Retry,
             OperatorStep, GetMigration, Approve, Reject, CommandRefused, Recalculate,
             Environment, EditTable, Deliver, DeliverTable, DeliverMigration, Resync,
             BecomeReady, LoseReady, Restart, vars
    <2> QED
      BY <2>1 DEF ExecuteStatement, MigrationInv, ApprovedTexts
  <1> QED
    BY <1>1, Safety, PTL DEF Spec, OnlyApprovedRuns

\* A migration the API server shows as EXECUTED holds a text of which every
\* statement ran, in order, in one reconcile: a plan that replaces a migration
\* while it is being applied never inherits the phase.
THEOREM ExecutedIsTrue == Spec => []ExecutedPhaseIsTrue
  <1>1. MigrationInv => ExecutedPhaseIsTrue
    BY DEF MigrationInv, ExecutedTexts
  <1> QED
    BY <1>1, Safety, PTL

\* A SHA in the Table's status, on which later reconciles return early, is that
\* of a spec whose migration exists or for which the database needed none.
THEOREM RecordedIsPlanned == Spec => []RecordedMeansPlanned
  <1>1. RecordedInv => RecordedMeansPlanned
    BY DEF RecordedInv
  <1> QED
    BY <1>1, Safety, PTL

\* Where approval is a person's, a rejected migration is never being applied,
\* although the migration controller does not look at the rejection.
THEOREM RejectionHolds ==
    ASSUME ~ImmediateDeploy
    PROVE  Spec => []RejectedNeverApplied
  <1>1. RejectedInv => RejectedNeverApplied
    BY DEF RejectedInv
  <1>2. Typed /\ MigrationInv /\ RejectedInv /\ [Next]_vars => RejectedInv'
    BY NextRejectedInv
  <1> QED
    BY <1>1, <1>2, InitRejectedInv, Safety, PTL DEF Spec

-----------------------------------------------------------------------------
(***************************************************************************)
(* The refinement.  ApprovalGate sees db, approvals, completed and mw; the *)
(* steps that change one of them are the table worker's write (when it     *)
(* approves), approve, and the migration worker's own.                     *)
(***************************************************************************)
Job == [name |-> mw.name, text |-> mw.mig.ddl, left |-> mw.todo]

GateSteps ==
    \/ UNCHANGED <<db, approvals, completed, mw>>
    \/ WriteMigration \/ ExecuteStatement
    \/ \E n \in Names : StartApply(n)
    \/ \E o \in Operators : Approve(o)
    \/ mw'.pc # "apply" /\ UNCHANGED <<db, approvals, completed>>

LEMMA GateStepsSuffice ==
    ASSUME Typed, [Next]_vars
    PROVE  GateSteps
  <1>1. SkipPlanned \/ StartPlan \/ Plan \/ GetExisting \/ UpdateStatus
          => UNCHANGED <<db, approvals, completed, mw>>
    BY DEF SkipPlanned, StartPlan, Plan, GetExisting, UpdateStatus, history
  <1>2. WriteRefused \/ StatusRefused \/ TableFault => UNCHANGED <<db, approvals, completed, mw>>
    BY DEF WriteRefused, StatusRefused, TableFault, Fail, history
  <1>3. StatementFails \/ MarkRefused \/ MigrationFault
          => mw'.pc # "apply" /\ UNCHANGED <<db, approvals, completed>>
    BY DEF StatementFails, MarkRefused, MigrationFault, Retry, IdleMW, history
  <1>4. MarkExecuted \/ MarkUpdated => mw'.pc # "apply" /\ UNCHANGED <<db, approvals, completed>>
    BY DEF MarkExecuted, MarkUpdated, IdleMW, history
  <1>5. GetUpdated => mw'.pc # "apply" /\ UNCHANGED <<db, approvals, completed>>
    BY DEF GetUpdated, Typed, TypeOK, MigrationWorker, history
  <1>6. \A n \in Names : SkipMigration(n) \/ DeliverMigration(n)
          => UNCHANGED <<db, approvals, completed, mw>>
    BY DEF SkipMigration, DeliverMigration, history
  <1>7. \A o \in Operators :
          Reject(o) \/ CommandRefused(o) \/ (\E n \in Names, v \in {"approve", "reject"} : GetMigration(o, n, v))
             => UNCHANGED <<db, approvals, completed, mw>>
    BY DEF Reject, CommandRefused, GetMigration, history
  <1>8. (\E s \in Specs : EditTable(s)) \/ Recalculate => UNCHANGED <<db, approvals, completed, mw>>
    BY DEF EditTable, Recalculate, history
  <1>9. DeliverTable \/ Resync \/ BecomeReady \/ LoseReady
          => UNCHANGED <<db, approvals, completed, mw>>
    BY DEF DeliverTable, Resync, BecomeReady, LoseReady, history
  <1>10. Restart => mw'.pc # "apply" /\ UNCHANGED <<db, approvals, completed>>
    BY DEF Restart, IdleMW, history
  <1>11. UNCHANGED vars => UNCHANGED <<db, approvals, completed, mw>>
    BY DEF vars, history
  <1> QED
    BY <1>1, <1>2, <1>3, <1>4, <1>5, <1>6, <1>7, <1>8, <1>9, <1>10, <1>11
       DEF GateSteps, Next, TableStep, MigrationStep, ApplyStep, ReconcileMigration, OperatorStep,
           Environment, Deliver

\* The whole system, for every planner and number of operators, implements
\* ApprovalGate: the database only ever sees approved texts, one at a time, each
\* from its beginning and in order, and one counts as done only after its last
\* statement.
THEOREM LifecycleImplementsGate == Spec => ImplementsGate
  <1>1. Init => Gate!Init
    BY DEF Init, Gate!Init, IdleMW
  <1>2. Typed /\ MigrationInv /\ [Next]_vars => [Gate!Next]_(Gate!vars)
    <2> SUFFICES ASSUME Typed, MigrationInv, [Next]_vars
                 PROVE  Gate!Next \/ UNCHANGED Gate!vars
      OBVIOUS
    <2>1. CASE UNCHANGED <<db, approvals, completed, mw>>
      BY <2>1 DEF Gate!vars
    <2>2. CASE WriteMigration
      <3>1. approvals \subseteq approvals' /\ UNCHANGED <<db, completed, mw>>
        BY <2>2 DEF WriteMigration
      <3> QED
        BY <3>1 DEF Gate!Next, Gate!Approve
    <2>3. ASSUME NEW o \in Operators, Approve(o) PROVE Gate!Next
      <3>1. approvals \subseteq approvals' /\ UNCHANGED <<db, completed, mw>>
        BY <2>3 DEF Approve
      <3> QED
        BY <3>1 DEF Gate!Next, Gate!Approve
    <2>4. CASE mw'.pc # "apply" /\ UNCHANGED <<db, approvals, completed>>
      BY <2>4 DEF Gate!Next, Gate!End
    <2>5. ASSUME NEW n \in Names, StartApply(n) PROVE Gate!Next
      <3>1. mw.pc # "apply" /\ mw'.pc = "apply"
        BY <2>5 DEF StartApply
      <3>2. <<n, mcache[n].ddl>> \in approvals
        BY <2>5 DEF StartApply, shouldApplyMigration, MigrationInv, ApprovedTexts, ApprovedText
      <3>3. Job' = [name |-> n, text |-> mcache[n].ddl, left |-> mcache[n].ddl]
        BY <2>5 DEF StartApply, Job
      <3>4. UNCHANGED <<db, approvals, completed>>
        BY <2>5 DEF StartApply, history
      <3> QED
        BY <3>1, <3>2, <3>3, <3>4 DEF Gate!Next, Gate!Begin, Job
    <2>6. CASE ExecuteStatement
      <3>1. mw.pc = "apply" /\ mw'.pc = "apply"
        BY <2>6 DEF ExecuteStatement, Typed, TypeOK, MigrationWorker
      <3>2. Job' = [name |-> Job.name, text |-> Job.text, left |-> Tail(Job.left)]
        <4>1. mw'.name = mw.name /\ mw'.mig = mw.mig /\ mw'.todo = Tail(mw.todo)
          BY <2>6 DEF ExecuteStatement, Typed, TypeOK, MigrationWorker
        <4> QED
          BY <4>1 DEF Job
      <3>3. Gate!Step(Job)
        BY <2>6, <3>1, <3>2 DEF ExecuteStatement, Gate!Step, Job
      <3> QED
        BY <3>1, <3>3 DEF Gate!Next, Job
    <2> QED
      BY <2>1, <2>2, <2>3, <2>4, <2>5, <2>6, GateStepsSuffice DEF GateSteps
  <1> QED
    BY <1>1, <1>2, Safety, PTL DEF Spec, ImplementsGate, Gate!Spec
=============================================================================
