------------------------------ MODULE Cluster ------------------------------
(***************************************************************************)
(* The state shared by SchemaHero's processes around one Table object:     *)
(*                                                                         *)
(*   - the API server's copy of the Table and of its Migrations;           *)
(*   - the informer cache of the database's controller process, which      *)
(*     every r.Get reads and which lags behind the server;                 *)
(*   - the work queues of the table and of the migration controller;       *)
(*   - the table in the managed database;                                  *)
(*   - what the one worker of each controller, and each kubectl command,   *)
(*     holds between two calls.                                            *)
(*                                                                         *)
(* Timestamps of a Migration are only ever compared with zero, so they are *)
(* Booleans: TRUE is a time, FALSE is 0.                                   *)
(***************************************************************************)
EXTENDS Naturals, Sequences, FiniteSets

CONSTANTS
    NumColumns,         \* columns 1..NumColumns, in the order the planner visits them
    Specs,              \* the table specs users apply
    FirstSpec,          \* the one the Table is created with
    PlanTable(_, _),    \* the database plugin: statements taking a database to a spec
    Operators,          \* people running the kubectl plugin
    ImmediateDeploy,    \* Database.spec.immediateDeploy
    StatusAnswers,      \* what the API server answers to a Table status update
    MaxEdits,           \* bound: kubectl apply and recalculate commands
    MaxCommands,        \* bound: approve and reject commands
    MaxFaults           \* bound: crashes, failed calls, lost prerequisites

Columns == 1..NumColumns

(***************************************************************************)
(* A spec is the set of columns it wants, whether it carries seed rows     *)
(* that the database deploys, and its column defaults: "none", the empty   *)
(* string, or the sentinel the plugin proxy puts in the place of the empty *)
(* string (AfterPlan below).                                               *)
(***************************************************************************)
TableSpec == [cols : SUBSET Columns,
              seed : BOOLEAN,
              default : {"none", "empty", "sentinel"}]

\* PlanTableSchema rewrites the spec it is given, in place, before sending it to
\* the plugin: the caller's spec keeps the sentinel.
AfterPlan(spec) ==
    IF spec.default = "empty" THEN [spec EXCEPT !.default = "sentinel"] ELSE spec

\* SHA-256 of the marshalled spec: injective, so the spec stands for its hash.
SHA(spec) == spec

NoSHA == [cols |-> {}, seed |-> FALSE, default |-> "unplanned"]

ASSUME ClusterAssumption ==
    /\ NumColumns \in Nat
    /\ Specs \subseteq TableSpec /\ FirstSpec \in Specs
    /\ \A s \in Specs : s.default # "sentinel"
    /\ Operators \cap {"cache", "tableWorker", "migrationWorker"} = {}
    /\ ImmediateDeploy \in BOOLEAN
    /\ StatusAnswers \subseteq {"ok", "notFound"} /\ StatusAnswers # {}
    /\ MaxEdits \in Nat /\ MaxCommands \in Nat /\ MaxFaults \in Nat

(***************************************************************************)
(* Statements, and migrations as the API server stores them.               *)
(***************************************************************************)
Statements == ({"drop", "add"} \X Columns) \cup {<<"seed", 0>>}

DDLs == Seq(Statements)

Phases == {"ABSENT", "PLANNED", "APPROVED", "EXECUTED", "REJECTED"}

Migration == [ddl : DDLs, phase : Phases,
              approvedAt : BOOLEAN, rejectedAt : BOOLEAN, executedAt : BOOLEAN]

Exists(m) == m.phase # "ABSENT"

\* A migration is named after the SHA of the spec as planning left it.
Names == {SHA(AfterPlan(s)) : s \in Specs}

AbsentMigration == [ddl |-> <<>>, phase |-> "ABSENT",
                    approvedAt |-> FALSE, rejectedAt |-> FALSE, executedAt |-> FALSE]

Table == [spec : Specs, sha : Names \cup {NoSHA}]

Databases == [cols : SUBSET Columns, seeded : BOOLEAN]

ASSUME PlannerAssumption == \A d \in Databases, n \in Names : PlanTable(d, n) \in DDLs

NoName == SHA(AfterPlan(FirstSpec))     \* fills a field that is not in use

(***************************************************************************)
(* Who may hold a copy of an object: the cache, the workers, a command.    *)
(***************************************************************************)
Holders == {"cache", "tableWorker", "migrationWorker"} \cup Operators

VARIABLES
    table,      \* API server: the Table object
    migs,       \* API server: the Migration objects, by name
    tcurrent,   \* who holds the stored version of the Table
    mcurrent,   \* who holds the stored version of each Migration
    tcache,     \* informer cache of the Table
    mcache,     \* informer cache of the Migrations
    tqueue,     \* the Table is in the table controller's work queue
    mqueue,     \* names in the migration controller's work queue
    ready,      \* the Database object, its controller and the required extensions are in place
    db,         \* the managed database: the table's columns, whether it is seeded
    tw,         \* table controller worker
    mw,         \* migration controller worker
    cli,        \* each operator's kubectl command in progress
    edits,      \* number of user edits so far
    commands,   \* number of approve and reject commands so far
    faults,     \* number of faults so far
    \* history
    approvals,  \* <<name, ddl>> an operator, or immediateDeploy, approved
    completed,  \* <<name, ddl>> of which every statement ran, in one reconcile
    inSync      \* SHAs whose plan found nothing to do

tapi    == <<table, tcurrent>>
mapi    == <<migs, mcurrent>>
cache   == <<tcache, mcache>>
queues  == <<tqueue, mqueue>>
bounds  == <<edits, commands, faults>>
history == <<approvals, completed, inSync>>
vars    == <<tapi, mapi, cache, queues, ready, db, tw, mw, cli, bounds, history>>

(***************************************************************************)
(* Resource versions.  A client never interprets one: the API server       *)
(* compares the version in an Update with the stored one, and any write    *)
(* makes every other copy stale.  So a version is modelled by the holders  *)
(* whose copy is still the stored one.                                     *)
(***************************************************************************)
\* The API server stores m under name n, as a new version.
Store(n, m) ==
    /\ migs' = [migs EXCEPT ![n] = m]
    /\ mcurrent' = [mcurrent EXCEPT ![n] = {}]

\* h's Update of migration n is not a conflict.
Accepts(n, h) == h \in mcurrent[n]

\* h now holds a copy of n read at the server, or (FromCache) in the cache.
\* A holder has at most one copy: the one it had before is gone.
FromServer(n, h) ==
    mcurrent' = [k \in Names |-> IF k = n THEN mcurrent[k] \cup {h} ELSE mcurrent[k] \ {h}]

FromCache(n, h) ==
    mcurrent' = [k \in Names |-> IF k = n /\ "cache" \in mcurrent[k]
                                 THEN mcurrent[k] \cup {h} ELSE mcurrent[k] \ {h}]

\* h no longer holds a copy.
Drop(h) == mcurrent' = [k \in Names |-> mcurrent[k] \ {h}]
=============================================================================
