---------------------------- MODULE BatchManager ----------------------------
(***************************************************************************)
(* Tables of a database with a batchWindow.  A reconcile does not plan: it *)
(* puts a copy of the Table among the pending ones and restarts the        *)
(* window's timer.  The timer's callback, a goroutine of its own, takes    *)
(* the pending tables, plans them one after the other, writes one          *)
(* migration for all and writes their SHAs into their statuses.  Stopping  *)
(* a timer that has fired stops nothing, so callbacks may overlap.  An     *)
(* error is logged; the reconcile that queued the Table has returned long  *)
(* ago, and the Table comes back with the informers' next resync.          *)
(*                                                                         *)
(* StatusAnswers is {"notFound"} for the CRD the repository ships: it has  *)
(* no status subresource, so every status write is a logged 404 and no SHA *)
(* is ever recorded.  {"ok"} is the CRD the code is written for.           *)
(*                                                                         *)
(* A spec is its version, which is also its SHA; 0 is the SHA of a Table   *)
(* never planned.  No state of a Table comes twice, so a copy is stale     *)
(* exactly when it differs from the stored Table.                          *)
(***************************************************************************)
EXTENDS Naturals, Sequences, FiniteSets

CONSTANTS
    Tables,         \* the tables of the database
    Timers,         \* timers and the callbacks they become (bound: how many at a time)
    MaxEdits,       \* bound: edits of the tables' specs
    MaxResyncs,     \* bound: resyncs of the informers with every spec handled
    MaxRestarts,    \* bound: restarts of the controller process
    MaxErrors,      \* bound: tables that cannot be planned, writes that fail
    StatusAnswers   \* what the API server answers to a status update

ASSUME BatchAssumption ==
    /\ Timers # {} /\ 0 \notin Timers
    /\ MaxEdits \in Nat /\ MaxResyncs \in Nat /\ MaxRestarts \in Nat /\ MaxErrors \in Nat
    /\ StatusAnswers \subseteq {"ok", "notFound"} /\ StatusAnswers # {}

MaxVersion == MaxEdits + 1

Versions == 1..MaxVersion

Copies == [spec : Versions, sha : 0..MaxVersion]

NotPending == [spec |-> 0, sha |-> 0]

VARIABLES
    tbl,        \* API server: the Tables
    cached,     \* informer cache of the Tables
    queue,      \* work queue of the table controller
    pending,    \* batchState.pendingTables
    timer,      \* batchState.timer, 0 when nil
    proc,       \* each timer: free, armed, or a callback and how far it is
    migs,       \* names of the batch migrations at the API server
    applied,    \* those that were applied since they were last written
    unseen,     \* those the cache does not have yet
    stale,      \* those the cache has in an older version
    deployed,   \* the version of each table in the database, 0 when it is not there
    inSync,     \* history: <<table, version>> found in sync
    edits, resyncs, restarts, errors

server  == <<tbl, migs, applied, deployed>>
cache   == <<cached, unseen, stale>>
bounds  == <<edits, resyncs, restarts, errors>>
vars    == <<server, cache, queue, pending, timer, proc, inSync, bounds>>

\* A callback holds the tables it has to plan, those it planned, in order, and
\* what it read of the migration of that name.
Free  == [pc |-> "free", todo |-> {}, text |-> <<>>, got |-> "none"]
Armed == [Free EXCEPT !.pc = "armed"]

Init ==
    /\ tbl = [t \in Tables |-> [spec |-> 1, sha |-> 0]]
    /\ cached = tbl /\ queue = Tables
    /\ pending = [t \in Tables |-> NotPending] /\ timer = 0
    /\ proc = [i \in Timers |-> Free]
    /\ migs = {} /\ applied = {} /\ unseen = {} /\ stale = {}
    /\ deployed = [t \in Tables |-> 0]
    /\ inSync = {}
    /\ edits = 0 /\ resyncs = 0 /\ restarts = 0 /\ errors = 0

(***************************************************************************)
(* The reconcile.                                                          *)
(***************************************************************************)
SkipTable(t) ==
    /\ t \in queue
    /\ cached[t].sha = cached[t].spec
    /\ queue' = queue \ {t}
    /\ UNCHANGED <<server, cache, pending, timer, proc, inSync, bounds>>

\* batch.timer.Stop(): a timer that has fired is not stopped.
Stopped == IF timer # 0 /\ proc[timer].pc = "armed"
           THEN [proc EXCEPT ![timer] = Free] ELSE proc

\* Mutant: the timer is stopped and not started again.
QueueTableNoRearm(t) ==
    /\ t \in queue
    /\ cached[t].sha # cached[t].spec
    /\ queue' = queue \ {t}
    /\ pending' = [pending EXCEPT ![t] = cached[t]]
    /\ IF timer # 0 THEN proc' = Stopped /\ UNCHANGED timer
       ELSE \E i \in Timers :
               /\ proc[i].pc = "free"
               /\ proc' = [proc EXCEPT ![i] = Armed]
               /\ timer' = i
    /\ UNCHANGED <<server, cache, inSync, bounds>>

\* Mutant: a table that is pending already keeps its older copy.
QueueTableKeepsOld(t) ==
    /\ t \in queue
    /\ cached[t].sha # cached[t].spec
    /\ queue' = queue \ {t}
    /\ pending' = IF pending[t] = NotPending THEN [pending EXCEPT ![t] = cached[t]] ELSE pending
    /\ \E i \in Timers :
          /\ Stopped[i].pc = "free"
          /\ proc' = [Stopped EXCEPT ![i] = Armed]
          /\ timer' = i
    /\ UNCHANGED <<server, cache, inSync, bounds>>

\* Add or update the pending table, and restart the timer.
QueueTable(t) ==
    /\ t \in queue
    /\ cached[t].sha # cached[t].spec
    /\ queue' = queue \ {t}
    /\ pending' = [pending EXCEPT ![t] = cached[t]]
    /\ \E i \in Timers :
          /\ Stopped[i].pc = "free"
          /\ proc' = [Stopped EXCEPT ![i] = Armed]
          /\ timer' = i
    /\ UNCHANGED <<server, cache, inSync, bounds>>

(***************************************************************************)
(* The timer and its callback.                                             *)
(***************************************************************************)
Fire(i) ==
    /\ proc[i].pc = "armed"
    /\ proc' = [proc EXCEPT ![i].pc = "fired"]
    /\ UNCHANGED <<server, cache, queue, pending, timer, inSync, bounds>>

Pending == {t \in Tables : pending[t] # NotPending}

\* Mutant: the copy starts with a nil entry for every table.
processBatchNilEntries(i) ==
    /\ proc[i].pc = "fired"
    /\ pending' = [t \in Tables |-> NotPending] /\ timer' = 0
    /\ proc' = [proc EXCEPT ![i] =
                  IF Pending = {} THEN Free
                  ELSE [Free EXCEPT !.pc = "plan", !.todo = {<<t, pending[t]>> : t \in Tables}]]
    /\ UNCHANGED <<server, cache, queue, inSync, bounds>>

\* processBatch takes what is pending; the timer is forgotten, whichever it is.
processBatch(i) ==
    /\ proc[i].pc = "fired"
    /\ pending' = [t \in Tables |-> NotPending] /\ timer' = 0
    /\ proc' = [proc EXCEPT ![i] =
                  IF Pending = {} THEN Free
                  ELSE [Free EXCEPT !.pc = "plan", !.todo = {<<t, pending[t]>> : t \in Pending}]]
    /\ UNCHANGED <<server, cache, queue, inSync, bounds>>

\* The status update of a copy, with its answer a: refused, and the refusal only
\* logged, where no status subresource is served and for a copy that is stale.
Recorded(t, c, a) == IF a = "ok" /\ tbl[t] = c THEN [tbl EXCEPT ![t].sha = c.spec] ELSE tbl

\* One table of the loop of planBatch, in the map's order, which is any order.
PlanInSync(i, t, c) ==
    /\ proc[i].pc = "plan" /\ <<t, c>> \in proc[i].todo
    /\ deployed[t] = c.spec
    /\ proc' = [proc EXCEPT ![i].todo = @ \ {<<t, c>>}]
    /\ \E a \in StatusAnswers : tbl' = Recorded(t, c, a)
    /\ inSync' = inSync \cup {<<t, c.spec>>}
    /\ UNCHANGED <<migs, applied, deployed, cache, queue, pending, timer, bounds>>

PlanStatements(i, t, c) ==
    /\ proc[i].pc = "plan" /\ <<t, c>> \in proc[i].todo
    /\ deployed[t] # c.spec
    /\ proc' = [proc EXCEPT ![i].todo = @ \ {<<t, c>>}, ![i].text = Append(@, <<t, c>>)]
    /\ UNCHANGED <<server, cache, queue, pending, timer, inSync, bounds>>

\* Planning fails: logged, and the table left out.
PlanError(i, t, c) ==
    /\ proc[i].pc = "plan" /\ <<t, c>> \in proc[i].todo
    /\ errors < MaxErrors
    /\ errors' = errors + 1
    /\ proc' = [proc EXCEPT ![i].todo = @ \ {<<t, c>>}]
    /\ UNCHANGED <<server, cache, queue, pending, timer, inSync, edits, resyncs, restarts>>

\* The name of the migration: a SHA of the tables' SHAs, in the order planned.
BatchSHA(text) == [k \in DOMAIN text |-> <<text[k][1], text[k][2].spec>>]

\* No table needs a change.
EndEmpty(i) ==
    /\ proc[i].pc = "plan" /\ proc[i].todo = {} /\ proc[i].text = <<>>
    /\ proc' = [proc EXCEPT ![i] = Free]
    /\ UNCHANGED <<server, cache, queue, pending, timer, inSync, bounds>>

\* What the cache has of a migration: nothing, an older version or the latest.
Got(n) ==
    CASE n \notin migs \/ n \in unseen -> "none"
      [] n \in migs \ unseen /\ n \in stale -> "old"
      [] n \in migs \ unseen /\ n \notin stale -> "latest"

\* The read of the migration of this name.
GetMigration(i) ==
    /\ proc[i].pc = "plan" /\ proc[i].todo = {} /\ proc[i].text # <<>>
    /\ proc' = [proc EXCEPT ![i].pc = "write", ![i].got = Got(BatchSHA(proc[i].text))]
    /\ UNCHANGED <<server, cache, queue, pending, timer, inSync, bounds>>

\* A write of migration n makes what others have read of it old.
Outdated(n) ==
    [i \in Timers |-> IF proc[i].got = "latest" /\ BatchSHA(proc[i].text) = n
                      THEN [proc[i] EXCEPT !.got = "old"] ELSE proc[i]]

\* Create what was not found, update what was read in its latest version.
WriteAccepted(i) ==
    \/ proc[i].got = "none" /\ BatchSHA(proc[i].text) \notin migs
    \/ proc[i].got = "latest"

\* The migration replaces the one of the same name, status included.
WriteBatch(i) ==
    LET n == BatchSHA(proc[i].text) IN
    /\ proc[i].pc = "write" /\ WriteAccepted(i)
    /\ migs' = migs \cup {n} /\ applied' = applied \ {n}
    /\ IF n \in migs THEN stale' = stale \cup {n} /\ UNCHANGED unseen
       ELSE unseen' = unseen \cup {n} /\ UNCHANGED stale
    /\ proc' = [Outdated(n) EXCEPT ![i] = [proc[i] EXCEPT !.pc = "status", !.got = "none"]]
    /\ UNCHANGED <<tbl, deployed, cached, queue, pending, timer, inSync, bounds>>

\* planBatch returns an error, processBatch logs it.
Abandon(i) ==
    /\ proc' = [proc EXCEPT ![i] = Free]
    /\ UNCHANGED <<server, cache, queue, pending, timer, inSync, edits, resyncs, restarts>>

WriteRefused(i) ==
    /\ proc[i].pc = "write" /\ ~WriteAccepted(i)
    /\ Abandon(i) /\ UNCHANGED errors

\* No connection details, or the API server cannot be reached.
BatchError(i) ==
    /\ proc[i].pc \in {"plan", "write"} /\ errors < MaxErrors
    /\ errors' = errors + 1
    /\ Abandon(i)

\* The statuses of the tables of the migration, one by one.
RecordStatus(i) ==
    LET text == proc[i].text IN
    /\ proc[i].pc = "status"
    /\ \E a \in StatusAnswers : tbl' = Recorded(Head(text)[1], Head(text)[2], a)
    /\ proc' = IF Len(text) = 1 THEN [proc EXCEPT ![i] = Free]
               ELSE [proc EXCEPT ![i].text = Tail(text)]
    /\ UNCHANGED <<migs, applied, deployed, cache, queue, pending, timer, inSync, bounds>>

(***************************************************************************)
(* Users, informers, the migration controller, and the process itself.     *)
(***************************************************************************)
EditTable(t) ==
    /\ edits < MaxEdits
    /\ edits' = edits + 1
    /\ tbl' = [tbl EXCEPT ![t].spec = @ + 1]
    /\ UNCHANGED <<migs, applied, deployed, cache, queue, pending, timer, proc, inSync,
                   resyncs, restarts, errors>>

DeliverTable(t) ==
    /\ cached[t] # tbl[t]
    /\ cached' = [cached EXCEPT ![t] = tbl[t]]
    /\ queue' = queue \cup {t}
    /\ UNCHANGED <<server, unseen, stale, pending, timer, proc, inSync, bounds>>

DeliverMigration(n) ==
    /\ n \in unseen \cup stale
    /\ unseen' = unseen \ {n} /\ stale' = stale \ {n}
    /\ UNCHANGED <<server, cached, queue, pending, timer, proc, inSync, bounds>>

\* A migration is approved and applied, and its status written: the tables reach
\* the versions it was planned for.
VersionIn(n, t) == {n[k][2] : k \in {k \in DOMAIN n : n[k][1] = t}}

Apply(n) ==
    /\ n \in migs \ applied
    /\ applied' = applied \cup {n}
    /\ deployed' = [t \in Tables |-> IF VersionIn(n, t) = {} THEN deployed[t]
                                     ELSE CHOOSE v \in VersionIn(n, t) : TRUE]
    /\ stale' = stale \cup ({n} \ unseen)
    /\ proc' = Outdated(n)
    /\ UNCHANGED <<tbl, migs, cached, unseen, queue, pending, timer, inSync, bounds>>

\* A batch migration was written for this version of the table.
Batched(t, v) == \E n \in migs : \E k \in DOMAIN n : n[k] = <<t, v>>

\* What a batch is there for: a migration is written, or there is nothing to change.
Handled(t, v) == Batched(t, v) \/ <<t, v>> \in inSync

\* The informers' resync, every ten hours: what went before has come to rest.
Resync ==
    /\ queue = {} /\ cached = tbl /\ unseen = {} /\ stale = {}
    /\ \A i \in Timers : proc[i] = Free
    /\ \/ (\E t \in Tables : ~Handled(t, tbl[t].spec)) /\ UNCHANGED resyncs
       \/ resyncs < MaxResyncs /\ resyncs' = resyncs + 1
    /\ queue' = Tables
    /\ UNCHANGED <<server, cache, pending, timer, proc, inSync, edits, restarts, errors>>

\* The process dies: what is pending and what is planned go with it.
Restart ==
    /\ restarts < MaxRestarts
    /\ restarts' = restarts + 1
    /\ cached' = tbl /\ queue' = Tables
    /\ unseen' = {} /\ stale' = {}
    /\ pending' = [t \in Tables |-> NotPending] /\ timer' = 0
    /\ proc' = [i \in Timers |-> Free]
    /\ UNCHANGED <<server, inSync, edits, resyncs, errors>>

Reconcile(t) == SkipTable(t) \/ QueueTable(t)

Callback(i) ==
    \/ processBatch(i)
    \/ \E p \in proc[i].todo : PlanInSync(i, p[1], p[2]) \/ PlanStatements(i, p[1], p[2])
    \/ EndEmpty(i) \/ GetMigration(i) \/ WriteBatch(i) \/ WriteRefused(i) \/ RecordStatus(i)

Failure(i) == BatchError(i) \/ \E p \in proc[i].todo : PlanError(i, p[1], p[2])

Next ==
    \/ \E t \in Tables : Reconcile(t) \/ EditTable(t) \/ DeliverTable(t)
    \/ \E i \in Timers : Fire(i) \/ Callback(i) \/ Failure(i)
    \/ \E n \in migs : DeliverMigration(n) \/ Apply(n)
    \/ Resync \/ Restart

Spec == Init /\ [][Next]_vars

\* The worker, the informers, their resyncs, the clock and every goroutine go on;
\* the worker's queue is first in, first out, so no table waits for ever.
Fairness ==
    /\ \A t \in Tables : SF_vars(Reconcile(t)) /\ WF_vars(DeliverTable(t))
    /\ WF_vars(\E n \in migs : DeliverMigration(n))
    /\ \A i \in Timers : WF_vars(Fire(i)) /\ WF_vars(Callback(i))
    /\ WF_vars(Resync)

FairSpec == Spec /\ Fairness
-----------------------------------------------------------------------------
\* Every variable has its type: a callback has tables and statuses only while it works on them.
TypeOK ==
    /\ tbl \in [Tables -> Copies] /\ cached \in [Tables -> Copies]
    /\ queue \in SUBSET Tables
    /\ pending \in [Tables -> Copies \cup {NotPending}]
    /\ timer \in Timers \cup {0}
    /\ proc \in [Timers -> [pc : {"free", "armed", "fired", "plan", "write", "status"},
                            todo : SUBSET (Tables \X Copies), text : Seq(Tables \X Copies),
                            got : {"none", "old", "latest"}]]
    /\ migs \in SUBSET Seq(Tables \X Versions)
    /\ applied \in SUBSET migs /\ unseen \in SUBSET migs /\ stale \in SUBSET migs
    /\ deployed \in [Tables -> 0..MaxVersion]
    /\ inSync \in SUBSET (Tables \X Versions)
    /\ edits \in 0..MaxEdits /\ resyncs \in 0..MaxResyncs /\ restarts \in 0..MaxRestarts /\ errors \in 0..MaxErrors

\* However timers are stopped too late and forgotten too early, tables are never
\* left pending with no timer running and no callback on its way to take them.
PendingIsWatched ==
    Pending # {} => \E i \in Timers : proc[i].pc \in {"armed", "fired"}

\* A callback has this version of the table to plan, or has planned it.
Holds(p, t, v) ==
    \/ \E x \in p.todo : x[1] = t /\ x[2].spec = v
    \/ \E k \in DOMAIN p.text : p.text[k][1] = t /\ p.text[k][2].spec = v

\* While nothing fails, the latest spec of a Table that no batch has handled is in
\* somebody's hands: queued or still to be delivered, pending, or in a callback.
\* Late timers, overlapping callbacks, edits while a batch is planned, refused
\* writes of the migration or of a status, and restarts lose none.
NoTableForgotten ==
    errors = 0 =>
    \A t \in Tables :
        LET v == tbl[t].spec IN
        \/ Handled(t, v)
        \/ t \in queue \/ cached[t] # tbl[t]
        \/ pending[t].spec = v
        \/ \E i \in Timers : Holds(proc[i], t, v)

\* "When set, tables are queued and processed together after the window expires":
\* a spec that stays gets into a migration or is found in sync, although an error
\* of a table or of a batch is only logged.
EventuallyBatched ==
    \A t \in Tables, v \in Versions : tbl[t].spec = v ~> Handled(t, v) \/ tbl[t].spec # v
=============================================================================
