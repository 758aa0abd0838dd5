--------------------------- MODULE KubectlPlugin ---------------------------
(***************************************************************************)
(* The kubectl plugin's commands that write: approve, reject, recalculate. *)
(* A command talks to the API server itself, not to a cache; approve and   *)
(* reject read the migration and then update that copy.                    *)
(***************************************************************************)
EXTENDS Cluster

IdleCommand == [pc |-> "idle", name |-> NoName, mig |-> AbsentMigration]

Command == [pc : {"idle", "approve", "reject"}, name : Names, mig : Migration]

\* Mutant: the phase of the migration is not looked at.
GetMigrationAnyPhase(o, n, verb) ==
    /\ cli[o].pc = "idle" /\ commands < MaxCommands
    /\ commands' = commands + 1
    /\ Exists(migs[n])
    /\ cli' = [cli EXCEPT ![o] = [pc |-> verb, name |-> n, mig |-> migs[n]]]
    /\ FromServer(n, o)
    /\ UNCHANGED <<tapi, migs, cache, queues, ready, db, tw, mw, edits, faults, history>>

\* Get the migration.  Both commands end here unless it is in the planned phase.
GetMigration(o, n, verb) ==
    /\ cli[o].pc = "idle" /\ commands < MaxCommands
    /\ commands' = commands + 1
    /\ Exists(migs[n]) /\ migs[n].phase = "PLANNED"
    /\ cli' = [cli EXCEPT ![o] = [pc |-> verb, name |-> n, mig |-> migs[n]]]
    /\ FromServer(n, o)
    /\ UNCHANGED <<tapi, migs, cache, queues, ready, db, tw, mw, edits, faults, history>>

Approve(o) ==
    LET c == cli[o] IN
    /\ c.pc = "approve" /\ Accepts(c.name, o)
    /\ Store(c.name, [c.mig EXCEPT !.approvedAt = TRUE, !.phase = "APPROVED"])
    /\ approvals' = approvals \cup {<<c.name, c.mig.ddl>>}
    /\ cli' = [cli EXCEPT ![o] = IdleCommand]
    /\ UNCHANGED <<tapi, cache, queues, ready, db, tw, mw, bounds, completed, inSync>>

Reject(o) ==
    LET c == cli[o] IN
    /\ c.pc = "reject" /\ Accepts(c.name, o)
    /\ Store(c.name, [c.mig EXCEPT !.rejectedAt = TRUE, !.phase = "REJECTED"])
    /\ cli' = [cli EXCEPT ![o] = IdleCommand]
    /\ UNCHANGED <<tapi, cache, queues, ready, db, tw, mw, bounds, history>>

\* The update conflicts with one made since: the command fails.
CommandRefused(o) ==
    /\ cli[o].pc # "idle" /\ ~Accepts(cli[o].name, o)
    /\ cli' = [cli EXCEPT ![o] = IdleCommand]
    /\ UNCHANGED <<tapi, mapi, cache, queues, ready, db, tw, mw, bounds, history>>

\* recalculate patches an annotation of the migration's Table, and no more.
Recalculate ==
    /\ edits < MaxEdits
    /\ \E n \in Names : Exists(migs[n])
    /\ tcurrent' = {}
    /\ edits' = edits + 1
    /\ UNCHANGED <<table, mapi, cache, queues, ready, db, tw, mw, cli, commands, faults, history>>

OperatorStep ==
    \/ \E o \in Operators :
          \/ \E n \in Names, verb \in {"approve", "reject"} : GetMigration(o, n, verb)
          \/ Approve(o) \/ Reject(o) \/ CommandRefused(o)
    \/ Recalculate
=============================================================================
