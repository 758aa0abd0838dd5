---------------------------- MODULE PluginSystem ----------------------------
(***************************************************************************)
(* The plugin system of one manager: callers that ask for a connection,    *)
(* use it and close it, over the loader and the processes it starts, with  *)
(* failed downloads and starts, plugin processes that die, a manager that  *)
(* shuts down or is killed and started again on the same cache directory.  *)
(***************************************************************************)
EXTENDS PluginRPC

vars == <<host, loaderVars, procs, caller, boundVars>>

Step(c) ==
  \/ LoaderStep(c)
  \/ Connect(c) \/ ConnectFails(c) \/ Plan(c) \/ GenerateFixtures(c) \/ Close(c)

Next ==
  \/ \E c \in Callers : Step(c) \/ \E e \in Engines : List(c, e)
  \/ PluginDies \/ Cleanup \/ Restart

Init == LoaderInit

Spec == Init /\ [][Next]_vars

\* A goroutine that has begun keeps running, and a caller that has planned
\* closes: nothing stops it but the exit of its process, which Restart makes
\* end every call.  That a plugin dies or a manager stops is never assumed.
FairSpec ==
  /\ Spec
  /\ \A c \in Callers : WF_vars(LoaderStep(c)) /\ WF_vars(Connect(c) \/ ConnectFails(c)) /\ WF_vars(Close(c))

-----------------------------------------------------------------------------
\* The values of the variables.
TypeOK ==
  /\ host \in {"up", "stopping"}
  /\ registry \in [Drivers -> [engines : SUBSET Engines, path : {"none", "image", "cache"}]]
  /\ file \in [Drivers -> SUBSET {"there", "whole", "exec"}]
  /\ onces \in Seq({"new", "running", "done", "failed"})
  /\ onceOf \in [Drivers -> 0 .. Len(onces)]
  /\ \A p \in DOMAIN procs :
       /\ procs[p].plugin \in Drivers /\ procs[p].state \in {"alive", "killed", "died"}
       /\ procs[p].next \in Nat /\ procs[p].conns \subseteq (1 .. procs[p].next) \X Callers
  /\ {cache, clients} \subseteq [Drivers -> 0 .. Len(procs)]
  /\ \A c \in Callers :
       /\ caller[c].todo \subseteq Drivers
       /\ caller[c].pc \in {"copy", "write", "undo", "do"} => caller[c].once \in DOMAIN onces
       /\ caller[c].pc \in {"validate", "register", "connect", "open"} => caller[c].proc \in DOMAIN procs

\* No process is started from a binary that is only partly written, although
\* the download writes it at the very path it is started from, other callers
\* look at that path all the while, and a manager may be killed in between.
OnlyWholeBinariesStart == \A p \in DOMAIN procs : procs[p].whole

\* The sync.Once a driver's next caller will meet tells the truth: one that
\* failed is about to be dropped by the caller that ran it, so that the next
\* call downloads again, and one that is done left a binary to start.
OnceTellsTheTruth ==
  \A d \in Drivers :
    onceOf[d] # 0 =>
      /\ onces[onceOf[d]] = "failed" => \E c \in Callers : At(c, "undo") /\ caller[c].once = onceOf[d]
      /\ onces[onceOf[d]] = "done" => IsPluginCached(d)

\* The connections a plugin process holds are those of the callers that have
\* one open, each under the id its own proxy has: no caller reaches another's
\* connection and none is left behind, whatever the order of opens and closes.
ConnectionsAreTheCallers ==
  \A p \in DOMAIN procs :
    procs[p].state = "alive" =>
      procs[p].conns = {<<caller[c].id, c>> : c \in {k \in Callers : At(k, "open") /\ caller[k].proc = p}}

\* While the manager is up nobody kills a process under a caller: a load that
\* replaces another's client leaves that process, and its connections, alone.
NobodyIsCutOff ==
  host = "up" => \A c \in Callers : caller[c].pc \in {"connect", "open"} => procs[caller[c].proc].state # "killed"

\* Two callers that both find a plugin not loaded both start it, and the
\* process that is replaced stays until the manager exits; but a caller does
\* this once, so there are never more of a driver than there are callers.
ProcessesAreBounded ==
  host = "up" =>
    \A d \in Drivers :
      Cardinality({p \in DOMAIN procs : procs[p].plugin = d /\ procs[p].loaded /\ procs[p].state = "alive"}) <= Cardinality(Callers)

\* A field that has a sentinel (a column's default, two of cassandra's
\* properties) is planned as the user wrote it, not set or zero, however
\* often the spec has been through the proxy before.  The zero of any other
\* field is lost on the way, always and not only on a first or second call:
\* the plugin plans it as if the field were not set, and never a sentinel.
PlannedAsWritten ==
  \A c \in Callers :
    At(c, "open") =>
      caller[c].planned \in
        {"none", "error",
         IF caller[c].field \in SentinelFields("plan", caller[c].engine) THEN caller[c].written ELSE "unset"}

\* Every call for a connection comes to its end, those that wait for the
\* download of another included.
EveryCallReturns == \A c \in Callers : ~At(c, "idle") ~> At(c, "idle")
=============================================================================
