----------------------------- MODULE PluginRPC ------------------------------
(***************************************************************************)
(* The calls a caller makes once it has a plugin: Connect, which makes a   *)
(* connection in the plugin's process and a proxy that knows its id, the   *)
(* calls through the proxy, and Close.  A call carries one pointer of the  *)
(* spec, which is not set or points to the zero value of its type: gob,    *)
(* which carries the arguments, does not tell the two apart.               *)
(***************************************************************************)
EXTENDS PluginLoader

rpcUnchanged == UNCHANGED <<host, loaderVars, boundVars>>

\* The two values gob does not tell apart; any other goes through as it is.
Value == {"unset", "zero"}

\* The pointers of a table's spec: "seed" is a value in a seed row.
Fields(e) ==
  IF e = "cassandra" THEN {"defaultTTL", "memtableFlushPeriodMs", "gcGraceSeconds", "maxIndexInterval",
                           "minIndexInterval", "isStatic", "seed"}
  ELSE {"default", "notNull", "seed"}

\* The ones the callers' specs make use of.
CONSTANT Given
ASSUME GivenAssumption == \A e \in Engines : Fields(e) \cap Given # {}

\* Whose specs the proxy and the server look at, in each of the calls ...
SentinelEngines ==
  [plan     |-> {"postgres", "postgresql", "cockroachdb", "mysql", "mariadb", "sqlite", "rqlite",
                 "timescaledb", "cassandra"},
   fixtures |-> {"postgres", "postgresql", "mysql", "mariadb", "sqlite", "cassandra"}]

\* ... and at which fields of them.
SentinelFields(op, e) ==
  IF e \notin SentinelEngines[op] THEN {}
  ELSE IF e = "cassandra" THEN {"defaultTTL", "memtableFlushPeriodMs"} ELSE {"default"}

\* Every engine getDbType can name is among those of PlanTableSchema.
ASSUME FieldsAssumption == Engines \subseteq SentinelEngines.plan

\* The proxy writes the sentinel in the place of a zero value ...
Encode(op, e, f, v) == IF f \in SentinelFields(op, e) /\ v = "zero" THEN "sentinel" ELSE v
\* ... gob leaves out what is zero ...
Carry(v) == IF v = "zero" THEN "unset" ELSE v

\* Mutant: the server restores the value for the first three engines only.
DecodeFirstEngines(op, e, f, v) ==
  IF f \in SentinelFields(op, e) /\ e \notin {"rqlite", "timescaledb", "cassandra"} /\ v = "sentinel" THEN "zero" ELSE v

\* ... and the server puts the zero value back.
Decode(op, e, f, v) == IF f \in SentinelFields(op, e) /\ v = "sentinel" THEN "zero" ELSE v

Received(op, e, f, v) == Decode(op, e, f, Carry(Encode(op, e, f, v)))

-----------------------------------------------------------------------------
Proc(c) == procs[caller[c].proc]

\* The caller's locals with a connection, and the spec it is about to send.
Connected(c, id, f, v) == [caller[c] EXCEPT !.pc = "open", !.id = id, !.field = f, !.written = v, !.spec = v]

\* Mutant: ids are numbered by the connections that are open.
ConnectByCount(c) ==
  LET id == Cardinality(Proc(c).conns) + 1
  IN  /\ At(c, "connect") /\ Proc(c).state = "alive"
      /\ procs' = [procs EXCEPT ![caller[c].proc].conns = {k \in @ : k[1] # id} \cup {<<id, c>>}]
      /\ \E f \in Fields(caller[c].engine) \cap Given, v \in Value : Goes(c, Connected(c, id, f, v))
      /\ rpcUnchanged

\* RPCServer.Connect: the id is drawn and stored under the mutex.
Connect(c) ==
  LET id == Proc(c).next + 1
  IN  /\ At(c, "connect") /\ Proc(c).state = "alive"
      /\ procs' = [procs EXCEPT ![caller[c].proc].next = id,
                                ![caller[c].proc].conns = {k \in @ : k[1] # id} \cup {<<id, c>>}]
      /\ \E f \in Fields(caller[c].engine) \cap Given, v \in Value : Goes(c, Connected(c, id, f, v))
      /\ rpcUnchanged

\* The process is gone, the options are refused or the database is.
ConnectFails(c) ==
  /\ At(c, "connect")
  /\ Return(c)
  /\ UNCHANGED procs /\ rpcUnchanged

\* The server looks the connection up by its id; without the process or the
\* entry the call is an error.
Found(c) == \E k \in Proc(c).conns : k[1] = caller[c].id

\* PlanTableSchema.  The proxy changes the caller's own spec, which may be
\* planned again.
Plan(c) ==
  /\ At(c, "open")
  /\ Goes(c, [caller[c] EXCEPT
       !.spec = Encode("plan", caller[c].engine, caller[c].field, @),
       !.planned = IF Found(c) THEN Received("plan", caller[c].engine, caller[c].field, caller[c].spec)
                   ELSE "error"])
  /\ UNCHANGED procs /\ rpcUnchanged

\* GenerateFixtures, of the same spec; what it returns concerns no property.
GenerateFixtures(c) ==
  /\ At(c, "open")
  /\ Goes(c, [caller[c] EXCEPT !.spec = Encode("fixtures", caller[c].engine, caller[c].field, @)])
  /\ UNCHANGED procs /\ rpcUnchanged

\* The deferred Close; in a process that has died there is nothing to close.
Close(c) ==
  /\ At(c, "open")
  /\ procs' = [procs EXCEPT ![caller[c].proc].conns = {k \in @ : k[1] # caller[c].id}]
  /\ Return(c)
  /\ rpcUnchanged
=============================================================================
