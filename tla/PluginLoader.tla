---------------------------- MODULE PluginLoader ----------------------------
(***************************************************************************)
(* How a goroutine of the manager gets hold of the plugin process for a    *)
(* database engine: the registry of known plugins, the download of a       *)
(* binary into the cache directory (one sync.Once per driver), the start   *)
(* of the process and the maps of loaded plugins.  A caller is a reconcile *)
(* or a batch callback; its record is its stack.                           *)
(***************************************************************************)
EXTENDS Naturals, Sequences, FiniteSets

CONSTANTS
    Callers,
    Engines,
    Drivers,           \* plugin names, also what a binary is called
    SupportedEngines,  \* [Drivers -> SUBSET Engines], what the process answers
    knownEngines,      \* [Drivers -> SUBSET Engines], what DiscoverPlugins assumes
    normalize,         \* [Engines -> Drivers]
    MaxCalls, MaxFaults, MaxRestarts

ASSUME DriversAssumption ==
  /\ SupportedEngines \in [Drivers -> SUBSET Engines]
  /\ knownEngines \in [Drivers -> SUBSET Engines]
  /\ normalize \in [Engines -> Drivers]
ASSUME BoundsAssumption == {MaxCalls, MaxFaults, MaxRestarts} \subseteq Nat
\* A controller has a fixed number of workers, a batch one callback at a time.
ASSUME CallersAssumption == IsFiniteSet(Callers)
\* The plugin an engine is downloaded as (normalizeEngineForDownload) serves
\* that engine, by what it says itself and by what DiscoverPlugins assumes.
ASSUME EnginesAssumption ==
  \A e \in Engines : e \in SupportedEngines[normalize[e]] /\ e \in knownEngines[normalize[e]]

VARIABLES
    installed, \* the drivers whose binary comes with the image
    host,      \* "up", or "stopping" from Cleanup to the exit of the process
    registry,  \* PluginRegistry.plugins: [Drivers -> [engines, path]], or Unknown
    file,      \* the cached binary: a subset of {"there", "whole", "exec"}
    onceOf,    \* PluginDownloader.downloadOnce: [Drivers -> Nat], 0 is no entry
    onces,     \* every sync.Once made: "new", "running", "done", "failed"
    procs,     \* every process started
    cache,     \* PluginLoader.cache: [Drivers -> Nat], 0 is not loaded
    clients,   \* PluginLoader.clients
    caller,    \* [Callers -> the goroutine's locals]
    calls, faults, restarts

loaderVars == <<installed, registry, file, onceOf, onces, cache, clients>>
boundVars == <<calls, faults, restarts>>

Unknown == [engines |-> {}, path |-> "none"]
Locals == [pc |-> "idle", engine |-> "none", todo |-> {}, driver |-> "none", path |-> "none",
           from |-> "none", once |-> 0, proc |-> 0, id |-> 0,
           field |-> "none", written |-> "none", spec |-> "none", planned |-> "none"]

At(c, pc) == caller[c].pc = pc
Goes(c, changes) == caller' = [caller EXCEPT ![c] = changes]
Return(c) == Goes(c, Locals)
\* GetDefaultPlugin has returned the plugin.
Holds(c, p) == [Locals EXCEPT !.pc = "connect", !.engine = caller[c].engine, !.proc = p]

\* A fault spends one of the bounded number of them.
Fault == faults < MaxFaults /\ faults' = faults + 1 /\ UNCHANGED <<calls, restarts>>

-----------------------------------------------------------------------------
(* The registry.                                                           *)

\* A file of the cache directory hides one of the image, whatever is in it.
Discovered(f) ==
  [d \in Drivers |->
     IF "there" \in f[d] THEN [engines |-> knownEngines[d], path |-> "cache"]
     ELSE IF d \in installed THEN [engines |-> knownEngines[d], path |-> "image"]
     ELSE Unknown]

\* GetDefaultPlugin reads the registry once, in no order.
List(c, e) ==
  /\ At(c, "idle") /\ calls < MaxCalls
  /\ calls' = calls + 1
  /\ Goes(c, [Locals EXCEPT !.pc = "search", !.engine = e,
                            !.todo = {d \in Drivers : e \in registry[d].engines}])
  /\ UNCHANGED <<host, loaderVars, procs, faults, restarts>>

UseCached(c) ==
  /\ At(c, "search")
  /\ \E d \in caller[c].todo :
       /\ cache[d] # 0
       /\ Goes(c, Holds(c, cache[d]))
  /\ UNCHANGED <<host, loaderVars, procs, boundVars>>

\* Mutant: the registered plugin is loaded without a look at the cache.
LoadFromInfoBlindly(c) ==
  /\ At(c, "search")
  /\ \E d \in caller[c].todo :
       Goes(c, [caller[c] EXCEPT !.pc = "load", !.driver = d, !.path = registry[d].path,
                                 !.from = "registry"])
  /\ UNCHANGED <<host, loaderVars, procs, boundVars>>

LoadFromInfo(c) ==
  /\ At(c, "search")
  /\ \E d \in caller[c].todo :
       /\ cache[d] = 0
       /\ Goes(c, [caller[c] EXCEPT !.pc = "load", !.driver = d, !.path = registry[d].path,
                                    !.from = "registry"])
  /\ UNCHANGED <<host, loaderVars, procs, boundVars>>

-----------------------------------------------------------------------------
(* The download.                                                           *)

IsPluginCached(d) == "exec" \in file[d]

\* No registered plugin could be loaded: downloadAndLoadPlugin looks for the
\* binary under the engine's own name.
NoneRegistered(c) ==
  LET d == normalize[caller[c].engine]
  IN  /\ At(c, "search") /\ caller[c].todo = {}
      /\ Goes(c, [caller[c] EXCEPT !.pc = IF IsPluginCached(d) THEN "load" ELSE "once",
                                   !.driver = d, !.path = "cache", !.from = "download"])
      /\ UNCHANGED <<host, loaderVars, procs, boundVars>>

GetOnce(c) ==
  LET d == caller[c].driver
      made == onceOf[d] = 0
      id == IF made THEN Len(onces) + 1 ELSE onceOf[d]
  IN  /\ At(c, "once")
      /\ onces' = IF made THEN Append(onces, "new") ELSE onces
      /\ onceOf' = [onceOf EXCEPT ![d] = id]
      /\ Goes(c, [caller[c] EXCEPT !.pc = "do", !.once = id])
      /\ UNCHANGED <<installed, host, registry, file, cache, clients, procs, boundVars>>

\* once.Do: the first runs the download, the others wait for its end, and
\* none of them but the first learns how it ended.
Do(c) ==
  /\ At(c, "do")
  /\ \/ /\ onces[caller[c].once] = "new"
        /\ onces' = [onces EXCEPT ![caller[c].once] = "running"]
        /\ Goes(c, [caller[c] EXCEPT !.pc = "copy"])
     \/ /\ onces[caller[c].once] \in {"done", "failed"}
        /\ Goes(c, [caller[c] EXCEPT !.pc = "load", !.once = 0])
        /\ UNCHANGED onces
  /\ UNCHANGED <<installed, host, registry, file, onceOf, cache, clients, procs, boundVars>>

\* The artifact is here: the archive is opened and the binary created, at the
\* path it will be started from.  A file that was there keeps its mode.
CreateBinary(c) ==
  LET d == caller[c].driver
  IN  /\ At(c, "copy")
      /\ file' = [file EXCEPT ![d] = (@ \ {"whole"}) \cup {"there"}]
      /\ Goes(c, [caller[c] EXCEPT !.pc = "write"])
      /\ UNCHANGED <<installed, host, registry, onceOf, onces, cache, clients, procs, boundVars>>

\* Mutant: the entry of the Once is dropped however the download ended.
FinishBinaryAndForget(c) ==
  /\ At(c, "write")
  /\ file' = [file EXCEPT ![caller[c].driver] = @ \cup {"whole", "exec"}]
  /\ onces' = [onces EXCEPT ![caller[c].once] = "done"]
  /\ onceOf' = [onceOf EXCEPT ![caller[c].driver] = 0]
  /\ Goes(c, [caller[c] EXCEPT !.pc = "load", !.once = 0])
  /\ UNCHANGED <<installed, host, registry, cache, clients, procs, boundVars>>

\* The binary is written out and only then made executable: the end of the
\* download, and of once.Do for those who wait.
FinishBinary(c) ==
  /\ At(c, "write")
  /\ file' = [file EXCEPT ![caller[c].driver] = @ \cup {"whole", "exec"}]
  /\ onces' = [onces EXCEPT ![caller[c].once] = "done"]
  /\ Goes(c, [caller[c] EXCEPT !.pc = "load", !.once = 0])
  /\ UNCHANGED <<installed, host, registry, onceOf, cache, clients, procs, boundVars>>

\* Mutant: a failed download leaves those who wait for it waiting.
DownloadPanics(c) ==
  /\ caller[c].pc \in {"copy", "write"} /\ Fault
  /\ Goes(c, [caller[c] EXCEPT !.pc = "undo"])
  /\ UNCHANGED <<installed, host, registry, file, onceOf, onces, cache, clients, procs>>

\* There is no such artifact, or the copy, the extraction or chmod fails; what
\* was written stays.
DownloadFails(c) ==
  /\ caller[c].pc \in {"copy", "write"} /\ Fault
  /\ onces' = [onces EXCEPT ![caller[c].once] = "failed"]
  /\ Goes(c, [caller[c] EXCEPT !.pc = "undo"])
  /\ UNCHANGED <<installed, host, registry, file, onceOf, cache, clients, procs>>

\* Mutant: the entry stays and the driver is never downloaded again.
ForgetNothing(c) ==
  /\ At(c, "undo")
  /\ Return(c)
  /\ UNCHANGED <<host, loaderVars, procs, boundVars>>

\* The caller that ran the download makes room for another attempt.
ForgetOnce(c) ==
  /\ At(c, "undo")
  /\ onceOf' = [onceOf EXCEPT ![caller[c].driver] = 0]
  /\ Return(c)
  /\ UNCHANGED <<installed, host, registry, file, onces, cache, clients, procs, boundVars>>

-----------------------------------------------------------------------------
(* LoadLocal.                                                              *)

Startable(c) ==
  IF caller[c].path = "image" THEN caller[c].driver \in installed ELSE IsPluginCached(caller[c].driver)

\* A registered plugin that does not load is passed over, a downloaded one is
\* the caller's error.
LoadError(c) ==
  IF caller[c].from = "registry"
  THEN Goes(c, [caller[c] EXCEPT !.pc = "search", !.todo = @ \ {caller[c].driver}, !.proc = 0])
  ELSE Return(c)

Start(c) ==
  /\ At(c, "load") /\ Startable(c)
  /\ procs' = Append(procs,
       [plugin |-> caller[c].driver, state |-> "alive", loaded |-> FALSE, next |-> 0, conns |-> {},
        whole |-> caller[c].path = "image" \/ "whole" \in file[caller[c].driver]])
  /\ Goes(c, [caller[c] EXCEPT !.pc = "validate", !.proc = Len(procs) + 1])
  /\ UNCHANGED <<host, loaderVars, boundVars>>

\* Not a regular executable file; or it starts and is killed because the
\* handshake, Dispense or Initialize fails.
StartRefused(c) ==
  /\ At(c, "load")
  /\ \/ ~Startable(c) /\ UNCHANGED boundVars
     \/ Startable(c) /\ Fault
  /\ LoadError(c)
  /\ UNCHANGED <<host, loaderVars, procs>>

\* ValidatePlugin fails, as it must when the process has died: its client is
\* not killed and nothing refers to it any more.
ValidateFails(c) ==
  /\ At(c, "validate")
  /\ \/ procs[caller[c].proc].state # "alive" /\ UNCHANGED boundVars
     \/ procs[caller[c].proc].state = "alive" /\ Fault
  /\ LoadError(c)
  /\ UNCHANGED <<host, loaderVars, procs>>

\* Mutant: a client that is replaced is killed, so as not to leak it.
StoreAndKill(c) ==
  LET p == caller[c].proc
      d == caller[c].driver
  IN  /\ At(c, "validate") /\ procs[p].state = "alive"
      /\ cache' = [cache EXCEPT ![d] = p]
      /\ clients' = [clients EXCEPT ![d] = p]
      /\ procs' = [i \in DOMAIN procs |->
                     IF i = p THEN [procs[p] EXCEPT !.loaded = TRUE]
                     ELSE IF i = clients[d] THEN [procs[i] EXCEPT !.state = "killed"]
                     ELSE procs[i]]
      /\ Goes(c, IF caller[c].from = "download" THEN [caller[c] EXCEPT !.pc = "register"] ELSE Holds(c, p))
      /\ UNCHANGED <<installed, host, registry, file, onceOf, onces, boundVars>>

\* Under the lock, but without another look: whoever stores last replaces the
\* other's client, and that process is in no map any more.
Store(c) ==
  LET p == caller[c].proc
      d == caller[c].driver
  IN  /\ At(c, "validate") /\ procs[p].state = "alive"
      /\ cache' = [cache EXCEPT ![d] = p]
      /\ clients' = [clients EXCEPT ![d] = p]
      /\ procs' = [procs EXCEPT ![p].loaded = TRUE]
      /\ Goes(c, IF caller[c].from = "download" THEN [caller[c] EXCEPT !.pc = "register"] ELSE Holds(c, p))
      /\ UNCHANGED <<installed, host, registry, file, onceOf, onces, boundVars>>

\* loadPluginFromPath registers what the process says of itself; a process
\* that has died says nothing and is returned all the same.
Register(c) ==
  LET d == caller[c].driver
  IN  /\ At(c, "register")
      /\ registry' = IF procs[caller[c].proc].state = "alive"
                     THEN [registry EXCEPT ![d] = [engines |-> SupportedEngines[d], path |-> "cache"]]
                     ELSE registry
      /\ Goes(c, Holds(c, caller[c].proc))
      /\ UNCHANGED <<installed, host, file, onceOf, onces, cache, clients, procs, boundVars>>

-----------------------------------------------------------------------------
(* The processes around it.                                                *)

PluginDies ==
  /\ \E p \in DOMAIN procs :
       /\ procs[p].state = "alive"
       /\ procs' = [procs EXCEPT ![p].state = "died", ![p].conns = {}]
  /\ Fault
  /\ UNCHANGED <<host, loaderVars, caller>>

\* The manager returns from Start and its deferred function runs, beside the
\* goroutines that are still at work.
Cleanup ==
  /\ host = "up" /\ restarts < MaxRestarts
  /\ host' = "stopping"
  /\ procs' = [p \in DOMAIN procs |->
                 IF procs[p].state = "alive" /\ \E d \in Drivers : clients[d] = p
                 THEN [procs[p] EXCEPT !.state = "killed", !.conns = {}] ELSE procs[p]]
  /\ cache' = [d \in Drivers |-> 0]
  /\ clients' = [d \in Drivers |-> 0]
  /\ UNCHANGED <<installed, registry, file, onceOf, onces, caller, boundVars>>

\* The process exits, after Cleanup or killed at any point, and a new one
\* calls InitializePluginSystem; the cache directory is all that is left.
Restart ==
  /\ restarts < MaxRestarts
  /\ restarts' = restarts + 1
  /\ host' = "up"
  /\ registry' = Discovered(file)
  /\ onceOf' = [d \in Drivers |-> 0] /\ onces' = <<>> /\ procs' = <<>>
  /\ cache' = [d \in Drivers |-> 0] /\ clients' = [d \in Drivers |-> 0]
  /\ caller' = [c \in Callers |-> Locals]
  /\ UNCHANGED <<installed, file, calls, faults>>

LoaderInit ==
  /\ installed \in SUBSET Drivers
  /\ host = "up"
  /\ file = [d \in Drivers |-> {}]
  /\ registry = Discovered(file)
  /\ onceOf = [d \in Drivers |-> 0] /\ onces = <<>> /\ procs = <<>>
  /\ cache = [d \in Drivers |-> 0] /\ clients = [d \in Drivers |-> 0]
  /\ caller = [c \in Callers |-> Locals]
  /\ calls = 0 /\ faults = 0 /\ restarts = 0

LoaderStep(c) ==
  \/ UseCached(c) \/ LoadFromInfo(c) \/ NoneRegistered(c)
  \/ GetOnce(c) \/ Do(c) \/ CreateBinary(c) \/ FinishBinary(c) \/ DownloadFails(c) \/ ForgetOnce(c)
  \/ Start(c) \/ StartRefused(c) \/ ValidateFails(c) \/ Store(c) \/ Register(c)
=============================================================================
