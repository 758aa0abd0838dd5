---------------------------- MODULE PluginProofs ----------------------------
(***************************************************************************)
(* Proofs about the plugin system, for any callers, engines, drivers and   *)
(* bounds: what a caller's step does to its stack, then the types, then    *)
(* one inductive invariant per concern (downloads, connections, specs,     *)
(* processes).                                                             *)
(***************************************************************************)
EXTENDS PluginSystem, SequenceTheorems, FiniteSetTheorems, TLAPS

Pcs == {"idle", "search", "load", "once", "do", "copy", "write", "undo", "validate", "register",
        "connect", "open"}

SpecFields == {"none", "default", "notNull", "seed", "defaultTTL", "memtableFlushPeriodMs", "gcGraceSeconds",
               "maxIndexInterval", "minIndexInterval", "isStatic"}

Stacks == [pc : Pcs, engine : Engines \cup {"none"}, todo : SUBSET Drivers,
           driver : Drivers \cup {"none"}, path : {"none", "image", "cache"},
           from : {"none", "registry", "download"}, once : Nat, proc : Nat, id : Nat,
           field : SpecFields,
           written : {"none", "unset", "zero"}, spec : {"none", "unset", "zero", "sentinel"},
           planned : {"none", "unset", "zero", "sentinel", "error"}]

Processes == [plugin : Drivers, state : {"alive", "killed", "died"}, loaded : BOOLEAN, next : Nat,
              conns : SUBSET (Nat \X Callers), whole : BOOLEAN]

Infos == [engines : SUBSET Engines, path : {"none", "image", "cache"}]

OnceStates == {"new", "running", "done", "failed"}

\* What a stack at some point holds is there: its engine, its driver, the Once
\* it has drawn and the process it has been given.
Sound(s) ==
  /\ s.pc # "idle" => s.engine \in Engines
  /\ s.pc \notin {"idle", "search", "connect", "open"} => s.driver \in Drivers
  /\ s.pc \in {"do", "copy", "write", "undo"} => s.once \in DOMAIN onces
  /\ s.pc \in {"validate", "register", "connect", "open"} => s.proc \in DOMAIN procs

Typed ==
  /\ host \in {"up", "stopping"}
  /\ registry \in [Drivers -> Infos]
  /\ file \in [Drivers -> SUBSET {"there", "whole", "exec"}]
  /\ onces \in Seq(OnceStates) /\ onceOf \in [Drivers -> 0 .. Len(onces)]
  /\ procs \in Seq(Processes)
  /\ \A p \in DOMAIN procs : procs[p].conns \subseteq (1 .. procs[p].next) \X Callers
  /\ cache \in [Drivers -> 0 .. Len(procs)] /\ clients \in [Drivers -> 0 .. Len(procs)]
  /\ caller \in [Callers -> Stacks]
  /\ \A c \in Callers : Sound(caller[c])

\* The stack of c alone changes.
Moves(c) ==
  /\ caller' \in [Callers -> Stacks]
  /\ \A k \in Callers \ {c} : caller'[k] = caller[k]

\* What the search for a plugin has come to stays on the stack.
Keeps(c) ==
  /\ caller'[c].engine = caller[c].engine /\ caller'[c].todo = caller[c].todo
  /\ caller'[c].driver = caller[c].driver /\ caller'[c].from = caller[c].from

\* GetDefaultPlugin returns the plugin p to c.
Gets(c, p) ==
  /\ Moves(c)
  /\ caller'[c].pc = "connect" /\ caller'[c].engine = caller[c].engine
  /\ caller'[c].proc = p /\ caller'[c].planned = "none" /\ caller'[c].todo = {}

-----------------------------------------------------------------------------
(* The steps of a caller, as they look on its stack.                       *)

LEMMA LocalsFacts == Locals \in Stacks /\ Locals.pc = "idle" /\ Locals.todo = {}
  BY DEF Locals, Stacks, Pcs, SpecFields

LEMMA GoesFacts ==
  ASSUME Typed, NEW c \in Callers, NEW q \in Stacks, Goes(c, q)
  PROVE  Moves(c) /\ caller'[c] = q
  BY DEF Typed, Goes, Moves

LEMMA ReturnFacts ==
  ASSUME Typed, NEW c \in Callers, Return(c)
  PROVE  Moves(c) /\ caller'[c] = Locals
  BY LocalsFacts, GoesFacts DEF Return

LEMMA HoldsFacts ==
  ASSUME Typed, NEW c \in Callers, caller[c].pc # "idle", NEW p \in Nat, Goes(c, Holds(c, p))
  PROVE  Gets(c, p)
  <1> DEFINE q == [Locals EXCEPT !.pc = "connect", !.engine = caller[c].engine, !.proc = p]
  <1>1. caller[c].engine \in Engines
    BY DEF Typed, Sound
  <1>2. /\ q \in Stacks /\ q.pc = "connect" /\ q.engine = caller[c].engine
        /\ q.proc = p /\ q.planned = "none" /\ q.todo = {}
    BY <1>1 DEF Locals, Stacks, Pcs, SpecFields
  <1> QED
    BY <1>2, GoesFacts DEF Holds, Gets

LEMMA ListFacts ==
  ASSUME Typed, NEW c \in Callers, NEW e \in Engines, List(c, e)
  PROVE  /\ Moves(c) /\ caller[c].pc = "idle"
         /\ caller'[c].pc = "search" /\ caller'[c].engine = e
         /\ caller'[c].todo = {d \in Drivers : e \in registry[d].engines}
  <1> DEFINE s == {d \in Drivers : e \in registry[d].engines}
             q == [Locals EXCEPT !.pc = "search", !.engine = e, !.todo = s]
  <1>1. s \in SUBSET Drivers
    OBVIOUS
  <1> HIDE DEF s
  <1>2. q \in Stacks /\ q.pc = "search" /\ q.engine = e /\ q.todo = s
    BY <1>1 DEF Locals, Stacks, Pcs, SpecFields
  <1>3. Goes(c, q) /\ caller[c].pc = "idle"
    BY DEF List, At, s
  <1>4. Moves(c) /\ caller'[c] = q
    BY <1>2, <1>3, GoesFacts
  <1> QED
    BY <1>2, <1>3, <1>4 DEF s

LEMMA UseCachedFacts ==
  ASSUME Typed, NEW c \in Callers, UseCached(c)
  PROVE  /\ caller[c].pc = "search"
         /\ \E d \in caller[c].todo : cache[d] \in DOMAIN procs /\ Gets(c, cache[d])
  <1>1. PICK d \in caller[c].todo : cache[d] # 0 /\ Goes(c, Holds(c, cache[d]))
    BY DEF UseCached
  <1>2. caller[c].pc = "search"
    BY DEF UseCached, At
  <1>3. d \in Drivers
    BY DEF Typed, Stacks
  <1>4. cache[d] \in Nat /\ cache[d] \in 1 .. Len(procs) /\ DOMAIN procs = 1 .. Len(procs)
    BY <1>1, <1>3 DEF Typed
  <1> QED
    BY <1>1, <1>2, <1>4, HoldsFacts

LEMMA LoadFromInfoFacts ==
  ASSUME Typed, NEW c \in Callers, LoadFromInfo(c)
  PROVE  /\ Moves(c) /\ caller[c].pc = "search" /\ caller'[c].pc = "load"
         /\ caller'[c].driver \in caller[c].todo /\ caller'[c].driver \in Drivers
         /\ cache[caller'[c].driver] = 0
         /\ caller'[c].from = "registry"
         /\ caller'[c].engine = caller[c].engine /\ caller'[c].todo = caller[c].todo
  <1>1. PICK d \in caller[c].todo :
          /\ cache[d] = 0
          /\ Goes(c, [caller[c] EXCEPT !.pc = "load", !.driver = d, !.path = registry[d].path,
                                       !.from = "registry"])
    BY DEF LoadFromInfo
  <1> DEFINE s == caller[c]
             v == registry[d].path
             q == [s EXCEPT !.pc = "load", !.driver = d, !.path = v, !.from = "registry"]
  <1>2. s \in Stacks /\ d \in Drivers /\ v \in {"none", "image", "cache"} /\ s.pc = "search"
    BY DEF Typed, Stacks, Infos, LoadFromInfo, At
  <1>3. Goes(c, q)
    BY <1>1
  <1> HIDE DEF s, v
  <1>4. /\ q \in Stacks /\ q.pc = "load" /\ q.driver = d /\ q.from = "registry"
        /\ q.engine = s.engine /\ q.todo = s.todo
    BY <1>2 DEF Stacks, Pcs
  <1>5. Moves(c) /\ caller'[c] = q
    BY <1>3, <1>4, GoesFacts
  <1> QED
    BY <1>1, <1>2, <1>4, <1>5 DEF s

LEMMA NoneRegisteredFacts ==
  ASSUME Typed, NEW c \in Callers, NoneRegistered(c)
  PROVE  /\ Moves(c) /\ caller[c].pc = "search" /\ caller[c].todo = {}
         /\ caller'[c].pc = IF IsPluginCached(caller'[c].driver) THEN "load" ELSE "once"
         /\ caller'[c].driver = normalize[caller[c].engine] /\ caller'[c].driver \in Drivers
         /\ caller'[c].from = "download"
         /\ caller'[c].engine = caller[c].engine /\ caller'[c].todo = caller[c].todo
  <1> DEFINE s == caller[c]
             d == normalize[s.engine]
             w == IF IsPluginCached(d) THEN "load" ELSE "once"
             q == [s EXCEPT !.pc = w, !.driver = d, !.path = "cache", !.from = "download"]
  <1>1. s \in Stacks /\ s.pc = "search" /\ s.engine \in Engines /\ s.todo = {}
    BY DEF Typed, Sound, NoneRegistered, At
  <1>2. d \in Drivers /\ w \in {"load", "once"}
    BY <1>1, DriversAssumption
  <1>3. Goes(c, q)
    BY DEF NoneRegistered
  <1> HIDE DEF s, d, w
  <1>4. /\ q \in Stacks /\ q.pc = w /\ q.driver = d /\ q.from = "download"
        /\ q.engine = s.engine /\ q.todo = s.todo
    BY <1>1, <1>2 DEF Stacks, Pcs
  <1>5. Moves(c) /\ caller'[c] = q
    BY <1>3, <1>4, GoesFacts
  <1> QED
    BY <1>1, <1>2, <1>4, <1>5 DEF s, d, w

\* A step that changes only where c is and which Once it holds.
LEMMA OnceMove ==
  ASSUME Typed, NEW c \in Callers, NEW w \in Pcs, NEW o \in Nat,
         Goes(c, [caller[c] EXCEPT !.pc = w, !.once = o])
  PROVE  Moves(c) /\ Keeps(c) /\ caller'[c].pc = w /\ caller'[c].once = o
  <1> DEFINE s == caller[c]
             q == [s EXCEPT !.pc = w, !.once = o]
  <1>1. s \in Stacks
    BY DEF Typed
  <1>2. Goes(c, q)
    OBVIOUS
  <1> HIDE DEF s
  <1>3. /\ q \in Stacks /\ q.pc = w /\ q.once = o /\ q.engine = s.engine /\ q.todo = s.todo
        /\ q.driver = s.driver /\ q.from = s.from
    BY <1>1 DEF Stacks
  <1>4. Moves(c) /\ caller'[c] = q
    BY <1>2, <1>3, GoesFacts
  <1> QED
    BY <1>3, <1>4 DEF s, Keeps

\* A step that changes only where c is.
LEMMA PcMove ==
  ASSUME Typed, NEW c \in Callers, NEW w \in Pcs, Goes(c, [caller[c] EXCEPT !.pc = w])
  PROVE  /\ Moves(c) /\ Keeps(c) /\ caller'[c].pc = w
         /\ caller'[c].once = caller[c].once /\ caller'[c].proc = caller[c].proc
  <1> DEFINE s == caller[c]
             q == [s EXCEPT !.pc = w]
  <1>1. s \in Stacks
    BY DEF Typed
  <1>2. Goes(c, q)
    OBVIOUS
  <1> HIDE DEF s
  <1>3. /\ q \in Stacks /\ q.pc = w /\ q.once = s.once /\ q.engine = s.engine /\ q.todo = s.todo
        /\ q.driver = s.driver /\ q.from = s.from /\ q.proc = s.proc
    BY <1>1 DEF Stacks
  <1>4. Moves(c) /\ caller'[c] = q
    BY <1>2, <1>3, GoesFacts
  <1> QED
    BY <1>3, <1>4 DEF s, Keeps

LEMMA GetOnceFacts ==
  ASSUME Typed, NEW c \in Callers, GetOnce(c)
  PROVE  /\ Moves(c) /\ Keeps(c) /\ caller[c].pc = "once" /\ caller'[c].pc = "do"
         /\ caller[c].driver \in Drivers
         /\ LET d == caller[c].driver
                n == caller'[c].once
            IN  /\ onceOf' = [onceOf EXCEPT ![d] = n]
                /\ n \in Nat /\ n # 0
                /\ \/ /\ onceOf[d] = 0 /\ n = Len(onces) + 1
                      /\ onces' = Append(onces, "new")
                   \/ onceOf[d] # 0 /\ n = onceOf[d] /\ onces' = onces
  <1> DEFINE d == caller[c].driver
             n == IF onceOf[d] = 0 THEN Len(onces) + 1 ELSE onceOf[d]
  <1>1. caller[c].pc = "once" /\ d \in Drivers
    BY DEF Typed, Sound, GetOnce, At
  <1>2. n \in Nat /\ n # 0
    BY <1>1 DEF Typed
  <1>3. /\ onces' = IF onceOf[d] = 0 THEN Append(onces, "new") ELSE onces
        /\ onceOf' = [onceOf EXCEPT ![d] = n]
        /\ Goes(c, [caller[c] EXCEPT !.pc = "do", !.once = n])
    BY DEF GetOnce
  <1>4. "do" \in Pcs
    BY DEF Pcs
  <1> HIDE DEF n
  <1>5. Moves(c) /\ Keeps(c) /\ caller'[c].pc = "do" /\ caller'[c].once = n
    BY <1>2, <1>3, <1>4, OnceMove
  <1> QED
    BY <1>1, <1>2, <1>3, <1>5 DEF n

LEMMA DoFacts ==
  ASSUME Typed, NEW c \in Callers, Do(c)
  PROVE  /\ Moves(c) /\ Keeps(c) /\ caller[c].pc = "do"
         /\ \/ /\ onces[caller[c].once] = "new"
               /\ onces' = [onces EXCEPT ![caller[c].once] = "running"]
               /\ caller'[c].pc = "copy" /\ caller'[c].once = caller[c].once
            \/ onces' = onces /\ caller'[c].pc = "load"
  <1>1. caller[c].pc = "do"
    BY DEF Do, At
  <1>2. CASE /\ onces[caller[c].once] = "new"
             /\ onces' = [onces EXCEPT ![caller[c].once] = "running"]
             /\ Goes(c, [caller[c] EXCEPT !.pc = "copy"])
    BY <1>1, <1>2, PcMove DEF Pcs
  <1>3. CASE Goes(c, [caller[c] EXCEPT !.pc = "load", !.once = 0]) /\ UNCHANGED onces
    BY <1>1, <1>3, OnceMove DEF Pcs
  <1> QED
    BY <1>2, <1>3 DEF Do

LEMMA CreateBinaryFacts ==
  ASSUME Typed, NEW c \in Callers, CreateBinary(c)
  PROVE  /\ Moves(c) /\ Keeps(c) /\ caller[c].pc = "copy" /\ caller'[c].pc = "write"
         /\ caller'[c].once = caller[c].once
         /\ caller[c].driver \in Drivers
         /\ file' = [file EXCEPT ![caller[c].driver] = (@ \ {"whole"}) \cup {"there"}]
  <1>1. caller[c].pc = "copy"
    BY DEF CreateBinary, At
  <1>2. caller[c].driver \in Drivers
    BY <1>1 DEF Typed, Sound
  <1>3. Goes(c, [caller[c] EXCEPT !.pc = "write"])
    BY DEF CreateBinary
  <1>4. file' = [file EXCEPT ![caller[c].driver] = (@ \ {"whole"}) \cup {"there"}]
    BY DEF CreateBinary
  <1> QED
    BY <1>1, <1>2, <1>3, <1>4, PcMove DEF Pcs

LEMMA FinishBinaryFacts ==
  ASSUME Typed, NEW c \in Callers, FinishBinary(c)
  PROVE  /\ Moves(c) /\ Keeps(c) /\ caller[c].pc = "write" /\ caller'[c].pc = "load"
         /\ caller[c].driver \in Drivers
         /\ file' = [file EXCEPT ![caller[c].driver] = @ \cup {"whole", "exec"}]
         /\ onces' = [onces EXCEPT ![caller[c].once] = "done"]
  <1>1. caller[c].pc = "write"
    BY DEF FinishBinary, At
  <1>2. caller[c].driver \in Drivers
    BY <1>1 DEF Typed, Sound
  <1>3. Goes(c, [caller[c] EXCEPT !.pc = "load", !.once = 0])
    BY DEF FinishBinary
  <1>4. /\ file' = [file EXCEPT ![caller[c].driver] = @ \cup {"whole", "exec"}]
        /\ onces' = [onces EXCEPT ![caller[c].once] = "done"]
    BY DEF FinishBinary
  <1> QED
    BY <1>1, <1>2, <1>3, <1>4, OnceMove DEF Pcs

LEMMA DownloadFailsFacts ==
  ASSUME Typed, NEW c \in Callers, DownloadFails(c)
  PROVE  /\ Moves(c) /\ Keeps(c) /\ caller[c].pc \in {"copy", "write"} /\ caller'[c].pc = "undo"
         /\ caller'[c].once = caller[c].once
         /\ onces' = [onces EXCEPT ![caller[c].once] = "failed"]
  BY PcMove DEF Pcs, DownloadFails

\* The plugin that was to be loaded is passed over, or the call has failed.
Fails(c) ==
  /\ Moves(c)
  /\ \/ /\ caller[c].from = "registry"
        /\ caller'[c].pc = "search" /\ caller'[c].engine = caller[c].engine
        /\ caller'[c].todo = caller[c].todo \ {caller[c].driver}
     \/ caller'[c] = Locals

LEMMA LoadErrorFacts ==
  ASSUME Typed, NEW c \in Callers, LoadError(c)
  PROVE  Fails(c)
  <1>1. CASE caller[c].from = "registry"
    <2> DEFINE s == caller[c]
               t == s.todo \ {s.driver}
               q == [s EXCEPT !.pc = "search", !.todo = t, !.proc = 0]
    <2>1. s \in Stacks /\ t \in SUBSET Drivers
      BY DEF Typed, Stacks
    <2>2. Goes(c, q)
      BY <1>1 DEF LoadError
    <2> HIDE DEF s, t
    <2>3. q \in Stacks /\ q.pc = "search" /\ q.engine = s.engine /\ q.todo = t
      BY <2>1 DEF Stacks, Pcs
    <2>4. Moves(c) /\ caller'[c] = q
      BY <2>2, <2>3, GoesFacts
    <2> QED
      BY <1>1, <2>3, <2>4 DEF s, t, Fails
  <1>2. CASE caller[c].from # "registry"
    BY <1>2, ReturnFacts DEF LoadError, Fails
  <1> QED
    BY <1>1, <1>2

\* The process that c starts.
NewProcess(c) ==
  [plugin |-> caller[c].driver, state |-> "alive", loaded |-> FALSE, next |-> 0, conns |-> {},
   whole |-> caller[c].path = "image" \/ "whole" \in file[caller[c].driver]]

LEMMA StartFacts ==
  ASSUME Typed, NEW c \in Callers, Start(c)
  PROVE  /\ Moves(c) /\ Keeps(c) /\ caller[c].pc = "load" /\ caller'[c].pc = "validate"
         /\ caller'[c].proc = Len(procs) + 1
         /\ caller[c].driver \in Drivers
         /\ NewProcess(c) \in Processes
         /\ procs' = Append(procs, NewProcess(c))
  <1> DEFINE s == caller[c]
             n == Len(procs) + 1
             q == [s EXCEPT !.pc = "validate", !.proc = n]
  <1>1. s \in Stacks /\ s.pc = "load" /\ n \in Nat
    BY DEF Typed, Start, At
  <1>2. s.driver \in Drivers
    BY <1>1 DEF Typed, Sound
  <1>3. Goes(c, q) /\ procs' = Append(procs, NewProcess(c))
    BY DEF Start, NewProcess
  <1>4. NewProcess(c) \in Processes
    BY <1>2 DEF NewProcess, Processes
  <1> HIDE DEF s, n
  <1>5. /\ q \in Stacks /\ q.pc = "validate" /\ q.proc = n /\ q.engine = s.engine /\ q.todo = s.todo
        /\ q.driver = s.driver /\ q.from = s.from
    BY <1>1 DEF Stacks, Pcs
  <1>6. Moves(c) /\ caller'[c] = q
    BY <1>3, <1>5, GoesFacts
  <1> QED
    BY <1>1, <1>2, <1>3, <1>4, <1>5, <1>6 DEF s, n, Keeps

LEMMA StoreFacts ==
  ASSUME Typed, NEW c \in Callers, Store(c)
  PROVE  /\ Moves(c) /\ caller[c].pc = "validate"
         /\ caller[c].driver \in Drivers /\ caller[c].proc \in DOMAIN procs
         /\ procs[caller[c].proc].state = "alive"
         /\ cache' = [cache EXCEPT ![caller[c].driver] = caller[c].proc]
         /\ clients' = [clients EXCEPT ![caller[c].driver] = caller[c].proc]
         /\ procs' = [procs EXCEPT ![caller[c].proc].loaded = TRUE]
         /\ \/ /\ Keeps(c) /\ caller[c].from = "download" /\ caller'[c].pc = "register"
               /\ caller'[c].proc = caller[c].proc
            \/ caller[c].from # "download" /\ Gets(c, caller[c].proc)
  <1>1. caller[c].pc = "validate"
    BY DEF Store, At
  <1>2. caller[c].driver \in Drivers /\ caller[c].proc \in DOMAIN procs
    BY <1>1 DEF Typed, Sound
  <1>3. caller[c].proc \in Nat
    BY DEF Typed, Stacks
  <1>4. /\ procs[caller[c].proc].state = "alive"
        /\ cache' = [cache EXCEPT ![caller[c].driver] = caller[c].proc]
        /\ clients' = [clients EXCEPT ![caller[c].driver] = caller[c].proc]
        /\ procs' = [procs EXCEPT ![caller[c].proc].loaded = TRUE]
    BY DEF Store
  <1>5. Goes(c, IF caller[c].from = "download" THEN [caller[c] EXCEPT !.pc = "register"]
                ELSE Holds(c, caller[c].proc))
    BY DEF Store
  <1>6. CASE caller[c].from = "download"
    <2>1. Goes(c, [caller[c] EXCEPT !.pc = "register"])
      BY <1>5, <1>6
    <2> QED
      BY <1>1, <1>2, <1>4, <1>6, <2>1, PcMove DEF Pcs
  <1>7. CASE caller[c].from # "download"
    <2>1. Goes(c, Holds(c, caller[c].proc))
      BY <1>5, <1>7
    <2> QED
      BY <1>1, <1>2, <1>3, <1>4, <1>7, <2>1, HoldsFacts DEF Gets
  <1> QED
    BY <1>6, <1>7

LEMMA RegisterFacts ==
  ASSUME Typed, NEW c \in Callers, Register(c)
  PROVE  /\ caller[c].pc = "register" /\ Gets(c, caller[c].proc)
         /\ caller[c].driver \in Drivers /\ caller[c].proc \in DOMAIN procs
  <1>1. caller[c].pc = "register"
    BY DEF Register, At
  <1>2. caller[c].proc \in Nat
    BY DEF Typed, Stacks
  <1> QED
    BY <1>1, <1>2, HoldsFacts DEF Register, Typed, Sound

-----------------------------------------------------------------------------
\* Connect gives the process a fresh id and the caller the spec it will send.
LEMMA ConnectFacts ==
  ASSUME Typed, NEW c \in Callers, Connect(c)
  PROVE  /\ Moves(c) /\ caller[c].pc = "connect" /\ caller'[c].pc = "open"
         /\ caller[c].proc \in DOMAIN procs /\ procs[caller[c].proc].state = "alive"
         /\ caller'[c].engine = caller[c].engine /\ caller'[c].proc = caller[c].proc
         /\ caller'[c].todo = caller[c].todo
         /\ caller'[c].id = procs[caller[c].proc].next + 1
         /\ caller'[c].written \in Value /\ caller'[c].spec = caller'[c].written
         /\ caller'[c].planned = caller[c].planned
         /\ LET p == caller[c].proc
                n == procs[p].next + 1
                s == {k \in procs[p].conns : k[1] # n} \cup {<<n, c>>}
            IN  procs' = [procs EXCEPT ![p] = [procs[p] EXCEPT !.next = n, !.conns = s]]
  <1> DEFINE s == caller[c]
             n == procs[s.proc].next + 1
  <1>1. s \in Stacks /\ s.pc = "connect" /\ procs[s.proc].state = "alive"
    BY DEF Typed, Connect, At, Proc
  <1>2. s.proc \in DOMAIN procs
    BY <1>1 DEF Typed, Sound
  <1>3. n \in Nat
    <2>1. procs[s.proc] \in Processes
      BY <1>2 DEF Typed
    <2> QED
      BY <2>1 DEF Processes
  <1>4. PICK g \in Fields(s.engine) \cap Given, v \in Value : Goes(c, Connected(c, n, g, v))
    BY DEF Connect, Proc
  <1>5. procs' = [procs EXCEPT ![s.proc] =
            [procs[s.proc] EXCEPT !.next = n,
                                  !.conns = {k \in procs[s.proc].conns : k[1] # n} \cup {<<n, c>>}]]
    <2> DEFINE p == s.proc
               one == [procs EXCEPT ![p].next = n]
    <2>1. procs \in Seq(Processes) /\ procs[p] \in Processes
      BY <1>2 DEF Typed
    <2>2. procs' = [one EXCEPT ![p].conns = {k \in one[p].conns : k[1] # n} \cup {<<n, c>>}]
      BY DEF Connect, Proc
    <2>3. /\ one[p] = [procs[p] EXCEPT !.next = n] /\ DOMAIN one = DOMAIN procs
          /\ \A i \in DOMAIN procs \ {p} : one[i] = procs[i]
      BY <1>2, <2>1
    <2>4. one[p].conns = procs[p].conns
      BY <2>1, <2>3 DEF Processes
    <2> DEFINE new == {k \in procs[p].conns : k[1] # n} \cup {<<n, c>>}
    <2>5. procs' = [i \in DOMAIN procs |-> IF i = p THEN [one[p] EXCEPT !.conns = new] ELSE one[i]]
      <3>1. {k \in one[p].conns : k[1] # n} \cup {<<n, c>>} = new
        BY <2>4
      <3>2. procs' = [one EXCEPT ![p].conns = new]
        BY <2>2, <3>1
      <3> HIDE DEF one, new
      <3> QED
        BY <2>3, <3>2
    <2>6. procs' = [i \in DOMAIN procs |->
                      IF i = p THEN [procs[p] EXCEPT !.next = n, !.conns = new] ELSE procs[i]]
      BY <2>3, <2>5
    <2> HIDE DEF new
    <2> QED
      BY <1>2, <2>6 DEF new
  <1> DEFINE q == [s EXCEPT !.pc = "open", !.id = n, !.field = g, !.written = v, !.spec = v]
  <1>6. Goes(c, q)
    BY <1>4 DEF Connected
  <1> HIDE DEF s, n
  <1>7. /\ q \in Stacks /\ q.pc = "open" /\ q.id = n /\ q.written = v /\ q.spec = v
        /\ q.engine = s.engine /\ q.proc = s.proc /\ q.planned = s.planned /\ q.todo = s.todo
    <2>1. g \in SpecFields
      BY <1>4 DEF Fields, SpecFields
    <2>2. v \in {"unset", "zero"}
      BY <1>4 DEF Value
    <2> QED
      BY <1>1, <1>3, <2>1, <2>2 DEF Stacks, Pcs
  <1>8. Moves(c) /\ caller'[c] = q
    BY <1>6, <1>7, GoesFacts
  <1> QED
    BY <1>1, <1>2, <1>5, <1>7, <1>8 DEF s, n

\* A call that fails, or a connection that is closed.
LEMMA EndFacts ==
  ASSUME Typed, NEW c \in Callers, ForgetOnce(c) \/ ConnectFails(c) \/ Close(c)
  PROVE  Moves(c) /\ caller'[c] = Locals
  BY ReturnFacts DEF ForgetOnce, ConnectFails, Close

\* Whatever the proxy does to the spec, the connection stays the caller's.
Calls(c) ==
  /\ Moves(c) /\ caller[c].pc = "open" /\ caller'[c].pc = "open"
  /\ caller'[c].engine = caller[c].engine /\ caller'[c].todo = caller[c].todo
  /\ caller'[c].proc = caller[c].proc /\ caller'[c].id = caller[c].id
  /\ caller'[c].field = caller[c].field /\ caller'[c].written = caller[c].written

LEMMA EncodeFacts ==
  ASSUME NEW op, NEW e, NEW f, NEW v \in {"none", "unset", "zero", "sentinel"}
  PROVE  /\ Encode(op, e, f, v) \in {"none", "unset", "zero", "sentinel"}
         /\ Received(op, e, f, v) \in {"none", "unset", "zero", "sentinel"}
  BY DEF Encode, Received, Carry, Decode

LEMMA PlanFacts ==
  ASSUME Typed, NEW c \in Callers, Plan(c)
  PROVE  /\ Calls(c)
         /\ caller'[c].spec = Encode("plan", caller[c].engine, caller[c].field, caller[c].spec)
         /\ caller'[c].planned \in {"error", Received("plan", caller[c].engine, caller[c].field, caller[c].spec)}
  <1> DEFINE s == caller[c]
             e == Encode("plan", s.engine, s.field, s.spec)
             r == IF Found(c) THEN Received("plan", s.engine, s.field, s.spec) ELSE "error"
             q == [s EXCEPT !.spec = e, !.planned = r]
  <1>1. s \in Stacks /\ s.pc = "open"
    BY DEF Typed, Plan, At
  <1>2. s.spec \in {"none", "unset", "zero", "sentinel"}
    BY <1>1 DEF Stacks
  <1>3. /\ e \in {"none", "unset", "zero", "sentinel"}
        /\ r \in {"none", "unset", "zero", "sentinel", "error"}
    BY <1>2, EncodeFacts
  <1>4. r \in {"error", Received("plan", s.engine, s.field, s.spec)} /\ Goes(c, q)
    BY DEF Plan
  <1> HIDE DEF s, e, r
  <1>5. /\ q \in Stacks /\ q.pc = s.pc /\ q.engine = s.engine /\ q.todo = s.todo /\ q.proc = s.proc
        /\ q.id = s.id /\ q.field = s.field /\ q.written = s.written /\ q.spec = e /\ q.planned = r
    <2> DEFINE f == [s EXCEPT !.spec = e]
    <2>1. /\ f \in Stacks /\ f.pc = s.pc /\ f.engine = s.engine /\ f.todo = s.todo /\ f.proc = s.proc
          /\ f.id = s.id /\ f.field = s.field /\ f.written = s.written /\ f.spec = e
      BY <1>1, <1>3 DEF Stacks
    <2>2. q = [f EXCEPT !.planned = r]
      OBVIOUS
    <2> HIDE DEF f, q
    <2> QED
      BY <1>3, <2>1, <2>2 DEF Stacks
  <1>6. Moves(c) /\ caller'[c] = q
    BY <1>4, <1>5, GoesFacts
  <1> QED
    BY <1>1, <1>4, <1>5, <1>6 DEF s, e, Calls

LEMMA GenerateFixturesFacts ==
  ASSUME Typed, NEW c \in Callers, GenerateFixtures(c)
  PROVE  /\ Calls(c)
         /\ caller'[c].spec = Encode("fixtures", caller[c].engine, caller[c].field, caller[c].spec)
         /\ caller'[c].planned = caller[c].planned
  <1> DEFINE s == caller[c]
             e == Encode("fixtures", s.engine, s.field, s.spec)
             q == [s EXCEPT !.spec = e]
  <1>1. s \in Stacks /\ s.pc = "open"
    BY DEF Typed, GenerateFixtures, At
  <1>2. s.spec \in {"none", "unset", "zero", "sentinel"}
    BY <1>1 DEF Stacks
  <1>3. e \in {"none", "unset", "zero", "sentinel"}
    BY <1>2, EncodeFacts
  <1>4. Goes(c, q)
    BY DEF GenerateFixtures
  <1> HIDE DEF s, e
  <1>5. /\ q \in Stacks /\ q.pc = s.pc /\ q.engine = s.engine /\ q.todo = s.todo /\ q.proc = s.proc
        /\ q.id = s.id /\ q.field = s.field /\ q.written = s.written /\ q.spec = e /\ q.planned = s.planned
    BY <1>1, <1>3 DEF Stacks
  <1>6. Moves(c) /\ caller'[c] = q
    BY <1>4, <1>5, GoesFacts
  <1> QED
    BY <1>1, <1>5, <1>6 DEF s, e, Calls

-----------------------------------------------------------------------------
(* Types.                                                                  *)

\* Processes and Onces are only ever added, and a process may change.
LEMMA MoveSound ==
  ASSUME Typed, NEW c \in Callers, Moves(c), Sound(caller[c])',
         DOMAIN onces \subseteq DOMAIN onces', DOMAIN procs \subseteq DOMAIN procs'
  PROVE  /\ (caller \in [Callers -> Stacks])'
         /\ (\A k \in Callers : Sound(caller[k]))'
  <1>1. \A k \in Callers \ {c} : Sound(caller[k])'
    BY DEF Typed, Sound, Moves
  <1> QED
    BY <1>1 DEF Moves

\* Steps after which a stack holds what was there before.
LEMMA QuietTyped ==
  ASSUME Typed, NEW c \in Callers, Moves(c), Sound(caller[c])',
         UNCHANGED <<host, loaderVars, procs>>
  PROVE  Typed'
  <1>1. /\ (caller \in [Callers -> Stacks])'
        /\ (\A k \in Callers : Sound(caller[k]))'
    BY MoveSound DEF loaderVars
  <1> QED
    BY <1>1 DEF Typed, loaderVars

LEMMA LocalsSound == Sound(Locals) /\ Sound(Locals)'
  BY LocalsFacts DEF Sound

LEMMA GetsSound ==
  ASSUME Typed, NEW c \in Callers, caller[c].pc # "idle", NEW p \in DOMAIN procs, Gets(c, p),
         DOMAIN procs \subseteq DOMAIN procs'
  PROVE  Moves(c) /\ Sound(caller[c])'
  BY DEF Typed, Gets, Sound

LEMMA FailsSound ==
  ASSUME Typed, NEW c \in Callers, caller[c].pc # "idle", Fails(c)
  PROVE  Moves(c) /\ Sound(caller[c])'
  <1>1. CASE caller'[c] = Locals
    BY <1>1, LocalsSound DEF Fails
  <1>2. CASE caller'[c] # Locals
    BY <1>2 DEF Typed, Fails, Sound
  <1> QED
    BY <1>1, <1>2

LEMMA InitTyped == Init => Typed
  <1> SUFFICES ASSUME Init PROVE Typed
    OBVIOUS
  <1> USE DEF Init, LoaderInit
  <1>1. registry \in [Drivers -> Infos]
    BY DriversAssumption DEF Discovered, Unknown, Infos
  <1>2. onces \in Seq(OnceStates) /\ Len(onces) = 0 /\ procs \in Seq(Processes) /\ Len(procs) = 0
        /\ DOMAIN procs = {}
    OBVIOUS
  <1>3. \A c \in Callers : caller[c] = Locals
    OBVIOUS
  <1>4. caller \in [Callers -> Stacks]
    BY LocalsFacts
  <1>5. \A c \in Callers : Sound(caller[c])
    BY <1>3, LocalsSound
  <1>6. /\ onceOf \in [Drivers -> 0 .. Len(onces)]
        /\ cache \in [Drivers -> 0 .. Len(procs)] /\ clients \in [Drivers -> 0 .. Len(procs)]
    BY <1>2
  <1>7. host \in {"up", "stopping"} /\ file \in [Drivers -> SUBSET {"there", "whole", "exec"}]
    OBVIOUS
  <1> QED
    BY <1>1, <1>2, <1>4, <1>5, <1>6, <1>7 DEF Typed

LEMMA ReplaceInSeq ==
  ASSUME NEW S, NEW s \in Seq(S), NEW i \in DOMAIN s, NEW v \in S
  PROVE  /\ [s EXCEPT ![i] = v] \in Seq(S)
         /\ Len([s EXCEPT ![i] = v]) = Len(s)
         /\ DOMAIN [s EXCEPT ![i] = v] = DOMAIN s
         /\ [s EXCEPT ![i] = v][i] = v
         /\ \A j \in DOMAIN s \ {i} : [s EXCEPT ![i] = v][j] = s[j]
  OBVIOUS

LEMMA AppendToSeq ==
  ASSUME NEW S, NEW s \in Seq(S), NEW v \in S
  PROVE  /\ Append(s, v) \in Seq(S)
         /\ Len(Append(s, v)) = Len(s) + 1
         /\ DOMAIN s = 1 .. Len(s) /\ Len(s) \in Nat
         /\ DOMAIN Append(s, v) = DOMAIN s \cup {Len(s) + 1} /\ Len(s) + 1 \notin DOMAIN s
         /\ Append(s, v)[Len(s) + 1] = v
         /\ \A j \in DOMAIN s : Append(s, v)[j] = s[j]
  <1>1. /\ Append(s, v) \in Seq(S)
        /\ Len(Append(s, v)) = Len(s) + 1
        /\ \A j \in 1 .. Len(s) : Append(s, v)[j] = s[j]
        /\ Append(s, v)[Len(s) + 1] = v
    BY AppendProperties
  <1>2. DOMAIN s = 1 .. Len(s) /\ Len(s) \in Nat /\ DOMAIN Append(s, v) = 1 .. Len(Append(s, v))
    BY <1>1
  <1>3. 1 .. (Len(s) + 1) = (1 .. Len(s)) \cup {Len(s) + 1}
    BY <1>2
  <1> QED
    BY <1>1, <1>2, <1>3

\* The steps of the search, and those that end a call or change a spec.
LEMMA QuietSteps ==
  ASSUME Typed, NEW c \in Callers,
         \/ \E e \in Engines : List(c, e)
         \/ UseCached(c) \/ LoadFromInfo(c) \/ NoneRegistered(c)
         \/ StartRefused(c) \/ ValidateFails(c) \/ ConnectFails(c) \/ Plan(c) \/ GenerateFixtures(c)
  PROVE  Typed'
  <1>1. ASSUME NEW e \in Engines, List(c, e) PROVE Typed'
    <2>1. Moves(c) /\ caller'[c].pc = "search" /\ caller'[c].engine = e
      BY <1>1, ListFacts
    <2>2. Sound(caller[c])'
      BY <2>1 DEF Sound
    <2> QED
      BY <1>1, <2>1, <2>2, QuietTyped DEF List
  <1>2. CASE UseCached(c)
    <2>1. PICK d \in caller[c].todo : cache[d] \in DOMAIN procs /\ Gets(c, cache[d])
      BY <1>2, UseCachedFacts
    <2>2. caller[c].pc # "idle" /\ UNCHANGED <<host, loaderVars, procs>>
      BY <1>2 DEF UseCached, At
    <2>3. Moves(c) /\ Sound(caller[c])'
      BY <2>1, <2>2, GetsSound
    <2> QED
      BY <2>2, <2>3, QuietTyped
  <1>3. CASE LoadFromInfo(c)
    <2>1. /\ Moves(c) /\ caller[c].pc = "search" /\ caller'[c].pc = "load"
          /\ caller'[c].driver \in Drivers /\ caller'[c].engine = caller[c].engine
      BY <1>3, LoadFromInfoFacts
    <2>2. Sound(caller[c])'
      BY <2>1 DEF Sound, Typed
    <2> QED
      BY <1>3, <2>1, <2>2, QuietTyped DEF LoadFromInfo
  <1>4. CASE NoneRegistered(c)
    <2>1. /\ Moves(c) /\ caller[c].pc = "search" /\ caller'[c].pc \in {"load", "once"}
          /\ caller'[c].driver \in Drivers /\ caller'[c].engine = caller[c].engine
      BY <1>4, NoneRegisteredFacts
    <2>2. Sound(caller[c])'
      BY <2>1 DEF Sound, Typed
    <2>3. UNCHANGED <<host, loaderVars, procs>>
      BY <1>4 DEF NoneRegistered
    <2> QED
      BY <2>1, <2>2, <2>3, QuietTyped
  <1>5. CASE StartRefused(c) \/ ValidateFails(c)
    <2>1. caller[c].pc # "idle" /\ LoadError(c) /\ UNCHANGED <<host, loaderVars, procs>>
      BY <1>5 DEF StartRefused, ValidateFails, At
    <2>2. Moves(c) /\ Sound(caller[c])'
      BY <2>1, LoadErrorFacts, FailsSound
    <2> QED
      BY <2>1, <2>2, QuietTyped
  <1>6. CASE ConnectFails(c)
    <2>1. Moves(c) /\ Sound(caller[c])'
      BY <1>6, EndFacts, LocalsSound
    <2> QED
      BY <1>6, <2>1, QuietTyped DEF ConnectFails, rpcUnchanged
  <1>7. CASE Plan(c) \/ GenerateFixtures(c)
    <2>1. Calls(c)
      BY <1>7, PlanFacts, GenerateFixturesFacts
    <2>2. UNCHANGED <<host, loaderVars, procs>>
      BY <1>7 DEF Plan, GenerateFixtures, rpcUnchanged
    <2>3. Moves(c) /\ Sound(caller[c])'
      BY <2>1, <2>2 DEF Calls, Sound, Typed
    <2> QED
      BY <2>2, <2>3, QuietTyped
  <1> QED
    BY <1>1, <1>2, <1>3, <1>4, <1>5, <1>6, <1>7

\* The steps of the download.
LEMMA DownloadTyped ==
  ASSUME Typed, NEW c \in Callers,
         GetOnce(c) \/ Do(c) \/ CreateBinary(c) \/ FinishBinary(c) \/ DownloadFails(c) \/ ForgetOnce(c)
  PROVE  Typed'
  <1>1. /\ UNCHANGED <<installed, host, registry, cache, clients, procs>>
    BY DEF GetOnce, Do, CreateBinary, FinishBinary, DownloadFails, ForgetOnce
  <1>2. SUFFICES /\ (file \in [Drivers -> SUBSET {"there", "whole", "exec"}])'
                 /\ (onces \in Seq(OnceStates) /\ onceOf \in [Drivers -> 0 .. Len(onces)])'
                 /\ DOMAIN onces \subseteq DOMAIN onces'
                 /\ Moves(c) /\ Sound(caller[c])'
    <2>1. (caller \in [Callers -> Stacks])' /\ (\A k \in Callers : Sound(caller[k]))'
      BY <1>1, <1>2, MoveSound
    <2> QED
      BY <1>1, <1>2, <2>1 DEF Typed
  <1>3. CASE GetOnce(c)
    <2> DEFINE d == caller[c].driver
               n == caller'[c].once
    <2>1. /\ Moves(c) /\ Keeps(c) /\ caller[c].pc = "once" /\ caller'[c].pc = "do" /\ d \in Drivers
          /\ onceOf' = [onceOf EXCEPT ![d] = n] /\ n \in Nat /\ n # 0
          /\ \/ onceOf[d] = 0 /\ n = Len(onces) + 1 /\ onces' = Append(onces, "new")
             \/ onceOf[d] # 0 /\ n = onceOf[d] /\ onces' = onces
      BY <1>3, GetOnceFacts
    <2>2. file' = file
      BY <1>3 DEF GetOnce
    <2>3. "new" \in OnceStates /\ onces \in Seq(OnceStates) /\ onceOf \in [Drivers -> 0 .. Len(onces)]
      BY DEF OnceStates, Typed
    <2>4. /\ onces' \in Seq(OnceStates) /\ DOMAIN onces \subseteq DOMAIN onces'
          /\ Len(onces) \in Nat /\ Len(onces') \in Nat /\ Len(onces') >= Len(onces)
          /\ n \in 1 .. Len(onces')
      <3>1. CASE onceOf[d] = 0 /\ n = Len(onces) + 1 /\ onces' = Append(onces, "new")
        BY <2>1, <2>3, <3>1, AppendToSeq
      <3>2. CASE onceOf[d] # 0 /\ n = onceOf[d] /\ onces' = onces
        BY <2>1, <2>3, <3>2
      <3> QED
        BY <2>1, <3>1, <3>2
    <2>5. onceOf' \in [Drivers -> 0 .. Len(onces')]
      BY <2>1, <2>3, <2>4
    <2>6. n \in DOMAIN onces'
      BY <2>4
    <2>7. Sound(caller[c])'
      BY <2>1, <2>6 DEF Sound, Keeps, Typed
    <2> QED
      BY <2>1, <2>2, <2>4, <2>5, <2>7 DEF Typed
  <1>4. CASE Do(c) \/ FinishBinary(c) \/ DownloadFails(c)
    <2>1. Moves(c) /\ Keeps(c) /\ caller[c].pc \in {"do", "copy", "write"}
      BY <1>4, DoFacts, FinishBinaryFacts, DownloadFailsFacts
    <2>2. caller[c].once \in DOMAIN onces /\ caller[c].driver \in Drivers /\ caller[c].engine \in Engines
      BY <2>1 DEF Typed, Sound
    <2>3. \/ onces' = onces
          \/ \E v \in OnceStates : onces' = [onces EXCEPT ![caller[c].once] = v]
      BY <1>4, DoFacts, FinishBinaryFacts, DownloadFailsFacts DEF OnceStates
    <2>4. onces' \in Seq(OnceStates) /\ Len(onces') = Len(onces) /\ DOMAIN onces' = DOMAIN onces
      <3>1. onces \in Seq(OnceStates)
        BY DEF Typed
      <3>2. ASSUME NEW v \in OnceStates, onces' = [onces EXCEPT ![caller[c].once] = v]
            PROVE  onces' \in Seq(OnceStates) /\ Len(onces') = Len(onces) /\ DOMAIN onces' = DOMAIN onces
        BY <2>2, <3>1, <3>2, ReplaceInSeq
      <3> QED
        BY <2>3, <3>1, <3>2
    <2>5. /\ caller'[c].pc \in {"copy", "undo", "load"}
          /\ caller'[c].pc # "load" => caller'[c].once = caller[c].once
      BY <1>4, DoFacts, FinishBinaryFacts, DownloadFailsFacts
    <2>6. Sound(caller[c])'
      BY <2>1, <2>2, <2>4, <2>5 DEF Sound, Keeps
    <2>7. file' \in [Drivers -> SUBSET {"there", "whole", "exec"}] /\ onceOf' = onceOf
      <3>1. file \in [Drivers -> SUBSET {"there", "whole", "exec"}]
        BY DEF Typed
      <3>2. onceOf' = onceOf
        BY <1>4 DEF Do, FinishBinary, DownloadFails
      <3>3. file' = file \/ file' = [file EXCEPT ![caller[c].driver] = @ \cup {"whole", "exec"}]
        BY <1>4 DEF Do, FinishBinary, DownloadFails
      <3> QED
        BY <3>1, <3>2, <3>3
    <2> QED
      BY <2>1, <2>4, <2>6, <2>7 DEF Typed
  <1>5. CASE CreateBinary(c)
    <2>1. /\ Moves(c) /\ Keeps(c) /\ caller[c].pc = "copy" /\ caller'[c].pc = "write"
          /\ caller'[c].once = caller[c].once /\ caller[c].driver \in Drivers
      BY <1>5, CreateBinaryFacts
    <2>2. file' = [file EXCEPT ![caller[c].driver] = (@ \ {"whole"}) \cup {"there"}]
      BY <1>5, CreateBinaryFacts
    <2>3. file' \in [Drivers -> SUBSET {"there", "whole", "exec"}]
      BY <2>2 DEF Typed
    <2>4. UNCHANGED <<onceOf, onces>>
      BY <1>5 DEF CreateBinary
    <2>5. Sound(caller[c])'
      BY <1>1, <2>1, <2>4 DEF Sound, Keeps, Typed
    <2> QED
      BY <2>1, <2>3, <2>4, <2>5 DEF Typed
  <1>6. CASE ForgetOnce(c)
    <2>1. Moves(c) /\ Sound(caller[c])'
      BY <1>6, EndFacts, LocalsSound
    <2>2. onceOf' = [onceOf EXCEPT ![caller[c].driver] = 0] /\ UNCHANGED <<file, onces>>
      BY <1>6 DEF ForgetOnce
    <2>3. onceOf' \in [Drivers -> 0 .. Len(onces')]
      <3>1. onceOf \in [Drivers -> 0 .. Len(onces)] /\ Len(onces) \in Nat
        BY DEF Typed
      <3> DEFINE n == 0 .. Len(onces)
      <3>2. 0 \in n /\ onceOf \in [Drivers -> n]
        BY <3>1
      <3> HIDE DEF n
      <3>3. onceOf' \in [Drivers -> n]
        BY <2>2, <3>2
      <3> QED
        BY <2>2, <3>3 DEF n
    <2> QED
      BY <2>1, <2>2, <2>3 DEF Typed
  <1> QED
    BY <1>3, <1>4, <1>5, <1>6

-----------------------------------------------------------------------------
(* The processes after a step that changes one of them.                    *)

\* What a running process never changes.
SameProcess(p) == procs'[p].plugin = procs[p].plugin /\ procs'[p].whole = procs[p].whole

\* Its maps and its life.
SameServer(p) ==
  /\ procs'[p].state = procs[p].state /\ procs'[p].next = procs[p].next
  /\ procs'[p].conns = procs[p].conns

\* Process p becomes r and nothing else changes.
LEMMA ProcessChanges ==
  ASSUME Typed, NEW p \in DOMAIN procs, NEW r \in Processes, procs' = [procs EXCEPT ![p] = r],
         r.plugin = procs[p].plugin, r.whole = procs[p].whole
  PROVE  /\ procs' \in Seq(Processes) /\ Len(procs') = Len(procs) /\ DOMAIN procs' = DOMAIN procs
         /\ procs'[p] = r /\ \A i \in DOMAIN procs \ {p} : procs'[i] = procs[i]
         /\ \A i \in DOMAIN procs : SameProcess(i)
  <1>1. /\ procs' \in Seq(Processes) /\ Len(procs') = Len(procs) /\ DOMAIN procs' = DOMAIN procs
        /\ procs'[p] = r /\ \A i \in DOMAIN procs \ {p} : procs'[i] = procs[i]
    BY ReplaceInSeq DEF Typed
  <1> QED
    BY <1>1 DEF SameProcess

LEMMA StoreProcs ==
  ASSUME Typed, NEW c \in Callers, Store(c)
  PROVE  /\ procs' \in Seq(Processes) /\ Len(procs') = Len(procs) /\ DOMAIN procs' = DOMAIN procs
         /\ \A p \in DOMAIN procs : SameProcess(p) /\ SameServer(p)
         /\ \A p \in DOMAIN procs \ {caller[c].proc} : procs'[p] = procs[p]
  <1> DEFINE p == caller[c].proc
             r == [procs[p] EXCEPT !.loaded = TRUE]
  <1>1. p \in DOMAIN procs /\ procs' = [procs EXCEPT ![p] = r]
    BY StoreFacts
  <1>2. procs[p] \in Processes
    BY <1>1 DEF Typed
  <1>3. /\ r \in Processes /\ r.plugin = procs[p].plugin /\ r.whole = procs[p].whole
        /\ r.state = procs[p].state /\ r.next = procs[p].next /\ r.conns = procs[p].conns
    BY <1>2 DEF Processes
  <1> HIDE DEF r
  <1>4. /\ procs' \in Seq(Processes) /\ Len(procs') = Len(procs) /\ DOMAIN procs' = DOMAIN procs
        /\ procs'[p] = r /\ \A i \in DOMAIN procs \ {p} : procs'[i] = procs[i]
        /\ \A i \in DOMAIN procs : SameProcess(i)
    BY <1>1, <1>3, ProcessChanges
  <1> QED
    BY <1>3, <1>4 DEF SameServer

LEMMA ConnectProcs ==
  ASSUME Typed, NEW c \in Callers, Connect(c)
  PROVE  LET p == caller[c].proc
             n == procs[p].next + 1
         IN  /\ procs' \in Seq(Processes) /\ Len(procs') = Len(procs) /\ DOMAIN procs' = DOMAIN procs
             /\ p \in DOMAIN procs /\ n \in Nat
             /\ procs'[p].state = procs[p].state /\ procs'[p].loaded = procs[p].loaded
             /\ procs'[p].next = n /\ procs'[p].conns = procs[p].conns \cup {<<n, c>>}
             /\ \A i \in DOMAIN procs \ {p} : procs'[i] = procs[i]
             /\ \A i \in DOMAIN procs : SameProcess(i)
  <1> DEFINE p == caller[c].proc
             n == procs[p].next + 1
             s == {k \in procs[p].conns : k[1] # n} \cup {<<n, c>>}
             r == [procs[p] EXCEPT !.next = n, !.conns = s]
  <1>1. p \in DOMAIN procs /\ procs' = [procs EXCEPT ![p] = r]
    BY ConnectFacts
  <1>2. procs[p] \in Processes /\ procs[p].conns \subseteq (1 .. procs[p].next) \X Callers
    BY <1>1 DEF Typed
  <1>3. procs[p].next \in Nat /\ n \in Nat
    BY <1>2 DEF Processes
  <1>4. \A k \in procs[p].conns : k[1] # n
    BY <1>2, <1>3
  <1>5. s = procs[p].conns \cup {<<n, c>>}
    BY <1>4
  <1>6. s \in SUBSET (Nat \X Callers)
    BY <1>2, <1>3, <1>5
  <1> HIDE DEF s, n
  <1>7. /\ r \in Processes /\ r.plugin = procs[p].plugin /\ r.whole = procs[p].whole
        /\ r.state = procs[p].state /\ r.loaded = procs[p].loaded /\ r.next = n /\ r.conns = s
    BY <1>2, <1>3, <1>6 DEF Processes
  <1> HIDE DEF r
  <1>8. /\ procs' \in Seq(Processes) /\ Len(procs') = Len(procs) /\ DOMAIN procs' = DOMAIN procs
        /\ procs'[p] = r /\ \A i \in DOMAIN procs \ {p} : procs'[i] = procs[i]
        /\ \A i \in DOMAIN procs : SameProcess(i)
    BY <1>1, <1>7, ProcessChanges
  <1> QED
    BY <1>1, <1>3, <1>5, <1>7, <1>8 DEF n

LEMMA CloseProcs ==
  ASSUME Typed, NEW c \in Callers, Close(c)
  PROVE  LET p == caller[c].proc
         IN  /\ procs' \in Seq(Processes) /\ Len(procs') = Len(procs) /\ DOMAIN procs' = DOMAIN procs
             /\ caller[c].pc = "open" /\ p \in DOMAIN procs
             /\ procs'[p].state = procs[p].state /\ procs'[p].loaded = procs[p].loaded
             /\ procs'[p].next = procs[p].next
             /\ procs'[p].conns = {k \in procs[p].conns : k[1] # caller[c].id}
             /\ \A i \in DOMAIN procs \ {p} : procs'[i] = procs[i]
             /\ \A i \in DOMAIN procs : SameProcess(i)
  <1> DEFINE p == caller[c].proc
             s == {k \in procs[p].conns : k[1] # caller[c].id}
             r == [procs[p] EXCEPT !.conns = s]
  <1>1. caller[c].pc = "open" /\ p \in DOMAIN procs
    BY DEF Close, At, Typed, Sound
  <1>2. procs' = [procs EXCEPT ![p] = r]
    BY <1>1 DEF Close, Typed
  <1>3. procs[p] \in Processes
    BY <1>1 DEF Typed
  <1>4. s \in SUBSET (Nat \X Callers)
    BY <1>3 DEF Processes
  <1> HIDE DEF s
  <1>5. /\ r \in Processes /\ r.plugin = procs[p].plugin /\ r.whole = procs[p].whole
        /\ r.state = procs[p].state /\ r.loaded = procs[p].loaded
        /\ r.next = procs[p].next /\ r.conns = s
    BY <1>3, <1>4 DEF Processes
  <1> HIDE DEF r
  <1>6. /\ procs' \in Seq(Processes) /\ Len(procs') = Len(procs) /\ DOMAIN procs' = DOMAIN procs
        /\ procs'[p] = r /\ \A i \in DOMAIN procs \ {p} : procs'[i] = procs[i]
        /\ \A i \in DOMAIN procs : SameProcess(i)
    BY <1>1, <1>2, <1>5, ProcessChanges
  <1> QED
    BY <1>1, <1>5, <1>6 DEF s

\* A process ends: it died, or Cleanup killed it.
LEMMA EndedProcess ==
  ASSUME NEW r \in Processes, NEW v \in {"killed", "died"}
  PROVE  LET e == [r EXCEPT !.state = v, !.conns = {}]
         IN  /\ e \in Processes /\ e.plugin = r.plugin /\ e.whole = r.whole /\ e.loaded = r.loaded
             /\ e.state = v /\ e.conns = {} /\ e.next = r.next
  BY DEF Processes

LEMMA DiesProcs ==
  ASSUME Typed, PluginDies
  PROVE  /\ procs' \in Seq(Processes) /\ Len(procs') = Len(procs) /\ DOMAIN procs' = DOMAIN procs
         /\ \A i \in DOMAIN procs : SameProcess(i)
         /\ \E p \in DOMAIN procs :
              /\ procs'[p].state = "died" /\ procs'[p].conns = {} /\ procs'[p].next = procs[p].next
              /\ procs'[p].loaded = procs[p].loaded
              /\ \A i \in DOMAIN procs \ {p} : procs'[i] = procs[i]
  <1>1. PICK p \in DOMAIN procs :
          procs' = [procs EXCEPT ![p].state = "died", ![p].conns = {}]
    BY DEF PluginDies
  <1> DEFINE r == [procs[p] EXCEPT !.state = "died", !.conns = {}]
  <1>2. procs[p] \in Processes
    BY DEF Typed
  <1>3. procs' = [procs EXCEPT ![p] = r]
    BY <1>1, <1>2 DEF Typed
  <1>4. /\ r \in Processes /\ r.plugin = procs[p].plugin /\ r.whole = procs[p].whole
        /\ r.loaded = procs[p].loaded /\ r.state = "died" /\ r.conns = {} /\ r.next = procs[p].next
    BY <1>2, EndedProcess
  <1> HIDE DEF r
  <1>5. /\ procs' \in Seq(Processes) /\ Len(procs') = Len(procs) /\ DOMAIN procs' = DOMAIN procs
        /\ procs'[p] = r /\ \A i \in DOMAIN procs \ {p} : procs'[i] = procs[i]
        /\ \A i \in DOMAIN procs : SameProcess(i)
    BY <1>3, <1>4, ProcessChanges
  <1> QED
    BY <1>4, <1>5

LEMMA CleanupProcs ==
  ASSUME Typed, Cleanup
  PROVE  /\ procs' \in Seq(Processes) /\ Len(procs') = Len(procs) /\ DOMAIN procs' = DOMAIN procs
         /\ \A i \in DOMAIN procs :
              /\ SameProcess(i) /\ procs'[i].next = procs[i].next
              /\ \/ procs'[i] = procs[i]
                 \/ procs'[i].state = "killed" /\ procs'[i].conns = {}
  <1> DEFINE G(p) == procs[p].state = "alive" /\ \E d \in Drivers : clients[d] = p
             K(p) == [procs[p] EXCEPT !.state = "killed", !.conns = {}]
  <1>1. procs' = [p \in DOMAIN procs |-> IF G(p) THEN K(p) ELSE procs[p]]
    BY DEF Cleanup
  <1>2. \A p \in DOMAIN procs : procs[p] \in Processes
    BY DEF Typed
  <1>3. \A p \in DOMAIN procs :
          /\ K(p) \in Processes /\ K(p).plugin = procs[p].plugin /\ K(p).whole = procs[p].whole
          /\ K(p).state = "killed" /\ K(p).conns = {} /\ K(p).next = procs[p].next
    BY <1>2, EndedProcess
  <1>4. DOMAIN procs = 1 .. Len(procs) /\ Len(procs) \in Nat
    BY DEF Typed
  <1> HIDE DEF G, K
  <1>5. /\ DOMAIN procs' = DOMAIN procs
        /\ \A p \in DOMAIN procs : procs'[p] = K(p) \/ procs'[p] = procs[p]
    BY <1>1
  <1>6. procs' \in Seq(Processes) /\ Len(procs') = Len(procs)
    BY <1>1, <1>2, <1>3, <1>4
  <1> QED
    BY <1>3, <1>5, <1>6 DEF SameProcess

LEMMA ProcessTyped ==
  ASSUME Typed, NEW c \in Callers, Start(c) \/ Store(c) \/ Register(c) \/ Connect(c) \/ Close(c)
  PROVE  Typed'
  <1>1. UNCHANGED <<installed, host, file, onceOf, onces>>
    BY DEF Start, Store, Register, Connect, Close, rpcUnchanged, loaderVars
  <1>2. SUFFICES /\ (registry \in [Drivers -> Infos])'
                 /\ (procs \in Seq(Processes))'
                 /\ (\A p \in DOMAIN procs : procs[p].conns \subseteq (1 .. procs[p].next) \X Callers)'
                 /\ DOMAIN procs \subseteq DOMAIN procs'
                 /\ (cache \in [Drivers -> 0 .. Len(procs)] /\ clients \in [Drivers -> 0 .. Len(procs)])'
                 /\ Moves(c) /\ Sound(caller[c])'
    <2>1. (caller \in [Callers -> Stacks])' /\ (\A k \in Callers : Sound(caller[k]))'
      BY <1>1, <1>2, MoveSound
    <2> QED
      BY <1>1, <1>2, <2>1 DEF Typed
  <1>3. Len(procs) \in Nat /\ DOMAIN procs = 1 .. Len(procs)
    BY DEF Typed
  <1>4. CASE Start(c)
    <2>1. /\ Moves(c) /\ Keeps(c) /\ caller[c].pc = "load" /\ caller'[c].pc = "validate"
          /\ caller'[c].proc = Len(procs) + 1 /\ caller[c].driver \in Drivers
          /\ NewProcess(c) \in Processes /\ procs' = Append(procs, NewProcess(c))
      BY <1>4, StartFacts
    <2>2. /\ procs' \in Seq(Processes) /\ Len(procs') = Len(procs) + 1
          /\ DOMAIN procs' = DOMAIN procs \cup {Len(procs) + 1}
          /\ procs'[Len(procs) + 1] = NewProcess(c)
          /\ \A p \in DOMAIN procs : procs'[p] = procs[p]
      BY <2>1, AppendToSeq DEF Typed
    <2>3. NewProcess(c).conns = {}
      BY DEF NewProcess
    <2>4. (\A p \in DOMAIN procs : procs[p].conns \subseteq (1 .. procs[p].next) \X Callers)'
      BY <2>2, <2>3 DEF Typed
    <2>5. UNCHANGED <<registry, cache, clients>>
      BY <1>4 DEF Start, loaderVars
    <2>6. (cache \in [Drivers -> 0 .. Len(procs)] /\ clients \in [Drivers -> 0 .. Len(procs)])'
      BY <1>3, <2>2, <2>5 DEF Typed
    <2>7. Sound(caller[c])'
      BY <2>1, <2>2 DEF Sound, Keeps, Typed
    <2> QED
      BY <2>1, <2>2, <2>4, <2>5, <2>6, <2>7 DEF Typed
  <1>5. CASE Store(c)
    <2>1. /\ procs' \in Seq(Processes) /\ Len(procs') = Len(procs) /\ DOMAIN procs' = DOMAIN procs
          /\ \A p \in DOMAIN procs : SameServer(p)
      BY <1>5, StoreProcs
    <2>2. (\A p \in DOMAIN procs : procs[p].conns \subseteq (1 .. procs[p].next) \X Callers)'
      BY <2>1 DEF Typed, SameServer
    <2>3. /\ Moves(c) /\ caller[c].pc = "validate"
          /\ caller[c].driver \in Drivers /\ caller[c].proc \in DOMAIN procs
          /\ cache' = [cache EXCEPT ![caller[c].driver] = caller[c].proc]
          /\ clients' = [clients EXCEPT ![caller[c].driver] = caller[c].proc]
      BY <1>5, StoreFacts
    <2>4. (cache \in [Drivers -> 0 .. Len(procs)] /\ clients \in [Drivers -> 0 .. Len(procs)])'
      BY <1>3, <2>1, <2>3 DEF Typed
    <2>5. \/ Keeps(c) /\ caller'[c].pc = "register" /\ caller'[c].proc = caller[c].proc
          \/ Gets(c, caller[c].proc)
      BY <1>5, StoreFacts
    <2>6. Sound(caller[c])'
      <3>1. CASE Keeps(c) /\ caller'[c].pc = "register" /\ caller'[c].proc = caller[c].proc
        BY <2>1, <2>3, <3>1 DEF Sound, Keeps, Typed
      <3>2. CASE Gets(c, caller[c].proc)
        BY <2>1, <2>3, <3>2, GetsSound
      <3> QED
        BY <2>5, <3>1, <3>2
    <2>7. registry' = registry
      BY <1>5 DEF Store
    <2> QED
      BY <2>1, <2>2, <2>3, <2>4, <2>6, <2>7 DEF Typed
  <1>6. CASE Register(c)
    <2>1. /\ caller[c].pc = "register" /\ Gets(c, caller[c].proc)
          /\ caller[c].driver \in Drivers /\ caller[c].proc \in DOMAIN procs
      BY <1>6, RegisterFacts
    <2>2. UNCHANGED <<cache, clients, procs>>
      BY <1>6 DEF Register
    <2>3. Moves(c) /\ Sound(caller[c])'
      BY <2>1, <2>2, GetsSound
    <2>4. [engines |-> SupportedEngines[caller[c].driver], path |-> "cache"] \in Infos
      BY <2>1, DriversAssumption DEF Infos
    <2>5. registry' \in [Drivers -> Infos]
      BY <1>6, <2>4 DEF Register, Typed
    <2> QED
      BY <2>2, <2>3, <2>5 DEF Typed
  <1>7. CASE Connect(c)
    <2> DEFINE p == caller[c].proc
               n == procs[p].next + 1
    <2>1. /\ procs' \in Seq(Processes) /\ Len(procs') = Len(procs) /\ DOMAIN procs' = DOMAIN procs
          /\ p \in DOMAIN procs /\ n \in Nat
          /\ procs'[p].next = n /\ procs'[p].conns = procs[p].conns \cup {<<n, c>>}
          /\ \A i \in DOMAIN procs \ {p} : procs'[i] = procs[i]
      BY <1>7, ConnectProcs
    <2>2. procs[p].next \in Nat
      <3>1. procs[p] \in Processes
        BY <2>1 DEF Typed
      <3> QED
        BY <3>1 DEF Processes
    <2>3. procs'[p].conns \subseteq (1 .. n) \X Callers
      <3>1. n \in 1 .. n /\ 1 .. procs[p].next \subseteq 1 .. n
        BY <2>2
      <3>2. procs[p].conns \subseteq (1 .. procs[p].next) \X Callers
        BY <2>1 DEF Typed
      <3> QED
        BY <2>1, <3>1, <3>2
    <2>4. (\A i \in DOMAIN procs : procs[i].conns \subseteq (1 .. procs[i].next) \X Callers)'
      BY <2>1, <2>3 DEF Typed
    <2>5. /\ Moves(c) /\ caller[c].pc = "connect" /\ caller'[c].pc = "open"
          /\ caller'[c].engine = caller[c].engine /\ caller'[c].proc = caller[c].proc
      BY <1>7, ConnectFacts
    <2>6. UNCHANGED <<registry, cache, clients>>
      BY <1>7 DEF Connect, rpcUnchanged, loaderVars
    <2>7. Sound(caller[c])'
      BY <2>1, <2>5 DEF Sound, Typed
    <2> QED
      BY <2>1, <2>4, <2>5, <2>6, <2>7 DEF Typed
  <1>8. CASE Close(c)
    <2>1. LET p == caller[c].proc
          IN  /\ procs' \in Seq(Processes) /\ Len(procs') = Len(procs) /\ DOMAIN procs' = DOMAIN procs
              /\ p \in DOMAIN procs
              /\ procs'[p].next = procs[p].next
              /\ procs'[p].conns = {k \in procs[p].conns : k[1] # caller[c].id}
              /\ \A i \in DOMAIN procs \ {p} : procs'[i] = procs[i]
      BY <1>8, CloseProcs
    <2>2. (\A i \in DOMAIN procs : procs[i].conns \subseteq (1 .. procs[i].next) \X Callers)'
      BY <2>1 DEF Typed
    <2>3. UNCHANGED <<registry, cache, clients>>
      BY <1>8 DEF Close, rpcUnchanged, loaderVars
    <2>4. Moves(c) /\ Sound(caller[c])'
      BY <1>8, EndFacts, LocalsSound
    <2> QED
      BY <2>1, <2>2, <2>3, <2>4 DEF Typed
  <1> QED
    BY <1>4, <1>5, <1>6, <1>7, <1>8

\* A process that ends, and a manager that stops or starts again.
LEMMA SystemTyped ==
  ASSUME Typed, PluginDies \/ Cleanup \/ Restart
  PROVE  Typed'
  <1>1. CASE PluginDies
    <2>1. /\ procs' \in Seq(Processes) /\ Len(procs') = Len(procs) /\ DOMAIN procs' = DOMAIN procs
          /\ \E p \in DOMAIN procs :
               /\ procs'[p].conns = {} /\ \A i \in DOMAIN procs \ {p} : procs'[i] = procs[i]
      BY <1>1, DiesProcs
    <2>2. (\A i \in DOMAIN procs : procs[i].conns \subseteq (1 .. procs[i].next) \X Callers)'
      BY <2>1 DEF Typed
    <2>3. UNCHANGED <<host, loaderVars, caller>>
      BY <1>1 DEF PluginDies
    <2>4. (\A c \in Callers : Sound(caller[c]))'
      BY <2>1, <2>3 DEF Sound, Typed, loaderVars
    <2> QED
      BY <2>1, <2>2, <2>3, <2>4 DEF Typed, loaderVars
  <1>2. CASE Cleanup
    <2>1. /\ procs' \in Seq(Processes) /\ Len(procs') = Len(procs) /\ DOMAIN procs' = DOMAIN procs
          /\ \A i \in DOMAIN procs : /\ procs'[i].next = procs[i].next
                                     /\ procs'[i] = procs[i] \/ procs'[i].conns = {}
      BY <1>2, CleanupProcs
    <2>2. (\A i \in DOMAIN procs : procs[i].conns \subseteq (1 .. procs[i].next) \X Callers)'
      BY <2>1 DEF Typed
    <2>3. /\ host' = "stopping" /\ cache' = [d \in Drivers |-> 0] /\ clients' = [d \in Drivers |-> 0]
          /\ UNCHANGED <<registry, file, onceOf, onces, caller>>
      BY <1>2 DEF Cleanup
    <2>4. (\A c \in Callers : Sound(caller[c]))'
      BY <2>1, <2>3 DEF Sound, Typed
    <2>5. Len(procs') \in Nat
      BY <2>1
    <2>6. (cache \in [Drivers -> 0 .. Len(procs)] /\ clients \in [Drivers -> 0 .. Len(procs)])'
      BY <2>3, <2>5
    <2> QED
      BY <2>1, <2>2, <2>3, <2>4, <2>6 DEF Typed
  <1>3. CASE Restart
    <2> USE <1>3 DEF Restart
    <2>1. (registry \in [Drivers -> Infos])'
      BY DriversAssumption DEF Discovered, Unknown, Infos
    <2>2. /\ procs' \in Seq(Processes) /\ Len(procs') = 0 /\ DOMAIN procs' = {}
          /\ onces' \in Seq(OnceStates) /\ Len(onces') = 0
      OBVIOUS
    <2>3. caller' \in [Callers -> Stacks] /\ \A c \in Callers : caller'[c] = Locals
      BY LocalsFacts
    <2>4. (\A c \in Callers : Sound(caller[c]))'
      BY <2>3, LocalsSound
    <2>5. /\ (onceOf \in [Drivers -> 0 .. Len(onces)])'
          /\ (cache \in [Drivers -> 0 .. Len(procs)] /\ clients \in [Drivers -> 0 .. Len(procs)])'
      BY <2>2
    <2> QED
      BY <2>1, <2>2, <2>3, <2>4, <2>5 DEF Typed
  <1> QED
    BY <1>1, <1>2, <1>3

LEMMA NextTyped == Typed /\ [Next]_vars => Typed'
  <1> SUFFICES ASSUME Typed, [Next]_vars PROVE Typed'
    OBVIOUS
  <1>1. CASE UNCHANGED vars
    BY <1>1 DEF Typed, Sound, vars, loaderVars
  <1>2. ASSUME NEW c \in Callers, Step(c) \/ \E e \in Engines : List(c, e) PROVE Typed'
    BY <1>2, QuietSteps, DownloadTyped, ProcessTyped DEF Step, LoaderStep
  <1>3. CASE PluginDies \/ Cleanup \/ Restart
    BY <1>3, SystemTyped
  <1> QED
    BY <1>1, <1>2, <1>3 DEF Next

LEMMA AlwaysTyped == Spec => []Typed
  BY InitTyped, NextTyped, PTL DEF Spec

\* No step leaves a variable outside its type: a Once, a process or a driver on
\* a caller's stack is always one there is, through every failure and restart.
THEOREM PluginTypeCorrect == Spec => []TypeOK
  <1>1. Typed => TypeOK
    <2> SUFFICES ASSUME Typed PROVE TypeOK
      OBVIOUS
    <2>1. \A p \in DOMAIN procs :
            procs[p].plugin \in Drivers /\ procs[p].state \in {"alive", "killed", "died"} /\ procs[p].next \in Nat
      <3>1. \A p \in DOMAIN procs : procs[p] \in Processes
        BY DEF Typed
      <3> QED
        BY <3>1 DEF Processes
    <2>2. \A c \in Callers : caller[c].todo \subseteq Drivers
      BY DEF Typed, Stacks
    <2> QED
      BY <2>1, <2>2 DEF Typed, TypeOK, Infos, OnceStates, Sound
  <1> QED
    BY <1>1, AlwaysTyped, PTL

-----------------------------------------------------------------------------
(* Downloads.                                                              *)

Downloading == {"copy", "write", "undo"}

\* The Once of a driver is that driver's alone.
OncesApart ==
  \A d, e \in Drivers : onceOf[d] # 0 /\ onceOf[d] = onceOf[e] => d = e

\* A caller inside once.Do holds its driver's current Once ...
DownloaderHasOnce ==
  \A c \in Callers :
    caller[c].pc \in Downloading =>
      /\ onceOf[caller[c].driver] = caller[c].once
      /\ onces[caller[c].once] = IF caller[c].pc = "undo" THEN "failed" ELSE "running"

\* ... and is alone in it.
OneDownloader ==
  \A c, k \in Callers :
    caller[c].pc \in Downloading /\ caller[k].pc \in Downloading /\ caller[c].once = caller[k].once
      => c = k

\* A Once that nobody has run yet is still its driver's.
NewIsCurrent ==
  \A c \in Callers :
    caller[c].pc = "do" /\ onces[caller[c].once] = "new" => onceOf[caller[c].driver] = caller[c].once

FailureIsUndone ==
  \A d \in Drivers :
    onceOf[d] # 0 /\ onces[onceOf[d]] = "failed" =>
      \E c \in Callers : caller[c].pc = "undo" /\ caller[c].once = onceOf[d]

\* A binary that can be started is whole, there is one exactly when the Once is
\* done, and a caller without a Once that will find none is about to make it.
ExecutableIsWhole == \A d \in Drivers : "exec" \in file[d] => "whole" \in file[d]

DoneIsExecutable ==
  \A d \in Drivers : onceOf[d] # 0 => (onces[onceOf[d]] = "done" <=> "exec" \in file[d])

DrawnWhenMissing ==
  \A c \in Callers :
    caller[c].pc = "once" /\ onceOf[caller[c].driver] = 0 => "exec" \notin file[caller[c].driver]

Downloads ==
  /\ OncesApart /\ DownloaderHasOnce /\ OneDownloader /\ NewIsCurrent /\ FailureIsUndone
  /\ ExecutableIsWhole /\ DoneIsExecutable /\ DrawnWhenMissing
  /\ OnlyWholeBinariesStart

\* Steps of callers that are not about a download, and of processes.
LEMMA DownloadsKept ==
  ASSUME Typed, Downloads, UNCHANGED <<file, onceOf, onces>>,
         \A k \in Callers :
           \/ caller'[k] = caller[k]
           \/ /\ caller[k].pc \notin Downloading
              /\ caller'[k].pc \notin {"once", "do", "copy", "write", "undo"},
         OnlyWholeBinariesStart'
  PROVE  Downloads'
  <1>1. OncesApart' /\ ExecutableIsWhole' /\ DoneIsExecutable'
    BY DEF Downloads, OncesApart, ExecutableIsWhole, DoneIsExecutable
  <1>2. DownloaderHasOnce'
    BY DEF Downloads, DownloaderHasOnce, Downloading
  <1>3. OneDownloader'
    BY DEF Downloads, OneDownloader, Downloading
  <1>4. NewIsCurrent' /\ DrawnWhenMissing'
    BY DEF Downloads, NewIsCurrent, DrawnWhenMissing
  <1>5. FailureIsUndone'
    BY DEF Downloads, FailureIsUndone, Downloading
  <1> QED
    BY <1>1, <1>2, <1>3, <1>4, <1>5 DEF Downloads

\* Processes keep the binary they were started from.
LEMMA WholeKept ==
  ASSUME OnlyWholeBinariesStart, DOMAIN procs' = DOMAIN procs, \A p \in DOMAIN procs : SameProcess(p)
  PROVE  OnlyWholeBinariesStart'
  BY DEF OnlyWholeBinariesStart, SameProcess

LEMMA InitDownloads == Init => Downloads
  <1> SUFFICES ASSUME Init PROVE Downloads
    OBVIOUS
  <1>1. \A d \in Drivers : onceOf[d] = 0 /\ file[d] = {}
    BY DEF Init, LoaderInit
  <1>2. \A c \in Callers : caller[c].pc = "idle"
    BY LocalsFacts DEF Init, LoaderInit
  <1>3. DOMAIN procs = {}
    BY DEF Init, LoaderInit
  <1> QED
    BY <1>1, <1>2, <1>3
    DEF Downloads, OncesApart, DownloaderHasOnce, OneDownloader, NewIsCurrent, FailureIsUndone,
        ExecutableIsWhole, DoneIsExecutable, DrawnWhenMissing, OnlyWholeBinariesStart, Downloading

LEMMA NoneRegisteredDownloads ==
  ASSUME Typed, Downloads, NEW c \in Callers, NoneRegistered(c)
  PROVE  Downloads'
  <1>1. /\ Moves(c) /\ caller[c].pc = "search"
        /\ caller'[c].pc = IF "exec" \in file[caller'[c].driver] THEN "load" ELSE "once"
    BY NoneRegisteredFacts DEF IsPluginCached
  <1>2. UNCHANGED <<file, onceOf, onces, procs>>
    BY DEF NoneRegistered, loaderVars
  <1>3. \A k \in Callers \ {c} : caller'[k] = caller[k]
    BY <1>1 DEF Moves
  <1>4. caller'[c].pc \notin {"do", "copy", "write", "undo"}
    BY <1>1
  <1>5. OncesApart' /\ ExecutableIsWhole' /\ DoneIsExecutable'
    BY <1>2 DEF Downloads, OncesApart, ExecutableIsWhole, DoneIsExecutable
  <1>6. DownloaderHasOnce' /\ NewIsCurrent'
    BY <1>2, <1>3, <1>4 DEF Downloads, DownloaderHasOnce, NewIsCurrent, Downloading
  <1>7. OneDownloader'
    BY <1>3, <1>4 DEF Downloads, OneDownloader, Downloading
  <1>8. FailureIsUndone'
    BY <1>1, <1>2, <1>3 DEF Downloads, FailureIsUndone
  <1>9. DrawnWhenMissing'
    BY <1>1, <1>2, <1>3 DEF Downloads, DrawnWhenMissing
  <1> QED
    BY <1>2, <1>5, <1>6, <1>7, <1>8, <1>9 DEF Downloads, OnlyWholeBinariesStart

LEMMA GetOnceDownloads ==
  ASSUME Typed, Downloads, NEW c \in Callers, GetOnce(c)
  PROVE  Downloads'
  <1> DEFINE d == caller[c].driver
             n == caller'[c].once
  <1>1. /\ Moves(c) /\ Keeps(c) /\ caller[c].pc = "once" /\ caller'[c].pc = "do" /\ d \in Drivers
        /\ onceOf' = [onceOf EXCEPT ![d] = n] /\ n \in Nat /\ n # 0
        /\ \/ onceOf[d] = 0 /\ n = Len(onces) + 1 /\ onces' = Append(onces, "new")
           \/ onceOf[d] # 0 /\ n = onceOf[d] /\ onces' = onces
    BY GetOnceFacts
  <1>2. UNCHANGED <<file, procs>>
    BY DEF GetOnce
  <1>3. \A k \in Callers \ {c} : caller'[k] = caller[k]
    BY <1>1 DEF Moves
  <1>4. caller'[c].driver = d
    BY <1>1 DEF Keeps
  <1>5. onceOf \in [Drivers -> 0 .. Len(onces)] /\ Len(onces) \in Nat /\ DOMAIN onces = 1 .. Len(onces)
    BY DEF Typed
  <1>6. /\ onceOf'[d] = n /\ \A e \in Drivers \ {d} : onceOf'[e] = onceOf[e]
        /\ \A i \in DOMAIN onces : onces'[i] = onces[i]
        /\ \/ onceOf[d] = 0 /\ n \notin DOMAIN onces /\ onces'[n] = "new"
           \/ onceOf[d] = n /\ n \in DOMAIN onces
    <2>1. CASE onceOf[d] = 0 /\ n = Len(onces) + 1 /\ onces' = Append(onces, "new")
      <3>1. onces \in Seq(OnceStates) /\ "new" \in OnceStates
        BY DEF Typed, OnceStates
      <3> QED
        BY <1>1, <1>5, <2>1, <3>1, AppendToSeq
    <2>2. CASE onceOf[d] # 0 /\ n = onceOf[d] /\ onces' = onces
      <3>1. onceOf[d] \in 1 .. Len(onces)
        <4> DEFINE m == onceOf[d]
        <4>1. m \in 0 .. Len(onces) /\ m # 0
          BY <1>1, <1>5, <2>2
        <4> HIDE DEF m
        <4>2. m \in 1 .. Len(onces)
          BY <1>5, <4>1
        <4> QED
          BY <4>2 DEF m
      <3>2. onceOf'[d] = n /\ \A e \in Drivers \ {d} : onceOf'[e] = onceOf[e]
        BY <1>1, <1>5
      <3> QED
        BY <1>5, <2>2, <3>1, <3>2
    <2> QED
      BY <1>1, <2>1, <2>2
  <1>7. \A e \in Drivers : onceOf[e] # 0 => onceOf[e] \in DOMAIN onces
    BY <1>5
  <1>8. \A k \in Callers : caller[k].pc \in {"do", "copy", "write", "undo"} => caller[k].once \in DOMAIN onces
    BY DEF Typed, Sound
  <1>9. \A k \in Callers : caller[k].pc \in {"do", "copy", "write", "undo"} =>
            caller[k].once # 0 /\ caller[k].driver \in Drivers
    <2>1. \A k \in Callers : caller[k].pc \in {"do", "copy", "write", "undo"} => caller[k].driver \in Drivers
      BY DEF Typed, Sound
    <2>2. 0 \notin DOMAIN onces
      BY <1>5
    <2> QED
      BY <1>8, <2>1, <2>2
  <1> HIDE DEF d, n
  <1>10. OncesApart'
    BY <1>1, <1>6, <1>7 DEF Downloads, OncesApart
  <1>11. DownloaderHasOnce'
    BY <1>1, <1>3, <1>6, <1>8, <1>9 DEF Downloads, DownloaderHasOnce, Downloading
  <1>12. OneDownloader'
    BY <1>1, <1>3 DEF Downloads, OneDownloader, Downloading
  <1>13. NewIsCurrent'
    BY <1>1, <1>3, <1>4, <1>6, <1>8, <1>9 DEF Downloads, NewIsCurrent, n
  <1>14. FailureIsUndone'
    BY <1>1, <1>3, <1>6, <1>7 DEF Downloads, FailureIsUndone
  <1>15. ExecutableIsWhole'
    BY <1>2 DEF Downloads, ExecutableIsWhole
  <1>16. DoneIsExecutable'
    <2>1. onceOf[d] = 0 => "exec" \notin file[d]
      BY <1>1 DEF Downloads, DrawnWhenMissing, d
    <2> QED
      BY <1>1, <1>2, <1>6, <1>7, <2>1 DEF Downloads, DoneIsExecutable
  <1>17. DrawnWhenMissing'
    <2>1. \A k \in Callers : caller[k].pc = "once" => caller[k].driver \in Drivers
      BY DEF Typed, Sound
    <2> QED
      BY <1>1, <1>2, <1>3, <1>6, <2>1 DEF Downloads, DrawnWhenMissing
  <1> QED
    BY <1>2, <1>10, <1>11, <1>12, <1>13, <1>14, <1>15, <1>16, <1>17 DEF Downloads, OnlyWholeBinariesStart

\* The Once of the downloader c changes its state; where c goes from there.
LEMMA DownloaderAlone ==
  ASSUME Typed, Downloads, NEW c \in Callers, caller[c].pc \in Downloading
  PROVE  LET d == caller[c].driver
             n == caller[c].once
         IN  /\ d \in Drivers /\ n \in DOMAIN onces /\ n # 0 /\ onceOf[d] = n
             /\ "exec" \notin file[d]
             /\ \A e \in Drivers \ {d} : onceOf[e] # n
             /\ \A k \in Callers \ {c} :
                  /\ caller[k].pc \in Downloading => caller[k].once # n /\ caller[k].driver # d
                  /\ caller[k].pc = "do" /\ onces[caller[k].once] = "new" => caller[k].driver # d
  <1> DEFINE d == caller[c].driver
             n == caller[c].once
  <1>1. d \in Drivers /\ n \in DOMAIN onces
    BY DEF Typed, Sound, Downloading
  <1>2. 0 \notin DOMAIN onces
    BY DEF Typed
  <1>3. onceOf[d] = n /\ onces[n] \in {"failed", "running"}
    BY DEF Downloads, DownloaderHasOnce
  <1>4. \A e \in Drivers \ {d} : onceOf[e] # n
    BY <1>1, <1>2, <1>3 DEF Downloads, OncesApart
  <1>5. "exec" \notin file[d]
    BY <1>1, <1>2, <1>3 DEF Downloads, DoneIsExecutable
  <1>6. \A k \in Callers \ {c} : caller[k].pc \in Downloading => caller[k].once # n
    BY DEF Downloads, OneDownloader
  <1>7. \A k \in Callers \ {c} : caller[k].pc \in Downloading => caller[k].driver # d
    BY <1>3, <1>6 DEF Downloads, DownloaderHasOnce
  <1>8. \A k \in Callers \ {c} :
           caller[k].pc = "do" /\ onces[caller[k].once] = "new" => caller[k].driver # d
    BY <1>3 DEF Downloads, NewIsCurrent
  <1> QED
    BY <1>1, <1>2, <1>3, <1>4, <1>5, <1>6, <1>7, <1>8

LEMMA DoDownloads ==
  ASSUME Typed, Downloads, NEW c \in Callers, Do(c)
  PROVE  Downloads'
  <1> DEFINE d == caller[c].driver
             n == caller[c].once
  <1>1. Moves(c) /\ Keeps(c) /\ caller[c].pc = "do" /\ UNCHANGED <<file, onceOf, procs>>
    BY DoFacts DEF Do
  <1>2. CASE onces' = onces /\ caller'[c].pc = "load"
    BY <1>1, <1>2, DownloadsKept, WholeKept DEF Moves, Downloading, Downloads, OnlyWholeBinariesStart
  <1>3. CASE /\ onces[n] = "new" /\ onces' = [onces EXCEPT ![n] = "running"]
             /\ caller'[c].pc = "copy" /\ caller'[c].once = n
    <2>1. n \in DOMAIN onces /\ d \in Drivers /\ caller'[c].driver = d
      BY <1>1 DEF Typed, Sound, Keeps
    <2>2. onceOf[d] = n /\ 0 \notin DOMAIN onces
      BY <1>1, <1>3 DEF Downloads, NewIsCurrent, Typed
    <2>3. onces'[n] = "running" /\ \A i \in DOMAIN onces \ {n} : onces'[i] = onces[i]
      BY <1>3, <2>1 DEF Typed
    <2>4. \A k \in Callers \ {c} : caller'[k] = caller[k]
      BY <1>1 DEF Moves
    <2>5. \A e \in Drivers : onceOf[e] # 0 => onceOf[e] \in DOMAIN onces
      BY DEF Typed
    <2>6. \A k \in Callers : caller[k].pc \in {"do", "copy", "write", "undo"} => caller[k].once \in DOMAIN onces
      BY DEF Typed, Sound
    <2>7. \A k \in Callers : caller[k].pc \in Downloading => caller[k].once # n
      BY <1>3 DEF Downloads, DownloaderHasOnce
    <2> HIDE DEF d, n
    <2>8. OncesApart' /\ ExecutableIsWhole' /\ DrawnWhenMissing'
      BY <1>1, <1>3, <2>4 DEF Downloads, OncesApart, ExecutableIsWhole, DrawnWhenMissing
    <2>9. DownloaderHasOnce'
      BY <1>1, <1>3, <2>1, <2>2, <2>3, <2>4, <2>6, <2>7 DEF Downloads, DownloaderHasOnce, Downloading
    <2>10. OneDownloader'
      BY <1>3, <2>4, <2>7 DEF Downloads, OneDownloader
    <2>11. NewIsCurrent'
      BY <1>1, <1>3, <2>3, <2>4, <2>6 DEF Downloads, NewIsCurrent
    <2>12. FailureIsUndone'
      BY <1>1, <1>3, <2>3, <2>4, <2>5 DEF Downloads, FailureIsUndone
    <2>13. DoneIsExecutable'
      BY <1>1, <1>3, <2>1, <2>3, <2>5 DEF Downloads, DoneIsExecutable
    <2> QED
      BY <1>1, <2>8, <2>9, <2>10, <2>11, <2>12, <2>13 DEF Downloads, OnlyWholeBinariesStart
  <1> QED
    BY <1>2, <1>3, DoFacts

LEMMA BinaryDownloads ==
  ASSUME Typed, Downloads, NEW c \in Callers, CreateBinary(c) \/ FinishBinary(c) \/ DownloadFails(c)
  PROVE  Downloads'
  <1> DEFINE d == caller[c].driver
             n == caller[c].once
  <1>1. /\ Moves(c) /\ Keeps(c) /\ caller[c].pc \in {"copy", "write"}
        /\ \/ /\ caller'[c].pc = "write" /\ caller'[c].once = n
              /\ file' = [file EXCEPT ![d] = (@ \ {"whole"}) \cup {"there"}]
              /\ onces' = onces
           \/ /\ caller'[c].pc = "load"
              /\ file' = [file EXCEPT ![d] = @ \cup {"whole", "exec"}]
              /\ onces' = [onces EXCEPT ![n] = "done"]
           \/ /\ caller'[c].pc = "undo" /\ caller'[c].once = n
              /\ file' = file
              /\ onces' = [onces EXCEPT ![n] = "failed"]
    <2>1. CASE CreateBinary(c)
      BY <2>1, CreateBinaryFacts DEF CreateBinary
    <2>2. CASE FinishBinary(c)
      BY <2>2, FinishBinaryFacts
    <2>3. CASE DownloadFails(c)
      BY <2>3, DownloadFailsFacts DEF DownloadFails
    <2> QED
      BY <2>1, <2>2, <2>3
  <1>2. UNCHANGED <<onceOf, procs>>
    BY DEF CreateBinary, FinishBinary, DownloadFails
  <1>3. caller[c].pc \in Downloading /\ caller[c].pc # "undo"
    BY <1>1 DEF Downloading
  <1>4. /\ d \in Drivers /\ n \in DOMAIN onces /\ n # 0 /\ onceOf[d] = n
        /\ "exec" \notin file[d]
        /\ \A e \in Drivers \ {d} : onceOf[e] # n
        /\ \A k \in Callers \ {c} :
              /\ caller[k].pc \in Downloading => caller[k].once # n /\ caller[k].driver # d
              /\ caller[k].pc = "do" /\ onces[caller[k].once] = "new" => caller[k].driver # d
    BY <1>3, DownloaderAlone
  <1>5. onces[n] = "running"
    BY <1>3 DEF Downloads, DownloaderHasOnce
  <1>6. \A k \in Callers \ {c} : caller'[k] = caller[k]
    BY <1>1 DEF Moves
  <1>7. caller'[c].driver = d
    BY <1>1 DEF Keeps
  <1>8. \A i \in DOMAIN onces \ {n} : onces'[i] = onces[i]
    BY <1>1, <1>4 DEF Typed
  <1>9. onces'[n] = CASE caller'[c].pc = "write" -> "running"
                      [] caller'[c].pc = "load" -> "done"
                      [] caller'[c].pc = "undo" -> "failed"
    BY <1>1, <1>4, <1>5 DEF Typed
  <1>10. /\ \A e \in Drivers \ {d} : file'[e] = file[e]
         /\ "exec" \in file'[d] <=> caller'[c].pc = "load"
         /\ "exec" \in file'[d] => "whole" \in file'[d]
    BY <1>1, <1>4 DEF Typed
  <1>11. \A e \in Drivers : onceOf[e] # 0 => onceOf[e] \in DOMAIN onces
    BY DEF Typed
  <1>12. \A k \in Callers : caller[k].pc \in {"do", "copy", "write", "undo"} => caller[k].once \in DOMAIN onces
    BY DEF Typed, Sound
  <1>13. \A k \in Callers : caller[k].pc = "once" => caller[k].driver \in Drivers
    BY DEF Typed, Sound
  <1>14. caller'[c].pc \in {"write", "load", "undo"}
         /\ (caller'[c].pc # "load" => caller'[c].once = n)
    BY <1>1
  <1> HIDE DEF d, n
  <1>15. OncesApart'
    BY <1>2 DEF Downloads, OncesApart
  <1>16. DownloaderHasOnce'
    BY <1>2, <1>4, <1>6, <1>7, <1>8, <1>9, <1>12, <1>14 DEF Downloads, DownloaderHasOnce, Downloading
  <1>17. OneDownloader'
    BY <1>4, <1>6, <1>14 DEF Downloads, OneDownloader, Downloading
  <1>18. NewIsCurrent'
    BY <1>2, <1>6, <1>8, <1>9, <1>12, <1>14 DEF Downloads, NewIsCurrent
  <1>19. FailureIsUndone'
    BY <1>2, <1>3, <1>4, <1>6, <1>8, <1>9, <1>11, <1>14 DEF Downloads, FailureIsUndone
  <1>20. ExecutableIsWhole'
    BY <1>4, <1>10 DEF Downloads, ExecutableIsWhole
  <1>21. DoneIsExecutable'
    BY <1>2, <1>4, <1>8, <1>9, <1>10, <1>11, <1>14 DEF Downloads, DoneIsExecutable
  <1>22. DrawnWhenMissing'
    BY <1>2, <1>4, <1>6, <1>10, <1>13, <1>14 DEF Downloads, DrawnWhenMissing
  <1> QED
    BY <1>2, <1>15, <1>16, <1>17, <1>18, <1>19, <1>20, <1>21, <1>22 DEF Downloads, OnlyWholeBinariesStart

LEMMA ForgetOnceDownloads ==
  ASSUME Typed, Downloads, NEW c \in Callers, ForgetOnce(c)
  PROVE  Downloads'
  <1> DEFINE d == caller[c].driver
             n == caller[c].once
  <1>1. Moves(c) /\ caller'[c].pc = "idle" /\ caller[c].pc = "undo"
    BY EndFacts, LocalsFacts DEF ForgetOnce, At
  <1>2. onceOf' = [onceOf EXCEPT ![d] = 0] /\ UNCHANGED <<file, onces, procs>>
    BY DEF ForgetOnce
  <1>3. /\ d \in Drivers /\ "exec" \notin file[d]
        /\ \A e \in Drivers \ {d} : onceOf[e] # n
        /\ \A k \in Callers \ {c} :
              /\ caller[k].pc \in Downloading => caller[k].once # n /\ caller[k].driver # d
              /\ caller[k].pc = "do" /\ onces[caller[k].once] = "new" => caller[k].driver # d
    BY <1>1, DownloaderAlone DEF Downloading
  <1>4. \A k \in Callers \ {c} : caller'[k] = caller[k]
    BY <1>1 DEF Moves
  <1>5. onceOf'[d] = 0 /\ \A e \in Drivers \ {d} : onceOf'[e] = onceOf[e]
    BY <1>2, <1>3 DEF Typed
  <1>6. \A k \in Callers :
          caller[k].pc \in {"once", "do", "copy", "write", "undo"} => caller[k].driver \in Drivers
    BY DEF Typed, Sound
  <1> HIDE DEF d, n
  <1>7. OncesApart' /\ ExecutableIsWhole' /\ DoneIsExecutable'
    BY <1>2, <1>3, <1>5 DEF Downloads, OncesApart, ExecutableIsWhole, DoneIsExecutable
  <1>8. DownloaderHasOnce'
    BY <1>1, <1>2, <1>3, <1>4, <1>5, <1>6 DEF Downloads, DownloaderHasOnce, Downloading
  <1>9. OneDownloader'
    BY <1>1, <1>4 DEF Downloads, OneDownloader, Downloading
  <1>10. NewIsCurrent'
    BY <1>1, <1>2, <1>3, <1>4, <1>5, <1>6 DEF Downloads, NewIsCurrent
  <1>11. FailureIsUndone'
    BY <1>1, <1>2, <1>3, <1>4, <1>5 DEF Downloads, FailureIsUndone, n
  <1>12. DrawnWhenMissing'
    BY <1>1, <1>2, <1>3, <1>4, <1>5, <1>6 DEF Downloads, DrawnWhenMissing
  <1> QED
    BY <1>2, <1>7, <1>8, <1>9, <1>10, <1>11, <1>12 DEF Downloads, OnlyWholeBinariesStart

\* A caller that asks for a plugin, loads one or uses one leaves the download
\* alone, and does not go to it.
OutsideDownloads(c) ==
  /\ Moves(c) /\ UNCHANGED <<file, onceOf, onces>>
  /\ caller[c].pc \notin {"once", "do", "copy", "write", "undo"}
  /\ caller'[c].pc \notin {"once", "do", "copy", "write", "undo"}

LEMMA SearchOutside ==
  ASSUME Typed, NEW c \in Callers,
         \/ \E e \in Engines : List(c, e)
         \/ UseCached(c) \/ LoadFromInfo(c) \/ StartRefused(c) \/ ValidateFails(c)
         \/ ConnectFails(c) \/ Plan(c) \/ GenerateFixtures(c)
  PROVE  OutsideDownloads(c) /\ UNCHANGED procs
  <1>1. ASSUME NEW e \in Engines, List(c, e) PROVE OutsideDownloads(c) /\ UNCHANGED procs
    <2>1. UNCHANGED <<file, onceOf, onces, procs>>
      BY <1>1 DEF List, loaderVars
    <2> QED
      BY <1>1, <2>1, ListFacts DEF OutsideDownloads
  <1>2. CASE UseCached(c)
    <2>1. UNCHANGED <<file, onceOf, onces, procs>>
      BY <1>2 DEF UseCached, loaderVars
    <2> QED
      BY <1>2, <2>1, UseCachedFacts DEF OutsideDownloads, Gets
  <1>3. CASE LoadFromInfo(c)
    <2>1. UNCHANGED <<file, onceOf, onces, procs>>
      BY <1>3 DEF LoadFromInfo, loaderVars
    <2> QED
      BY <1>3, <2>1, LoadFromInfoFacts DEF OutsideDownloads
  <1>4. CASE StartRefused(c) \/ ValidateFails(c)
    <2>1. /\ UNCHANGED <<file, onceOf, onces, procs>> /\ LoadError(c)
          /\ caller[c].pc \in {"load", "validate"}
      BY <1>4 DEF StartRefused, ValidateFails, At, loaderVars
    <2>2. Fails(c)
      BY <2>1, LoadErrorFacts
    <2> QED
      BY <2>1, <2>2, LocalsFacts DEF OutsideDownloads, Fails
  <1>5. CASE ConnectFails(c)
    <2>1. UNCHANGED <<file, onceOf, onces, procs>> /\ caller[c].pc = "connect"
      BY <1>5 DEF ConnectFails, rpcUnchanged, loaderVars, At
    <2> QED
      BY <1>5, <2>1, EndFacts, LocalsFacts DEF OutsideDownloads
  <1>6. CASE Plan(c) \/ GenerateFixtures(c)
    <2>1. UNCHANGED <<file, onceOf, onces, procs>>
      BY <1>6 DEF Plan, GenerateFixtures, rpcUnchanged, loaderVars
    <2>2. Calls(c)
      BY <1>6, PlanFacts, GenerateFixturesFacts
    <2> QED
      BY <2>1, <2>2 DEF OutsideDownloads, Calls
  <1> QED
    BY <1>1, <1>2, <1>3, <1>4, <1>5, <1>6

LEMMA ProcessOutside ==
  ASSUME Typed, NEW c \in Callers, Start(c) \/ Store(c) \/ Register(c) \/ Connect(c) \/ Close(c)
  PROVE  OutsideDownloads(c)
  <1>1. UNCHANGED <<file, onceOf, onces>>
    BY DEF Start, Store, Register, Connect, Close, rpcUnchanged, loaderVars
  <1>2. CASE Start(c)
    BY <1>1, <1>2, StartFacts DEF OutsideDownloads
  <1>3. CASE Store(c)
    BY <1>1, <1>3, StoreFacts DEF OutsideDownloads, Gets
  <1>4. CASE Register(c)
    BY <1>1, <1>4, RegisterFacts DEF OutsideDownloads, Gets
  <1>5. CASE Connect(c)
    BY <1>1, <1>5, ConnectFacts DEF OutsideDownloads
  <1>6. CASE Close(c)
    <2>1. caller[c].pc = "open"
      BY <1>6 DEF Close, At
    <2> QED
      BY <1>1, <1>6, <2>1, EndFacts, LocalsFacts DEF OutsideDownloads
  <1> QED
    BY <1>2, <1>3, <1>4, <1>5, <1>6

LEMMA OutsideDownloadsKept ==
  ASSUME Typed, Downloads, NEW c \in Callers, OutsideDownloads(c), OnlyWholeBinariesStart'
  PROVE  Downloads'
  BY DownloadsKept DEF OutsideDownloads, Moves, Downloading

\* The image's binaries are whole; one of the cache directory is started when
\* it is executable.
LEMMA StartWhole ==
  ASSUME Typed, Downloads, NEW c \in Callers, Start(c)
  PROVE  OnlyWholeBinariesStart'
  <1>1. /\ caller[c].driver \in Drivers /\ NewProcess(c) \in Processes
        /\ procs' = Append(procs, NewProcess(c))
    BY StartFacts
  <1>2. caller[c].path = "image" \/ "whole" \in file[caller[c].driver]
    BY <1>1 DEF Start, Startable, IsPluginCached, Downloads, ExecutableIsWhole
  <1>3. NewProcess(c).whole
    BY <1>2 DEF NewProcess
  <1>4. /\ DOMAIN procs' = DOMAIN procs \cup {Len(procs) + 1}
        /\ procs'[Len(procs) + 1] = NewProcess(c)
        /\ \A p \in DOMAIN procs : procs'[p] = procs[p]
    BY <1>1, AppendToSeq DEF Typed
  <1> QED
    BY <1>3, <1>4 DEF Downloads, OnlyWholeBinariesStart

LEMMA NextDownloads == Typed /\ Downloads /\ [Next]_vars => Downloads'
  <1> SUFFICES ASSUME Typed, Downloads, [Next]_vars PROVE Downloads'
    OBVIOUS
  <1>1. CASE UNCHANGED vars
    BY <1>1, DownloadsKept DEF vars, loaderVars, Downloads, OnlyWholeBinariesStart
  <1>2. ASSUME NEW c \in Callers, Step(c) \/ \E e \in Engines : List(c, e) PROVE Downloads'
    <2>1. CASE \/ \E e \in Engines : List(c, e)
               \/ UseCached(c) \/ LoadFromInfo(c) \/ StartRefused(c) \/ ValidateFails(c)
               \/ ConnectFails(c) \/ Plan(c) \/ GenerateFixtures(c)
      <3>1. OutsideDownloads(c) /\ UNCHANGED procs
        BY <2>1, SearchOutside
      <3>2. OnlyWholeBinariesStart'
        BY <3>1 DEF Downloads, OnlyWholeBinariesStart
      <3> QED
        BY <3>1, <3>2, OutsideDownloadsKept
    <2>2. CASE Start(c)
      BY <2>2, StartWhole, ProcessOutside, OutsideDownloadsKept
    <2>3. CASE Store(c) \/ Register(c) \/ Connect(c) \/ Close(c)
      <3>1. OnlyWholeBinariesStart'
        <4>1. CASE Store(c) \/ Connect(c) \/ Close(c)
          <5>1. DOMAIN procs' = DOMAIN procs /\ \A p \in DOMAIN procs : SameProcess(p)
            BY <4>1, StoreProcs, ConnectProcs, CloseProcs
          <5> QED
            BY <5>1, WholeKept DEF Downloads
        <4>2. CASE Register(c)
          BY <4>2 DEF Register, Downloads, OnlyWholeBinariesStart
        <4> QED
          BY <2>3, <4>1, <4>2
      <3> QED
        BY <2>3, <3>1, ProcessOutside, OutsideDownloadsKept
    <2>4. CASE NoneRegistered(c)
      BY <2>4, NoneRegisteredDownloads
    <2>5. CASE GetOnce(c)
      BY <2>5, GetOnceDownloads
    <2>6. CASE Do(c)
      BY <2>6, DoDownloads
    <2>7. CASE CreateBinary(c) \/ FinishBinary(c) \/ DownloadFails(c)
      BY <2>7, BinaryDownloads
    <2>8. CASE ForgetOnce(c)
      BY <2>8, ForgetOnceDownloads
    <2> QED
      BY <1>2, <2>1, <2>2, <2>3, <2>4, <2>5, <2>6, <2>7, <2>8 DEF Step, LoaderStep
  <1>3. CASE PluginDies
    <2>1. DOMAIN procs' = DOMAIN procs /\ \A p \in DOMAIN procs : SameProcess(p)
      BY <1>3, DiesProcs
    <2>2. UNCHANGED <<file, onceOf, onces, caller>>
      BY <1>3 DEF PluginDies, loaderVars
    <2> QED
      BY <2>1, <2>2, WholeKept, DownloadsKept DEF Downloads
  <1>4. CASE Cleanup
    <2>1. DOMAIN procs' = DOMAIN procs /\ \A p \in DOMAIN procs : SameProcess(p)
      BY <1>4, CleanupProcs
    <2>2. UNCHANGED <<file, onceOf, onces, caller>>
      BY <1>4 DEF Cleanup
    <2> QED
      BY <2>1, <2>2, WholeKept, DownloadsKept DEF Downloads
  <1>5. CASE Restart
    <2>1. \A d \in Drivers : onceOf'[d] = 0
      BY <1>5 DEF Restart
    <2>2. \A c \in Callers : caller'[c].pc = "idle"
      BY <1>5, LocalsFacts DEF Restart
    <2>3. DOMAIN procs' = {} /\ file' = file
      BY <1>5 DEF Restart
    <2>4. OncesApart' /\ FailureIsUndone' /\ DoneIsExecutable'
      BY <2>1 DEF OncesApart, FailureIsUndone, DoneIsExecutable
    <2>5. DownloaderHasOnce' /\ OneDownloader' /\ NewIsCurrent' /\ DrawnWhenMissing'
      BY <2>2 DEF DownloaderHasOnce, OneDownloader, NewIsCurrent, DrawnWhenMissing, Downloading
    <2>6. ExecutableIsWhole' /\ OnlyWholeBinariesStart'
      BY <2>3 DEF Downloads, ExecutableIsWhole, OnlyWholeBinariesStart
    <2> QED
      BY <2>4, <2>5, <2>6 DEF Downloads
  <1> QED
    BY <1>1, <1>2, <1>3, <1>4, <1>5 DEF Next

LEMMA AlwaysDownloads == Spec => []Downloads
  BY InitDownloads, NextDownloads, AlwaysTyped, PTL DEF Spec

\* Extraction writes the binary at the path it is started from, and other
\* callers look at that path all the while: none of them, nor a manager that
\* was killed in between and starts again, ever starts half a binary.
THEOREM PluginsStartWhole == Spec => []OnlyWholeBinariesStart
  <1>1. Downloads => OnlyWholeBinariesStart
    BY DEF Downloads
  <1> QED
    BY <1>1, AlwaysDownloads, PTL

\* A download that failed does not keep its driver from being downloaded: the
\* caller that ran it is still there to drop its Once; and a Once that is done
\* has left the binary the callers that waited for it go on to start.
THEOREM OncesTellTheTruth == Spec => []OnceTellsTheTruth
  <1>1. Downloads => OnceTellsTheTruth
    BY DEF Downloads, FailureIsUndone, DoneIsExecutable, OnceTellsTheTruth, At, IsPluginCached
  <1> QED
    BY <1>1, AlwaysDownloads, PTL

-----------------------------------------------------------------------------
(* Connections.                                                            *)

\* Ids of one process are drawn under its mutex: no two callers have the same.
IdsApart ==
  \A c, k \in Callers :
    /\ caller[c].pc = "open" /\ caller[k].pc = "open"
    /\ caller[c].proc = caller[k].proc /\ caller[c].id = caller[k].id
    /\ procs[caller[c].proc].state = "alive"
    => c = k

Connections == ConnectionsAreTheCallers /\ IdsApart

\* Caller k has the connection it had, or none before and after.
SameConnection(k) ==
  \/ caller[k].pc # "open" /\ caller'[k].pc # "open"
  \/ /\ caller[k].pc = "open" /\ caller'[k].pc = "open"
     /\ caller'[k].proc = caller[k].proc /\ caller'[k].id = caller[k].id

\* Whatever neither opens nor closes a connection: processes that still run
\* have the ones they had, a new one has none.
LEMMA ConnectionsKept ==
  ASSUME Typed, Connections,
         \A k \in Callers : SameConnection(k),
         \A p \in DOMAIN procs' :
           procs'[p].state = "alive" =>
             \/ p \in DOMAIN procs /\ procs[p].state = "alive" /\ procs'[p].conns = procs[p].conns
             \/ p \notin DOMAIN procs /\ procs'[p].conns = {},
         \A k \in Callers : caller'[k].pc = "open" => caller'[k].proc \in DOMAIN procs'
  PROVE  Connections'
  <1>1. \A k \in Callers : caller[k].pc = "open" => caller[k].proc \in DOMAIN procs
    BY DEF Typed, Sound
  <1>2. ASSUME NEW p \in DOMAIN procs', procs'[p].state = "alive"
        PROVE  procs'[p].conns =
                 {<<caller'[c].id, c>> : c \in {k \in Callers : caller'[k].pc = "open" /\ caller'[k].proc = p}}
    <2> DEFINE was == {k \in Callers : caller[k].pc = "open" /\ caller[k].proc = p}
               is == {k \in Callers : caller'[k].pc = "open" /\ caller'[k].proc = p}
    <2>1. is = was
      BY DEF SameConnection
    <2>2. \A k \in was : caller'[k].id = caller[k].id
      BY DEF SameConnection
    <2>3. {<<caller'[c].id, c>> : c \in is} = {<<caller[c].id, c>> : c \in was}
      BY <2>1, <2>2
    <2>4. CASE p \in DOMAIN procs /\ procs[p].state = "alive" /\ procs'[p].conns = procs[p].conns
      BY <2>3, <2>4 DEF Connections, ConnectionsAreTheCallers, At
    <2>5. CASE p \notin DOMAIN procs /\ procs'[p].conns = {}
      <3>1. was = {}
        BY <1>1, <2>5
      <3> QED
        BY <2>1, <2>5, <3>1
    <2> QED
      BY <1>2, <2>4, <2>5
  <1>3. ConnectionsAreTheCallers'
    BY <1>2 DEF ConnectionsAreTheCallers, At
  <1>4. IdsApart'
    BY <1>1 DEF Connections, IdsApart, SameConnection
  <1> QED
    BY <1>3, <1>4 DEF Connections

LEMMA ConnectConnections ==
  ASSUME Typed, Connections, NEW c \in Callers, Connect(c)
  PROVE  Connections'
  <1> DEFINE p == caller[c].proc
             n == procs[p].next + 1
  <1>1. /\ DOMAIN procs' = DOMAIN procs /\ p \in DOMAIN procs /\ n \in Nat
        /\ procs'[p].state = procs[p].state /\ procs'[p].conns = procs[p].conns \cup {<<n, c>>}
        /\ \A i \in DOMAIN procs \ {p} : procs'[i] = procs[i]
    BY ConnectProcs
  <1>2. /\ Moves(c) /\ caller[c].pc = "connect" /\ caller'[c].pc = "open"
        /\ procs[p].state = "alive" /\ caller'[c].proc = p /\ caller'[c].id = n
    BY ConnectFacts
  <1>3. \A k \in Callers \ {c} : caller'[k] = caller[k]
    BY <1>2 DEF Moves
  <1> DEFINE Open(q) == {k \in Callers : caller[k].pc = "open" /\ caller[k].proc = q}
  <1>4. procs[p].conns = {<<caller[k].id, k>> : k \in Open(p)}
    BY <1>1, <1>2 DEF Connections, ConnectionsAreTheCallers, At
  <1>5. \A k \in Open(p) : caller[k].id # n
    <2>1. procs[p].conns \subseteq (1 .. procs[p].next) \X Callers /\ procs[p] \in Processes
      BY <1>1 DEF Typed
    <2>2. procs[p].next \in Nat
      BY <2>1 DEF Processes
    <2>3. n \notin 1 .. procs[p].next
      BY <2>2
    <2>4. \A k \in Open(p) : <<caller[k].id, k>> \in procs[p].conns
      BY <1>4
    <2> HIDE DEF n, Open
    <2>5. \A k \in Open(p) : caller[k].id \in 1 .. procs[p].next
      BY <2>1, <2>4
    <2> QED
      BY <2>3, <2>5
  <1> HIDE DEF n
  <1>6. ASSUME NEW q \in DOMAIN procs', procs'[q].state = "alive"
        PROVE  procs'[q].conns =
                 {<<caller'[k].id, k>> : k \in {i \in Callers : caller'[i].pc = "open" /\ caller'[i].proc = q}}
    <2> DEFINE is == {i \in Callers : caller'[i].pc = "open" /\ caller'[i].proc = q}
    <2>1. CASE q = p
      <3>1. is = Open(p) \cup {c} /\ c \notin Open(p)
        BY <1>2, <1>3, <2>1
      <3>2. \A k \in Open(p) : caller'[k].id = caller[k].id
        BY <1>3, <3>1
      <3> HIDE DEF is, Open
      <3>3. {<<caller'[k].id, k>> : k \in is} = {<<caller[k].id, k>> : k \in Open(p)} \cup {<<n, c>>}
        BY <1>2, <3>1, <3>2
      <3> QED
        BY <1>1, <1>4, <2>1, <3>3 DEF is
    <2>2. CASE q # p
      <3>1. is = Open(q) /\ \A k \in Open(q) : caller'[k].id = caller[k].id
        BY <1>2, <1>3, <2>2
      <3>2. procs'[q] = procs[q] /\ q \in DOMAIN procs
        BY <1>1, <2>2
      <3>3. procs[q].conns = {<<caller[k].id, k>> : k \in Open(q)}
        BY <1>6, <3>2 DEF Connections, ConnectionsAreTheCallers, At
      <3>4. {<<caller'[k].id, k>> : k \in is} = {<<caller[k].id, k>> : k \in Open(q)}
        BY <3>1
      <3> QED
        BY <3>2, <3>3, <3>4
    <2> QED
      BY <2>1, <2>2
  <1>7. ConnectionsAreTheCallers'
    BY <1>6 DEF ConnectionsAreTheCallers, At
  <1>8. IdsApart'
    <2>1. \A k \in Callers : caller[k].pc = "open" => caller[k].proc \in DOMAIN procs
      BY DEF Typed, Sound
    <2> QED
      BY <1>1, <1>2, <1>3, <1>5, <2>1 DEF Connections, IdsApart
  <1> QED
    BY <1>7, <1>8 DEF Connections

LEMMA CloseConnections ==
  ASSUME Typed, Connections, NEW c \in Callers, Close(c)
  PROVE  Connections'
  <1> DEFINE p == caller[c].proc
             Open(q) == {k \in Callers : caller[k].pc = "open" /\ caller[k].proc = q}
  <1>1. /\ DOMAIN procs' = DOMAIN procs /\ caller[c].pc = "open" /\ p \in DOMAIN procs
        /\ procs'[p].state = procs[p].state
        /\ procs'[p].conns = {k \in procs[p].conns : k[1] # caller[c].id}
        /\ \A i \in DOMAIN procs \ {p} : procs'[i] = procs[i]
    BY CloseProcs
  <1>2. Moves(c) /\ caller'[c].pc = "idle"
    BY EndFacts, LocalsFacts
  <1>3. \A k \in Callers \ {c} : caller'[k] = caller[k]
    BY <1>2 DEF Moves
  <1>4. ASSUME NEW q \in DOMAIN procs', procs'[q].state = "alive"
        PROVE  procs'[q].conns =
                 {<<caller'[k].id, k>> : k \in {i \in Callers : caller'[i].pc = "open" /\ caller'[i].proc = q}}
    <2> DEFINE is == {i \in Callers : caller'[i].pc = "open" /\ caller'[i].proc = q}
    <2>1. is = Open(q) \ {c} /\ \A k \in is : caller'[k].id = caller[k].id
      BY <1>2, <1>3
    <2>2. procs[q].conns = {<<caller[k].id, k>> : k \in Open(q)}
      BY <1>1, <1>4 DEF Connections, ConnectionsAreTheCallers, At
    <2>3. CASE q = p
      <3>1. \A k \in Open(p) : caller[k].id = caller[c].id => k = c
        BY <1>1, <1>4, <2>3 DEF Connections, IdsApart
      <3> HIDE DEF is, Open
      <3>2. {<<caller'[k].id, k>> : k \in is} = {<<caller[k].id, k>> : k \in Open(q) \ {c}}
        BY <2>1
      <3>3. {k \in procs[q].conns : k[1] # caller[c].id} = {<<caller[k].id, k>> : k \in Open(q) \ {c}}
        BY <2>2, <2>3, <3>1
      <3> QED
        BY <1>1, <2>3, <3>2, <3>3 DEF is
    <2>4. CASE q # p
      <3>1. c \notin Open(q)
        BY <2>4
      <3>2. is = Open(q)
        BY <2>1, <3>1
      <3>3. {<<caller'[k].id, k>> : k \in is} = {<<caller[k].id, k>> : k \in Open(q)}
        BY <2>1, <3>2
      <3> QED
        BY <1>1, <2>2, <2>4, <3>3
    <2> QED
      BY <2>3, <2>4
  <1>5. ConnectionsAreTheCallers'
    BY <1>4 DEF ConnectionsAreTheCallers, At
  <1>6. IdsApart'
    <2>1. \A k \in Callers : caller[k].pc = "open" => caller[k].proc \in DOMAIN procs
      BY DEF Typed, Sound
    <2> QED
      BY <1>1, <1>2, <1>3, <2>1 DEF Connections, IdsApart
  <1> QED
    BY <1>5, <1>6 DEF Connections

\* The steps of a caller that leave its connection alone.
LEMMA StepSameConnection ==
  ASSUME Typed, NEW c \in Callers,
         \/ \E e \in Engines : List(c, e)
         \/ LoaderStep(c) \/ ConnectFails(c) \/ Plan(c) \/ GenerateFixtures(c)
  PROVE  \A k \in Callers : SameConnection(k)
  <1>1. CASE Plan(c) \/ GenerateFixtures(c)
    BY <1>1, PlanFacts, GenerateFixturesFacts DEF Calls, Moves, SameConnection
  <1>2. SUFFICES ASSUME \/ \E e \in Engines : List(c, e)
                        \/ LoaderStep(c) \/ ConnectFails(c)
                 PROVE  Moves(c) /\ caller[c].pc # "open" /\ caller'[c].pc # "open"
    BY <1>1, <1>2 DEF Moves, SameConnection
  <1>3. caller[c].pc # "open"
    BY <1>2
    DEF LoaderStep, List, ConnectFails, UseCached, LoadFromInfo, NoneRegistered, GetOnce, Do,
        CreateBinary, FinishBinary, DownloadFails, ForgetOnce, Start, StartRefused, ValidateFails,
        Store, Register, At
  <1>4. CASE \E e \in Engines : List(c, e)
    BY <1>3, <1>4, ListFacts
  <1>5. CASE UseCached(c) \/ LoadFromInfo(c) \/ NoneRegistered(c)
    BY <1>3, <1>5, UseCachedFacts, LoadFromInfoFacts, NoneRegisteredFacts DEF Gets
  <1>6. CASE GetOnce(c) \/ Do(c) \/ CreateBinary(c) \/ FinishBinary(c) \/ DownloadFails(c)
    BY <1>3, <1>6, GetOnceFacts, DoFacts, CreateBinaryFacts, FinishBinaryFacts, DownloadFailsFacts
  <1>7. CASE ForgetOnce(c) \/ ConnectFails(c)
    BY <1>3, <1>7, EndFacts, LocalsFacts
  <1>8. CASE Start(c) \/ Store(c) \/ Register(c)
    BY <1>3, <1>8, StartFacts, StoreFacts, RegisterFacts DEF Gets
  <1>9. CASE StartRefused(c) \/ ValidateFails(c)
    <2>1. LoadError(c)
      BY <1>9 DEF StartRefused, ValidateFails
    <2> QED
      BY <1>3, <2>1, LoadErrorFacts, LocalsFacts DEF Fails
  <1> QED
    BY <1>2, <1>4, <1>5, <1>6, <1>7, <1>8, <1>9 DEF LoaderStep

\* Of the steps of a caller, Start adds a process and Store, Connect and Close
\* change one.
LEMMA StepProcs ==
  ASSUME NEW c \in Callers,
         \/ \E e \in Engines : List(c, e)
         \/ LoaderStep(c) \/ ConnectFails(c) \/ Plan(c) \/ GenerateFixtures(c),
         ~Start(c), ~Store(c)
  PROVE  UNCHANGED procs
  BY DEF LoaderStep, List, ConnectFails, Plan, GenerateFixtures, UseCached, LoadFromInfo, NoneRegistered,
         GetOnce, Do, CreateBinary, FinishBinary, DownloadFails, ForgetOnce, StartRefused,
         ValidateFails, Register

LEMMA StartProcs ==
  ASSUME Typed, NEW c \in Callers, Start(c)
  PROVE  /\ DOMAIN procs' = DOMAIN procs \cup {Len(procs) + 1} /\ Len(procs) + 1 \notin DOMAIN procs
         /\ \A p \in DOMAIN procs : procs'[p] = procs[p]
         /\ procs'[Len(procs) + 1] = NewProcess(c)
         /\ NewProcess(c).plugin = caller[c].driver /\ NewProcess(c).state = "alive"
         /\ NewProcess(c).loaded = FALSE /\ NewProcess(c).conns = {}
  <1>1. NewProcess(c) \in Processes /\ procs' = Append(procs, NewProcess(c))
    BY StartFacts
  <1>2. /\ NewProcess(c).plugin = caller[c].driver /\ NewProcess(c).state = "alive"
        /\ NewProcess(c).loaded = FALSE /\ NewProcess(c).conns = {}
    BY DEF NewProcess
  <1> QED
    BY <1>1, <1>2, AppendToSeq DEF Typed

LEMMA InitConnections == Init => Connections
  <1> SUFFICES ASSUME Init PROVE Connections
    OBVIOUS
  <1>1. DOMAIN procs = {} /\ \A c \in Callers : caller[c].pc = "idle"
    BY LocalsFacts DEF Init, LoaderInit
  <1> QED
    BY <1>1 DEF Connections, ConnectionsAreTheCallers, IdsApart

LEMMA NextConnections == Typed /\ Typed' /\ Connections /\ [Next]_vars => Connections'
  <1> SUFFICES ASSUME Typed, Typed', Connections, [Next]_vars PROVE Connections'
    OBVIOUS
  <1>1. \A k \in Callers : caller'[k].pc = "open" => caller'[k].proc \in DOMAIN procs'
    BY DEF Typed, Sound
  <1>2. CASE UNCHANGED vars
    BY <1>1, <1>2, ConnectionsKept DEF vars, SameConnection
  <1>3. ASSUME NEW c \in Callers,
               \/ \E e \in Engines : List(c, e)
               \/ LoaderStep(c) \/ ConnectFails(c) \/ Plan(c) \/ GenerateFixtures(c)
        PROVE  Connections'
    <2>1. \A k \in Callers : SameConnection(k)
      BY <1>3, StepSameConnection
    <2>2. CASE UNCHANGED procs
      BY <1>1, <2>1, <2>2, ConnectionsKept
    <2>3. CASE Start(c)
      BY <1>1, <2>1, <2>3, StartProcs, ConnectionsKept
    <2>4. CASE Store(c)
      <3>1. DOMAIN procs' = DOMAIN procs /\ \A p \in DOMAIN procs : SameServer(p)
        BY <2>4, StoreProcs
      <3> QED
        BY <1>1, <2>1, <3>1, ConnectionsKept DEF SameServer
    <2> QED
      BY <1>3, <2>2, <2>3, <2>4, StepProcs
  <1>4. CASE PluginDies \/ Cleanup
    <2>1. \A k \in Callers : SameConnection(k)
      BY <1>4 DEF PluginDies, Cleanup, SameConnection
    <2>2. /\ DOMAIN procs' = DOMAIN procs
          /\ \A p \in DOMAIN procs : procs'[p] = procs[p] \/ procs'[p].state \in {"died", "killed"}
      BY <1>4, DiesProcs, CleanupProcs
    <2> QED
      BY <1>1, <2>1, <2>2, ConnectionsKept
  <1>5. CASE Restart
    <2>1. DOMAIN procs' = {} /\ \A c \in Callers : caller'[c].pc = "idle"
      BY <1>5, LocalsFacts DEF Restart
    <2> QED
      BY <2>1 DEF Connections, ConnectionsAreTheCallers, IdsApart
  <1> QED
    BY <1>2, <1>3, <1>4, <1>5, ConnectConnections, CloseConnections DEF Next, Step

\* Whatever the order of opens, closes and dying processes, each connection a
\* plugin process holds is one caller's, under the id that caller's proxy has.
THEOREM ConnectionsStayApart == Spec => []ConnectionsAreTheCallers
  <1>1. Connections => ConnectionsAreTheCallers
    BY DEF Connections
  <1> QED
    BY <1>1, InitConnections, NextConnections, AlwaysTyped, PTL DEF Spec

-----------------------------------------------------------------------------
(* Who kills a process.                                                    *)

\* Only Cleanup kills, and after it the manager is on its way out.
OnlyCleanupKills == host = "up" => \A p \in DOMAIN procs : procs[p].state # "killed"

LEMMA NextKills == Typed /\ OnlyCleanupKills /\ [Next]_vars => OnlyCleanupKills'
  <1> SUFFICES ASSUME Typed, OnlyCleanupKills, [Next]_vars PROVE OnlyCleanupKills'
    OBVIOUS
  <1> USE DEF OnlyCleanupKills
  <1>1. CASE UNCHANGED vars
    BY <1>1 DEF vars
  <1>2. ASSUME NEW c \in Callers,
               \/ \E e \in Engines : List(c, e)
               \/ LoaderStep(c) \/ ConnectFails(c) \/ Plan(c) \/ GenerateFixtures(c)
        PROVE  OnlyCleanupKills'
    <2>1. host' = host
      BY <1>2
      DEF LoaderStep, List, ConnectFails, Plan, GenerateFixtures, UseCached, LoadFromInfo, NoneRegistered,
          GetOnce, Do, CreateBinary, FinishBinary, DownloadFails, ForgetOnce, Start, StartRefused,
          ValidateFails, Store, Register, rpcUnchanged
    <2>2. CASE UNCHANGED procs
      BY <2>1, <2>2
    <2>3. CASE Start(c)
      BY <2>1, <2>3, StartProcs
    <2>4. CASE Store(c)
      <3>1. DOMAIN procs' = DOMAIN procs /\ \A p \in DOMAIN procs : SameServer(p)
        BY <2>4, StoreProcs
      <3> QED
        BY <2>1, <3>1 DEF SameServer
    <2> QED
      BY <1>2, <2>2, <2>3, <2>4, StepProcs
  <1>3. ASSUME NEW c \in Callers, Connect(c) \/ Close(c) PROVE OnlyCleanupKills'
    <2>1. host' = host
      BY <1>3 DEF Connect, Close, rpcUnchanged
    <2>2. DOMAIN procs' = DOMAIN procs /\ \A p \in DOMAIN procs : procs'[p].state = procs[p].state
      BY <1>3, ConnectProcs, CloseProcs
    <2> QED
      BY <2>1, <2>2
  <1>4. CASE PluginDies
    <2>1. host' = host
      BY <1>4 DEF PluginDies
    <2>2. /\ DOMAIN procs' = DOMAIN procs
          /\ \A p \in DOMAIN procs : procs'[p] = procs[p] \/ procs'[p].state = "died"
      BY <1>4, DiesProcs
    <2> QED
      BY <2>1, <2>2
  <1>5. CASE Cleanup \/ Restart
    BY <1>5 DEF Cleanup, Restart
  <1> QED
    BY <1>1, <1>2, <1>3, <1>4, <1>5 DEF Next, Step

\* A load that replaces another's client does not kill the process the other
\* callers are connected to: while the manager is up, nobody is cut off by it.
THEOREM CallersAreNotCutOff == Spec => []NobodyIsCutOff
  <1>1. Init => OnlyCleanupKills
    BY DEF Init, LoaderInit, OnlyCleanupKills
  <1>2. Typed /\ OnlyCleanupKills => NobodyIsCutOff
    BY DEF Typed, Sound, OnlyCleanupKills, NobodyIsCutOff
  <1> QED
    BY <1>1, <1>2, NextKills, AlwaysTyped, PTL DEF Spec

-----------------------------------------------------------------------------
(* Specs.                                                                  *)

\* What the plugin is to plan of field f of engine e when w was written.
Arrived(e, f, w) == IF f \in SentinelFields("plan", e) THEN w ELSE "unset"

\* What is left in the caller's spec: what was written, or its sentinel.
Left(e, f, w, v) == v = w \/ (f \in SentinelFields("plan", e) /\ w = "zero" /\ v = "sentinel")

\* The proxy leaves in the caller's spec what was written or its sentinel, and
\* whatever has been planned of it is what is to be planned.
Intact(s) ==
  /\ s.pc = "connect" => s.planned = "none"
  /\ s.pc = "open" =>
       /\ s.written \in Value
       /\ Left(s.engine, s.field, s.written, s.spec)
       /\ s.planned \in {"none", "error", Arrived(s.engine, s.field, s.written)}

SpecsIntact == \A c \in Callers : Intact(caller[c])

\* What is sent of an intact spec arrives as it is to be planned, and the spec
\* that is left is intact again.
LEMMA IntactArrives ==
  ASSUME NEW e \in Engines, NEW f, NEW w \in Value, NEW v, Left(e, f, w, v)
  PROVE  /\ Received("plan", e, f, v) = Arrived(e, f, w)
         /\ \A op \in {"plan", "fixtures"} : Left(e, f, w, Encode(op, e, f, v))
  <1>1. e \in SentinelEngines["plan"]
    BY FieldsAssumption DEF SentinelEngines
  <1>2. SentinelFields("fixtures", e) \subseteq SentinelFields("plan", e)
    BY <1>1 DEF SentinelFields
  <1>3. Received("plan", e, f, v) = Arrived(e, f, w)
    BY DEF Received, Encode, Carry, Decode, Value, Arrived, Left
  <1>4. \A op \in {"plan", "fixtures"} : Left(e, f, w, Encode(op, e, f, v))
    BY <1>2 DEF Encode, Value, Left
  <1> QED
    BY <1>3, <1>4

LEMMA StepIntact ==
  ASSUME Typed, SpecsIntact, NEW c \in Callers, Step(c) \/ \E e \in Engines : List(c, e)
  PROVE  SpecsIntact'
  <1>1. SUFFICES Moves(c) /\ Intact(caller'[c])
    BY <1>1 DEF Moves, SpecsIntact
  <1> USE DEF Intact
  <1>2. CASE (\E e \in Engines : List(c, e)) \/ LoadFromInfo(c) \/ NoneRegistered(c)
    BY <1>2, ListFacts, LoadFromInfoFacts, NoneRegisteredFacts
  <1>3. CASE GetOnce(c) \/ Do(c) \/ CreateBinary(c) \/ FinishBinary(c) \/ DownloadFails(c) \/ Start(c)
    BY <1>3, GetOnceFacts, DoFacts, CreateBinaryFacts, FinishBinaryFacts, DownloadFailsFacts, StartFacts
  <1>4. CASE UseCached(c) \/ Store(c) \/ Register(c)
    BY <1>4, UseCachedFacts, StoreFacts, RegisterFacts DEF Gets
  <1>5. CASE StartRefused(c) \/ ValidateFails(c)
    <2>1. LoadError(c)
      BY <1>5 DEF StartRefused, ValidateFails
    <2> QED
      BY <2>1, LoadErrorFacts, LocalsFacts DEF Fails
  <1>6. CASE ForgetOnce(c) \/ ConnectFails(c) \/ Close(c)
    BY <1>6, EndFacts, LocalsFacts
  <1>7. CASE Connect(c)
    <2>1. Intact(caller[c])
      BY DEF SpecsIntact
    <2> QED
      BY <1>7, <2>1, ConnectFacts DEF Left
  <1>8. CASE Plan(c) \/ GenerateFixtures(c)
    <2> DEFINE s == caller[c]
               t == caller'[c]
    <2>1. Calls(c)
      BY <1>8, PlanFacts, GenerateFixturesFacts
    <2>2. /\ s.pc = "open" /\ t.pc = "open" /\ t.engine = s.engine /\ t.field = s.field
          /\ t.written = s.written /\ Moves(c)
      BY <2>1 DEF Calls
    <2>3. /\ s.written \in Value
          /\ Left(s.engine, s.field, s.written, s.spec)
          /\ s.planned \in {"none", "error", Arrived(s.engine, s.field, s.written)}
      BY <2>2 DEF SpecsIntact
    <2>4. s.engine \in Engines
      BY <2>2 DEF Typed, Sound
    <2>5. /\ Received("plan", s.engine, s.field, s.spec) = Arrived(s.engine, s.field, s.written)
          /\ \A op \in {"plan", "fixtures"} :
               Left(s.engine, s.field, s.written, Encode(op, s.engine, s.field, s.spec))
      BY <2>3, <2>4, IntactArrives
    <2>6. CASE Plan(c)
      <3>1. /\ t.spec = Encode("plan", s.engine, s.field, s.spec)
            /\ t.planned \in {"error", Received("plan", s.engine, s.field, s.spec)}
        BY <2>6, PlanFacts
      <3> HIDE DEF s, t
      <3>2. Intact(t)
        BY <2>2, <2>3, <2>5, <3>1
      <3> QED
        BY <2>2, <3>2 DEF t
    <2>7. CASE GenerateFixtures(c)
      <3>1. t.spec = Encode("fixtures", s.engine, s.field, s.spec) /\ t.planned = s.planned
        BY <2>7, GenerateFixturesFacts
      <3> HIDE DEF s, t
      <3>2. Intact(t)
        BY <2>2, <2>3, <2>5, <3>1
      <3> QED
        BY <2>2, <3>2 DEF t
    <2> QED
      BY <1>8, <2>6, <2>7
  <1> QED
    BY <1>2, <1>3, <1>4, <1>5, <1>6, <1>7, <1>8 DEF Step, LoaderStep

LEMMA NextIntact == Typed /\ SpecsIntact /\ [Next]_vars => SpecsIntact'
  <1> SUFFICES ASSUME Typed, SpecsIntact, [Next]_vars PROVE SpecsIntact'
    OBVIOUS
  <1>1. CASE UNCHANGED vars \/ PluginDies \/ Cleanup
    BY <1>1 DEF vars, PluginDies, Cleanup, SpecsIntact
  <1>2. CASE Restart
    <2>1. \A c \in Callers : caller'[c].pc = "idle"
      BY <1>2, LocalsFacts DEF Restart
    <2> QED
      BY <2>1 DEF SpecsIntact, Intact
  <1> QED
    BY <1>1, <1>2, StepIntact DEF Next

\* Through gob, which does not tell a zero value from one that is not set, and
\* through a proxy that changes the caller's own spec each time it is sent, the
\* plugin of every engine plans a field that has a sentinel as the user wrote
\* it, and any other one, zero or not set, as not set.
THEOREM SpecsArriveAsWritten == Spec => []PlannedAsWritten
  <1>1. Init => SpecsIntact
    <2>1. Init => \A c \in Callers : caller[c].pc = "idle"
      BY LocalsFacts DEF Init, LoaderInit
    <2> QED
      BY <2>1 DEF SpecsIntact, Intact
  <1>2. SpecsIntact => PlannedAsWritten
    BY DEF SpecsIntact, Intact, Arrived, PlannedAsWritten, At
  <1> QED
    BY <1>1, <1>2, NextIntact, AlwaysTyped, PTL DEF Spec

-----------------------------------------------------------------------------
(* How many processes of a driver there can be.                            *)

\* The registry's entry for d finds it for every engine that d is for.
Registered(d) == \A e \in Engines : normalize[e] = d => e \in registry[d].engines

\* From the end of the search to the store.
Loading == {"once", "do", "copy", "write", "load", "validate"}

\* What is registered, and what a search has seen of it.
Registrations ==
  /\ \A d \in Drivers : registry[d].engines = {} \/ Registered(d)
  /\ \A c \in Callers :
       /\ \A d \in caller[c].todo : Registered(d)
       /\ caller[c].pc \in Loading /\ caller[c].from # "download" => Registered(caller[c].driver)
       /\ caller[c].pc \in {"once", "do", "copy", "write"} => caller[c].driver = normalize[caller[c].engine]
       /\ caller[c].pc \in {"validate", "register"} => procs[caller[c].proc].plugin = caller[c].driver

\* Once there is an entry it stays, until the manager starts again.
LEMMA RegisteredStays ==
  ASSUME Typed, registry' = registry \/ \E c \in Callers : Register(c), NEW d \in Drivers, Registered(d)
  PROVE  Registered(d)'
  <1>1. CASE registry' = registry
    BY <1>1 DEF Registered
  <1>2. ASSUME NEW c \in Callers, Register(c) PROVE Registered(d)'
    <2>1. CASE registry' = [registry EXCEPT ![caller[c].driver] =
                              [engines |-> SupportedEngines[caller[c].driver], path |-> "cache"]]
      BY <2>1, EnginesAssumption DEF Registered, Typed
    <2>2. CASE registry' = registry
      BY <1>1, <2>2
    <2> QED
      BY <1>2, <2>1, <2>2 DEF Register
  <1> QED
    BY <1>1, <1>2

\* What a step of c other than the search makes of its stack.
StaysOrLeaves(c) ==
  /\ Moves(c)
  /\ caller'[c].todo \subseteq caller[c].todo
  /\ \/ caller'[c].pc \in {"idle", "undo", "connect", "open"}
     \/ /\ Keeps(c) /\ caller[c].pc \in {"once", "do", "copy", "write"}
        /\ caller'[c].pc \in {"do", "copy", "write", "load"}
     \/ /\ Keeps(c) /\ caller[c].pc = "load" /\ caller'[c].pc = "validate"
        /\ procs'[caller'[c].proc].plugin = caller[c].driver
     \/ /\ Keeps(c) /\ caller[c].pc = "validate" /\ caller'[c].pc = "register"
        /\ caller'[c].proc = caller[c].proc
     \/ /\ caller[c].pc \in {"load", "validate"} /\ caller'[c].pc = "search"
        /\ caller'[c].engine = caller[c].engine
        /\ caller'[c].todo = caller[c].todo \ {caller[c].driver}

LEMMA StepStaysOrLeaves ==
  ASSUME Typed, NEW c \in Callers, Step(c), ~LoadFromInfo(c), ~NoneRegistered(c)
  PROVE  StaysOrLeaves(c)
  <1> USE DEF StaysOrLeaves
  <1>1. CASE UseCached(c) \/ Register(c)
    BY <1>1, UseCachedFacts, RegisterFacts DEF Gets
  <1>2. CASE GetOnce(c) \/ Do(c) \/ CreateBinary(c) \/ FinishBinary(c)
    BY <1>2, GetOnceFacts, DoFacts, CreateBinaryFacts, FinishBinaryFacts DEF Keeps
  <1>3. CASE DownloadFails(c)
    BY <1>3, DownloadFailsFacts DEF Keeps
  <1>4. CASE ForgetOnce(c) \/ ConnectFails(c) \/ Close(c)
    BY <1>4, EndFacts, LocalsFacts
  <1>5. CASE Start(c)
    <2>1. /\ Moves(c) /\ Keeps(c) /\ caller[c].pc = "load" /\ caller'[c].pc = "validate"
          /\ caller'[c].proc = Len(procs) + 1
      BY <1>5, StartFacts
    <2>2. procs'[Len(procs) + 1].plugin = caller[c].driver
      BY <1>5, StartProcs
    <2> QED
      BY <2>1, <2>2 DEF Keeps
  <1>6. CASE StartRefused(c) \/ ValidateFails(c)
    <2>1. LoadError(c) /\ caller[c].pc \in {"load", "validate"}
      BY <1>6 DEF StartRefused, ValidateFails, At
    <2> QED
      BY <2>1, LoadErrorFacts, LocalsFacts DEF Fails
  <1>7. CASE Store(c)
    BY <1>7, StoreFacts DEF Keeps, Gets
  <1>8. CASE Connect(c)
    BY <1>8, ConnectFacts
  <1>9. CASE Plan(c) \/ GenerateFixtures(c)
    BY <1>9, PlanFacts, GenerateFixturesFacts DEF Calls
  <1> QED
    BY <1>1, <1>2, <1>3, <1>4, <1>5, <1>6, <1>7, <1>8, <1>9 DEF Step, LoaderStep

\* No process changes its plugin, and none is lost before the manager exits.
LEMMA PluginsStay ==
  ASSUME Typed, NEW c \in Callers, Step(c) \/ \E e \in Engines : List(c, e)
  PROVE  \A p \in DOMAIN procs : p \in DOMAIN procs' /\ procs'[p].plugin = procs[p].plugin
  <1>1. CASE Store(c) \/ Connect(c) \/ Close(c)
    BY <1>1, StoreProcs, ConnectProcs, CloseProcs DEF SameProcess
  <1>2. CASE Start(c)
    BY <1>2, StartProcs
  <1>3. CASE UNCHANGED procs
    BY <1>3
  <1> QED
    BY <1>1, <1>2, <1>3, StepProcs DEF Step

\* Of the steps of a caller, only Register changes the registry, and only
\* Store the maps of loaded plugins.
LEMMA StepMaps ==
  ASSUME NEW c \in Callers, Step(c) \/ \E e \in Engines : List(c, e)
  PROVE  /\ host' = host
         /\ ~Register(c) => registry' = registry
         /\ ~Store(c) => cache' = cache
  BY DEF Step, LoaderStep, List, ConnectFails, Plan, GenerateFixtures, Connect, Close, UseCached,
         LoadFromInfo, NoneRegistered, GetOnce, Do, CreateBinary, FinishBinary, DownloadFails, ForgetOnce,
         Start, StartRefused, ValidateFails, Store, Register, rpcUnchanged, loaderVars

LEMMA StepRegistrations ==
  ASSUME Typed, Registrations, NEW c \in Callers, Step(c) \/ \E e \in Engines : List(c, e)
  PROVE  Registrations'
  <1>1. registry' = registry \/ Register(c)
    BY StepMaps
  <1>2. \A d \in Drivers : Registered(d) => Registered(d)'
    BY <1>1, RegisteredStays
  <1>3. \A d \in Drivers : registry'[d].engines = {} \/ Registered(d)'
    <2>1. CASE registry' = registry
      BY <1>2, <2>1 DEF Registrations
    <2>2. CASE Register(c)
      BY <1>2, <2>2, EnginesAssumption DEF Register, Registrations, Registered, Typed
    <2> QED
      BY <1>1, <2>1, <2>2
  <1>4. \A k \in Callers : caller[k].todo \subseteq Drivers
    BY DEF Typed, Stacks
  <1>5. \A k \in Callers :
          /\ caller[k].pc \in Loading => caller[k].driver \in Drivers
          /\ caller[k].pc \in {"validate", "register"} => caller[k].proc \in DOMAIN procs
    BY DEF Typed, Sound, Loading
  <1>6. \A p \in DOMAIN procs : p \in DOMAIN procs' /\ procs'[p].plugin = procs[p].plugin
    BY PluginsStay
  <1> DEFINE Known == {d \in Drivers : Registered(d)'}
             Seen(s) ==
               /\ s.todo \subseteq Known
               /\ s.pc \in Loading /\ s.from # "download" => s.driver \in Known
               /\ s.pc \in {"once", "do", "copy", "write"} => s.driver = normalize[s.engine]
               /\ s.pc \in {"validate", "register"} => procs'[s.proc].plugin = s.driver
  <1>7. \A k \in Callers : Seen(caller[k])
    BY <1>2, <1>4, <1>5, <1>6 DEF Registrations
  <1>8. Moves(c) /\ Seen(caller'[c])
    <2>1. CASE \E e \in Engines : List(c, e)
      <3>1. PICK e \in Engines : List(c, e)
        BY <2>1
      <3>2. /\ Moves(c) /\ caller'[c].pc = "search"
            /\ caller'[c].todo = {d \in Drivers : e \in registry[d].engines}
        BY <3>1, ListFacts
      <3>3. caller'[c].todo \subseteq Known
        BY <1>2, <3>2 DEF Registrations
      <3> QED
        BY <3>2, <3>3 DEF Loading
    <2>2. CASE LoadFromInfo(c)
      <3>1. /\ Moves(c) /\ caller'[c].pc = "load" /\ caller'[c].todo = caller[c].todo
            /\ caller'[c].driver \in caller[c].todo
        BY <2>2, LoadFromInfoFacts
      <3> QED
        BY <1>7, <3>1 DEF Loading
    <2>3. CASE NoneRegistered(c)
      <3>1. /\ Moves(c) /\ caller'[c].pc \in {"load", "once"} /\ caller'[c].todo = caller[c].todo
            /\ caller'[c].from = "download" /\ caller'[c].driver = normalize[caller'[c].engine]
        BY <2>3, NoneRegisteredFacts
      <3> QED
        BY <1>7, <3>1 DEF Loading
    <2>4. CASE StaysOrLeaves(c)
      <3> HIDE DEF Known
      <3>1. Seen(caller[c])
        BY <1>7
      <3> QED
        BY <1>5, <1>6, <2>4, <3>1 DEF StaysOrLeaves, Keeps, Loading
    <2> QED
      BY <2>1, <2>2, <2>3, <2>4, StepStaysOrLeaves
  <1>9. \A k \in Callers : Seen(caller'[k])
    BY <1>7, <1>8 DEF Moves
  <1>10. \A k \in Callers :
           /\ \A d \in caller'[k].todo : Registered(d)'
           /\ caller'[k].pc \in Loading /\ caller'[k].from # "download" => Registered(caller[k].driver)'
    BY <1>9 DEF Registered
  <1> QED
    BY <1>3, <1>9, <1>10 DEF Registrations

LEMMA DiscoveredRegistrations ==
  ASSUME NEW d \in Drivers
  PROVE  Discovered(file)[d].engines = {} \/ \A e \in Engines : normalize[e] = d => e \in Discovered(file)[d].engines
  BY EnginesAssumption DEF Discovered, Unknown

LEMMA InitRegistrations == Init => Registrations
  <1> SUFFICES ASSUME Init PROVE Registrations
    OBVIOUS
  <1>1. \A c \in Callers : caller[c].pc = "idle" /\ caller[c].todo = {}
    BY LocalsFacts DEF Init, LoaderInit
  <1>2. \A d \in Drivers : registry[d].engines = {} \/ Registered(d)
    BY DiscoveredRegistrations DEF Init, LoaderInit, Registered
  <1> QED
    BY <1>1, <1>2 DEF Registrations, Loading

LEMMA NextRegistrations == Typed /\ Registrations /\ [Next]_vars => Registrations'
  <1> SUFFICES ASSUME Typed, Registrations, [Next]_vars PROVE Registrations'
    OBVIOUS
  <1>1. CASE UNCHANGED vars
    BY <1>1 DEF vars, loaderVars, Registrations, Registered
  <1>2. CASE PluginDies \/ Cleanup
    <2>1. UNCHANGED <<registry, caller>>
      BY <1>2 DEF PluginDies, Cleanup, loaderVars
    <2>2. \A p \in DOMAIN procs : procs'[p].plugin = procs[p].plugin
      BY <1>2, DiesProcs, CleanupProcs DEF SameProcess
    <2>3. \A c \in Callers : caller[c].pc \in {"validate", "register"} => caller[c].proc \in DOMAIN procs
      BY DEF Typed, Sound
    <2> QED
      BY <2>1, <2>2, <2>3 DEF Registrations, Registered
  <1>3. CASE Restart
    <2>1. \A c \in Callers : caller'[c].pc = "idle" /\ caller'[c].todo = {}
      BY <1>3, LocalsFacts DEF Restart
    <2>2. \A d \in Drivers : registry'[d].engines = {} \/ Registered(d)'
      BY <1>3, DiscoveredRegistrations DEF Restart, Registered
    <2> QED
      BY <2>1, <2>2 DEF Registrations, Loading
  <1> QED
    BY <1>1, <1>2, <1>3, StepRegistrations DEF Next

\* The processes of d that were stored and still run, whether they are still in
\* the maps or were replaced there.
LoadedAlive(d) == {p \in DOMAIN procs : procs[p].plugin = d /\ procs[p].loaded /\ procs[p].state = "alive"}

\* The callers that may yet store one of d: they are loading it, or they have
\* looked for it in the registry in vain and will download it.
MayStillStore(d) ==
  {c \in Callers :
     \/ caller[c].pc \in Loading /\ caller[c].driver = d
     \/ caller[c].pc \in {"search", "load", "validate"} /\ d \notin caller[c].todo
          /\ normalize[caller[c].engine] = d}

\* While d is not registered, each of its processes is in the hands of the
\* caller that is about to register it.
Held(d) ==
  ~Registered(d) =>
    \A p \in LoadedAlive(d) :
      \E c \in Callers : caller[c].pc = "register" /\ caller[c].driver = d /\ caller[c].proc = p

\* Once it is registered and in the maps no caller begins to load it.
Room(d) ==
  Registered(d) /\ cache[d] # 0 =>
    Cardinality(LoadedAlive(d)) + Cardinality(MayStillStore(d)) <= Cardinality(Callers)

Bounded ==
  host = "up" =>
    \A d \in Drivers : (cache[d] = 0 => LoadedAlive(d) = {}) /\ Held(d) /\ Room(d)

LEMMA FiniteParts ==
  ASSUME Typed, NEW d \in Drivers
  PROVE  /\ IsFiniteSet(LoadedAlive(d)) /\ Cardinality(LoadedAlive(d)) \in Nat
         /\ MayStillStore(d) \subseteq Callers /\ IsFiniteSet(MayStillStore(d))
         /\ Cardinality(MayStillStore(d)) \in Nat /\ Cardinality(Callers) \in Nat
  <1>1. DOMAIN procs = 1 .. Len(procs) /\ Len(procs) \in Nat
    BY DEF Typed
  <1>2. IsFiniteSet(DOMAIN procs)
    BY <1>1, FS_Interval
  <1>3. LoadedAlive(d) \in SUBSET (DOMAIN procs)
    BY DEF LoadedAlive
  <1>4. MayStillStore(d) \in SUBSET Callers
    BY DEF MayStillStore
  <1>5. IsFiniteSet(LoadedAlive(d)) /\ IsFiniteSet(MayStillStore(d))
    BY <1>2, <1>3, <1>4, FS_Subset, CallersAssumption
  <1> QED
    BY <1>4, <1>5, FS_CardinalityType, CallersAssumption

\* Fewer of both is still within the bound.
LEMMA SmallerParts ==
  ASSUME NEW A, NEW B, NEW S \in SUBSET A, NEW T \in SUBSET B, IsFiniteSet(A), IsFiniteSet(B),
         NEW n \in Nat, Cardinality(A) + Cardinality(B) <= n
  PROVE  Cardinality(S) + Cardinality(T) <= n
  <1>1. IsFiniteSet(S) /\ IsFiniteSet(T) /\ Cardinality(S) <= Cardinality(A) /\ Cardinality(T) <= Cardinality(B)
    BY FS_Subset
  <1>2. {Cardinality(A), Cardinality(B), Cardinality(S), Cardinality(T)} \subseteq Nat
    BY <1>1, FS_CardinalityType
  <1> QED
    BY <1>1, <1>2

\* The processes that callers are about to register are not more than those.
LEMMA HeldByCallers ==
  ASSUME Typed, NEW d \in Drivers,
         \A p \in LoadedAlive(d) :
           \E c \in Callers : caller[c].pc = "register" /\ caller[c].driver = d /\ caller[c].proc = p
  PROVE  Cardinality(LoadedAlive(d)) + Cardinality(MayStillStore(d)) <= Cardinality(Callers)
  <1> DEFINE H == {c \in Callers : caller[c].pc = "register"}
             f == [p \in LoadedAlive(d) |-> CHOOSE c \in H : caller[c].proc = p]
  <1>1. \A p \in LoadedAlive(d) : f[p] \in H /\ caller[f[p]].proc = p
    OBVIOUS
  <1>2. f \in Injection(LoadedAlive(d), H)
    <2> HIDE DEF H
    <2>1. f \in [LoadedAlive(d) -> H]
      BY <1>1
    <2>2. \A p, q \in LoadedAlive(d) : f[p] = f[q] => p = q
      BY <1>1
    <2> HIDE DEF f
    <2> QED
      BY <2>1, <2>2 DEF Injection, IsInjective
  <1>3. H \in SUBSET Callers
    OBVIOUS
  <1>4. IsFiniteSet(H)
    BY <1>3, FS_Subset, CallersAssumption
  <1>5. Cardinality(LoadedAlive(d)) <= Cardinality(H)
    BY <1>2, <1>4, FS_Injection
  <1>6. H \cap MayStillStore(d) = {}
    BY DEF MayStillStore, Loading
  <1>7. MayStillStore(d) \subseteq Callers
    BY FiniteParts
  <1> HIDE DEF H
  <1>8. ~(Cardinality(H) + Cardinality(MayStillStore(d)) > Cardinality(Callers))
    BY <1>3, <1>6, <1>7, FS_MajoritiesIntersect, CallersAssumption
  <1>9. Cardinality(H) \in Nat /\ Cardinality(LoadedAlive(d)) \in Nat
        /\ Cardinality(MayStillStore(d)) \in Nat /\ Cardinality(Callers) \in Nat
    BY <1>4, FiniteParts, FS_CardinalityType
  <1> QED
    BY <1>5, <1>8, <1>9

LEMMA BoundedMeansBounded == Typed /\ Bounded => ProcessesAreBounded
  <1> SUFFICES ASSUME Typed, Bounded, host = "up", NEW d \in Drivers
               PROVE  Cardinality(LoadedAlive(d)) <= Cardinality(Callers)
    BY DEF ProcessesAreBounded, LoadedAlive
  <1>1. /\ IsFiniteSet(LoadedAlive(d)) /\ Cardinality(LoadedAlive(d)) \in Nat
        /\ Cardinality(MayStillStore(d)) \in Nat /\ Cardinality(Callers) \in Nat
    BY FiniteParts
  <1>2. CASE cache[d] = 0
    <2>1. Cardinality(LoadedAlive(d)) = 0
      BY <1>2, FS_EmptySet DEF Bounded
    <2> QED
      BY <1>1, <2>1
  <1>3. CASE ~Registered(d)
    <2>1. Cardinality(LoadedAlive(d)) + Cardinality(MayStillStore(d)) <= Cardinality(Callers)
      BY <1>3, HeldByCallers DEF Bounded, Held
    <2> QED
      BY <1>1, <2>1
  <1>4. CASE Registered(d) /\ cache[d] # 0
    <2>1. Cardinality(LoadedAlive(d)) + Cardinality(MayStillStore(d)) <= Cardinality(Callers)
      BY <1>4 DEF Bounded, Room
    <2> QED
      BY <1>1, <2>1
  <1> QED
    BY <1>2, <1>3, <1>4

\* Steps that store nothing and register nothing.
LEMMA BoundedKept ==
  ASSUME Typed, Bounded, host' = host, registry' = registry, cache' = cache,
         \A d \in Drivers : LoadedAlive(d)' \subseteq LoadedAlive(d),
         \A k \in Callers : caller[k].pc = "register" => caller'[k] = caller[k],
         \A d \in Drivers : Registered(d) /\ cache[d] # 0 => MayStillStore(d)' \subseteq MayStillStore(d)
  PROVE  Bounded'
  <1> SUFFICES ASSUME host' = "up", NEW d \in Drivers
               PROVE  ((cache[d] = 0 => LoadedAlive(d) = {}) /\ Held(d) /\ Room(d))'
    BY DEF Bounded
  <1>1. (cache[d] = 0 => LoadedAlive(d) = {}) /\ Held(d) /\ Room(d)
    BY DEF Bounded
  <1>2. Registered(d)' <=> Registered(d)
    BY DEF Registered
  <1>3. (cache[d] = 0 => LoadedAlive(d) = {})'
    BY <1>1
  <1>4. Held(d)'
    <2> SUFFICES ASSUME ~Registered(d)', NEW p \in LoadedAlive(d)'
                 PROVE  (\E c \in Callers : caller[c].pc = "register" /\ caller[c].driver = d /\ caller[c].proc = p)'
      BY DEF Held
    <2>1. PICK c \in Callers : caller[c].pc = "register" /\ caller[c].driver = d /\ caller[c].proc = p
      BY <1>1, <1>2 DEF Held
    <2> QED
      BY <2>1
  <1>5. Room(d)'
    <2> SUFFICES ASSUME Registered(d)', cache'[d] # 0
                 PROVE  (Cardinality(LoadedAlive(d)) + Cardinality(MayStillStore(d)) <= Cardinality(Callers))'
      BY DEF Room
    <2>1. Cardinality(LoadedAlive(d)) + Cardinality(MayStillStore(d)) <= Cardinality(Callers)
      BY <1>1, <1>2 DEF Room
    <2>2. /\ LoadedAlive(d)' \in SUBSET LoadedAlive(d)
          /\ MayStillStore(d)' \in SUBSET MayStillStore(d)
      BY <1>2
    <2>3. IsFiniteSet(LoadedAlive(d)) /\ IsFiniteSet(MayStillStore(d)) /\ Cardinality(Callers) \in Nat
      BY FiniteParts
    <2>4. Cardinality(LoadedAlive(d)') + Cardinality(MayStillStore(d)') <= Cardinality(Callers)
      BY <2>1, <2>2, <2>3, SmallerParts
    <2> QED
      BY <2>4
  <1> QED
    BY <1>3, <1>4, <1>5

\* A search that begins after d was registered and stored finds it.
LEMMA MayStillStoreShrinks ==
  ASSUME Typed, Registrations, NEW c \in Callers, Step(c) \/ \E e \in Engines : List(c, e),
         NEW d \in Drivers, Registered(d), cache[d] # 0
  PROVE  MayStillStore(d)' \subseteq MayStillStore(d)
  <1> DEFINE In(s) == \/ s.pc \in Loading /\ s.driver = d
                      \/ s.pc \in {"search", "load", "validate"} /\ d \notin s.todo /\ normalize[s.engine] = d
  <1>1. SUFFICES Moves(c) /\ (In(caller'[c]) => In(caller[c]))
    BY <1>1 DEF MayStillStore, Moves
  <1>2. CASE \E e \in Engines : List(c, e)
    <2>1. PICK e \in Engines : List(c, e)
      BY <1>2
    <2>2. /\ Moves(c) /\ caller'[c].pc = "search" /\ caller'[c].engine = e
          /\ caller'[c].todo = {k \in Drivers : e \in registry[k].engines}
      BY <2>1, ListFacts
    <2> QED
      BY <2>2 DEF Registered, Loading
  <1>3. CASE LoadFromInfo(c)
    BY <1>3, LoadFromInfoFacts DEF Loading
  <1>4. CASE NoneRegistered(c)
    BY <1>4, NoneRegisteredFacts
  <1>5. CASE StaysOrLeaves(c)
    <2>1. caller[c].pc \in {"once", "do", "copy", "write"} => caller[c].driver = normalize[caller[c].engine]
      BY DEF Registrations
    <2> QED
      BY <1>5, <2>1 DEF StaysOrLeaves, Keeps, Loading
  <1> QED
    BY <1>2, <1>3, <1>4, <1>5, StepStaysOrLeaves

LEMMA LoadedAliveShrinks ==
  ASSUME Typed, NEW c \in Callers, Step(c) \/ \E e \in Engines : List(c, e), ~Store(c)
  PROVE  \A d \in Drivers : LoadedAlive(d)' \subseteq LoadedAlive(d)
  <1> USE DEF LoadedAlive
  <1>1. CASE UNCHANGED procs
    BY <1>1
  <1>2. CASE Start(c)
    BY <1>2, StartProcs
  <1>3. CASE Connect(c) \/ Close(c)
    <2>1. /\ DOMAIN procs' = DOMAIN procs
          /\ \A p \in DOMAIN procs : /\ procs'[p].plugin = procs[p].plugin
                                     /\ procs'[p].loaded = procs[p].loaded /\ procs'[p].state = procs[p].state
      BY <1>3, ConnectProcs, CloseProcs DEF SameProcess
    <2> QED
      BY <2>1
  <1> QED
    BY <1>1, <1>2, <1>3, StepProcs DEF Step

\* Only the caller itself leaves the place where it registers.
LEMMA RegisteringStays ==
  ASSUME Typed, NEW c \in Callers, Step(c) \/ \E e \in Engines : List(c, e), ~Register(c)
  PROVE  Moves(c) /\ caller[c].pc # "register"
  <1>1. Moves(c)
    BY StepStaysOrLeaves, ListFacts, LoadFromInfoFacts, NoneRegisteredFacts DEF StaysOrLeaves
  <1>2. caller[c].pc # "register"
    BY DEF Step, LoaderStep, List, ConnectFails, Plan, GenerateFixtures, Connect, Close, UseCached,
           LoadFromInfo, NoneRegistered, GetOnce, Do, CreateBinary, FinishBinary, DownloadFails,
           ForgetOnce, Start, StartRefused, ValidateFails, Store, At
  <1> QED
    BY <1>1, <1>2

LEMMA StoreBounded ==
  ASSUME Typed, Typed', Registrations, Bounded, NEW c \in Callers, Store(c)
  PROVE  Bounded'
  <1> SUFFICES ASSUME host' = "up", NEW d \in Drivers
               PROVE  ((cache[d] = 0 => LoadedAlive(d) = {}) /\ Held(d) /\ Room(d))'
    BY DEF Bounded
  <1> DEFINE p == caller[c].proc
             mine == caller[c].driver
  <1>1. Step(c)
    BY DEF Step, LoaderStep
  <1>2. host = "up" /\ registry' = registry
    BY <1>1, StepMaps DEF Store
  <1>3. (cache[d] = 0 => LoadedAlive(d) = {}) /\ Held(d) /\ Room(d)
    BY <1>2 DEF Bounded
  <1>4. /\ Moves(c) /\ caller[c].pc = "validate" /\ mine \in Drivers /\ p \in DOMAIN procs
        /\ cache' = [cache EXCEPT ![mine] = p]
        /\ \/ /\ Keeps(c) /\ caller[c].from = "download" /\ caller'[c].pc = "register"
              /\ caller'[c].proc = p
           \/ caller[c].from # "download" /\ caller'[c].pc = "connect"
    BY StoreFacts DEF Gets
  <1>5. procs[p].plugin = mine
    BY <1>4 DEF Registrations
  <1>6. LoadedAlive(d)' \subseteq IF d = mine THEN LoadedAlive(d) \cup {p} ELSE LoadedAlive(d)
    BY <1>5, StoreProcs DEF LoadedAlive, SameProcess
  <1>7. p # 0 /\ cache'[mine] = p /\ (d # mine => cache'[d] = cache[d])
    <2>1. p # 0
      BY <1>4 DEF Typed
    <2> QED
      BY <1>4, <2>1 DEF Typed
  <1>8. Registered(d)' <=> Registered(d)
    BY <1>2 DEF Registered
  <1>9. (cache[d] = 0 => LoadedAlive(d) = {})'
    BY <1>3, <1>6, <1>7
  <1>10. Held(d)'
    <2> SUFFICES ASSUME ~Registered(d)', NEW q \in LoadedAlive(d)'
                 PROVE  (\E k \in Callers : caller[k].pc = "register" /\ caller[k].driver = d /\ caller[k].proc = q)'
      BY DEF Held
    <2>1. CASE q \in LoadedAlive(d)
      <3>1. PICK k \in Callers : caller[k].pc = "register" /\ caller[k].driver = d /\ caller[k].proc = q
        BY <1>3, <1>8, <2>1 DEF Held
      <3>2. caller'[k] = caller[k]
        BY <1>4, <3>1 DEF Moves
      <3> QED
        BY <3>1, <3>2
    <2>2. CASE q \notin LoadedAlive(d)
      <3>1. q = p /\ d = mine
        BY <1>6, <2>2
      <3>2. caller[c].from = "download"
        BY <1>4, <1>8, <3>1 DEF Registrations, Loading
      <3> QED
        BY <1>4, <3>1, <3>2 DEF Keeps
    <2> QED
      BY <2>1, <2>2
  <1>11. Room(d)'
    <2> SUFFICES ASSUME Registered(d)', cache'[d] # 0
                 PROVE  (Cardinality(LoadedAlive(d)) + Cardinality(MayStillStore(d)) <= Cardinality(Callers))'
      BY DEF Room
    <2> DEFINE L == LoadedAlive(d)
               M == MayStillStore(d)
               N == MayStillStore(d)'
    <2>1. /\ IsFiniteSet(L) /\ Cardinality(L) \in Nat /\ M \subseteq Callers /\ IsFiniteSet(M)
          /\ Cardinality(M) \in Nat /\ Cardinality(Callers) \in Nat
      BY FiniteParts
    <2>2. N \subseteq Callers
      BY DEF MayStillStore
    <2>3. CASE d # mine
      <3>1. Registered(d) /\ cache[d] # 0
        BY <1>7, <1>8, <2>3
      <3>2. N \subseteq M
        BY <1>1, <3>1, MayStillStoreShrinks
      <3>3. Cardinality(L) + Cardinality(M) <= Cardinality(Callers)
        BY <1>3, <3>1 DEF Room
      <3>4. LoadedAlive(d)' \in SUBSET L /\ N \in SUBSET M
        BY <1>6, <2>3, <3>2
      <3> HIDE DEF L, M, N
      <3>5. Cardinality(LoadedAlive(d)') + Cardinality(N) <= Cardinality(Callers)
        BY <2>1, <3>3, <3>4, SmallerParts
      <3> QED
        BY <3>5 DEF N
    <2>4. CASE d = mine
      <3>1. c \in M /\ c \notin N
        BY <1>4, <2>4 DEF MayStillStore, Loading
      <3>2. LoadedAlive(d)' \in SUBSET (L \cup {p})
        BY <1>6, <2>4
      <3>3. CASE cache[d] = 0
        <4>1. LoadedAlive(d)' \in SUBSET {p}
          BY <1>3, <3>2, <3>3
        <4>2. N \in SUBSET (Callers \ {c})
          BY <2>2, <3>1
        <4>3. IsFiniteSet({p}) /\ Cardinality({p}) = 1
          BY FS_Singleton
        <4>4. IsFiniteSet(Callers \ {c}) /\ Cardinality(Callers \ {c}) = Cardinality(Callers) - 1
          BY FS_RemoveElement, CallersAssumption
        <4>5. Cardinality({p}) + Cardinality(Callers \ {c}) <= Cardinality(Callers)
          BY <2>1, <4>3, <4>4
        <4> HIDE DEF L, M, N, p
        <4>6. Cardinality(LoadedAlive(d)') + Cardinality(N) <= Cardinality(Callers)
          BY <2>1, <4>1, <4>2, <4>3, <4>4, <4>5, SmallerParts
        <4> QED
          BY <4>6 DEF N
      <3>4. CASE cache[d] # 0
        <4>1. N \subseteq M
          BY <1>1, <1>8, <3>4, MayStillStoreShrinks
        <4>2. Cardinality(L) + Cardinality(M) <= Cardinality(Callers)
          BY <1>3, <1>8, <3>4 DEF Room
        <4>3. N \in SUBSET (M \ {c})
          BY <3>1, <4>1
        <4> HIDE DEF L, M, N, p
        <4>4. IsFiniteSet(M \ {c}) /\ Cardinality(M \ {c}) = Cardinality(M) - 1
          BY <2>1, <3>1, FS_RemoveElement
        <4>5. IsFiniteSet(L \cup {p}) /\ Cardinality(L \cup {p}) \in {Cardinality(L), Cardinality(L) + 1}
          BY <2>1, FS_AddElement
        <4>6. Cardinality(L \cup {p}) + Cardinality(M \ {c}) <= Cardinality(Callers)
          BY <2>1, <4>2, <4>4, <4>5
        <4>7. Cardinality(LoadedAlive(d)') + Cardinality(N) <= Cardinality(Callers)
          BY <2>1, <3>2, <4>3, <4>4, <4>5, <4>6, SmallerParts
        <4> QED
          BY <4>7 DEF N
      <3> QED
        BY <3>3, <3>4
    <2> QED
      BY <2>3, <2>4
  <1> QED
    BY <1>9, <1>10, <1>11

LEMMA RegisterBounded ==
  ASSUME Typed, Typed', Registrations, Bounded, NEW c \in Callers, Register(c)
  PROVE  Bounded'
  <1> SUFFICES ASSUME host' = "up", NEW d \in Drivers
               PROVE  ((cache[d] = 0 => LoadedAlive(d) = {}) /\ Held(d) /\ Room(d))'
    BY DEF Bounded
  <1> DEFINE p == caller[c].proc
             mine == caller[c].driver
  <1>1. /\ caller[c].pc = "register" /\ Moves(c) /\ caller'[c].pc = "connect"
        /\ mine \in Drivers /\ p \in DOMAIN procs
    BY RegisterFacts DEF Gets
  <1>2. UNCHANGED <<host, cache, procs>>
    BY DEF Register
  <1>3. (cache[d] = 0 => LoadedAlive(d) = {}) /\ Held(d) /\ Room(d)
    BY <1>2 DEF Bounded
  <1>4. LoadedAlive(d)' = LoadedAlive(d) /\ MayStillStore(d)' = MayStillStore(d)
    BY <1>1, <1>2 DEF LoadedAlive, MayStillStore, Moves, Loading
  <1>5. Registered(d) => Registered(d)'
    BY RegisteredStays
  <1>6. Held(d)'
    <2> SUFFICES ASSUME ~Registered(d)', NEW q \in LoadedAlive(d)'
                 PROVE  (\E k \in Callers : caller[k].pc = "register" /\ caller[k].driver = d /\ caller[k].proc = q)'
      BY DEF Held
    <2>1. q \in LoadedAlive(d) /\ ~Registered(d)
      BY <1>4, <1>5
    <2>2. PICK k \in Callers : caller[k].pc = "register" /\ caller[k].driver = d /\ caller[k].proc = q
      BY <1>3, <2>1 DEF Held
    <2>3. k # c
      <3> SUFFICES ASSUME k = c PROVE FALSE
        OBVIOUS
      <3>1. procs[p].state = "alive" /\ mine = d
        BY <2>1, <2>2 DEF LoadedAlive
      <3>2. registry' = [registry EXCEPT ![d] = [engines |-> SupportedEngines[d], path |-> "cache"]]
        BY <3>1 DEF Register
      <3>3. Registered(d)'
        BY <3>2, EnginesAssumption DEF Registered, Typed
      <3> QED
        BY <3>3
    <2>4. caller'[k] = caller[k]
      BY <1>1, <2>3 DEF Moves
    <2> QED
      BY <2>2, <2>4
  <1>7. Room(d)'
    <2>1. CASE Registered(d)
      BY <1>2, <1>3, <1>4, <2>1 DEF Room
    <2>2. CASE ~Registered(d)
      <3>1. Cardinality(LoadedAlive(d)) + Cardinality(MayStillStore(d)) <= Cardinality(Callers)
        BY <1>3, <2>2, HeldByCallers DEF Held
      <3> QED
        BY <1>4, <3>1 DEF Room
    <2> QED
      BY <2>1, <2>2
  <1> QED
    BY <1>2, <1>3, <1>4, <1>6, <1>7

LEMMA NextBounded == Typed /\ Typed' /\ Registrations /\ Bounded /\ [Next]_vars => Bounded'
  <1> SUFFICES ASSUME Typed, Typed', Registrations, Bounded, [Next]_vars PROVE Bounded'
    OBVIOUS
  <1>1. CASE UNCHANGED vars
    <2>1. UNCHANGED <<host, registry, cache, procs, caller>>
      BY <1>1 DEF vars, loaderVars
    <2>2. \A d \in Drivers : LoadedAlive(d)' \subseteq LoadedAlive(d) /\ MayStillStore(d)' \subseteq MayStillStore(d)
      BY <2>1 DEF LoadedAlive, MayStillStore
    <2> QED
      BY <2>1, <2>2, BoundedKept
  <1>2. ASSUME NEW c \in Callers, Step(c) \/ \E e \in Engines : List(c, e), ~Store(c), ~Register(c)
        PROVE  Bounded'
    <2>1. host' = host /\ registry' = registry /\ cache' = cache
      BY <1>2, StepMaps
    <2>2. \A d \in Drivers : LoadedAlive(d)' \subseteq LoadedAlive(d)
      BY <1>2, LoadedAliveShrinks
    <2>3. \A k \in Callers : caller[k].pc = "register" => caller'[k] = caller[k]
      BY <1>2, RegisteringStays DEF Moves
    <2>4. \A d \in Drivers : Registered(d) /\ cache[d] # 0 => MayStillStore(d)' \subseteq MayStillStore(d)
      BY <1>2, MayStillStoreShrinks
    <2> QED
      BY <2>1, <2>2, <2>3, <2>4, BoundedKept
  <1>3. CASE PluginDies
    <2>1. UNCHANGED <<host, registry, cache, caller>>
      BY <1>3 DEF PluginDies, loaderVars
    <2>2. \A d \in Drivers : LoadedAlive(d)' \subseteq LoadedAlive(d)
      BY <1>3, DiesProcs DEF LoadedAlive
    <2>3. \A d \in Drivers : MayStillStore(d)' \subseteq MayStillStore(d)
      BY <2>1 DEF MayStillStore
    <2> QED
      BY <2>1, <2>2, <2>3, BoundedKept
  <1>4. CASE Cleanup
    BY <1>4 DEF Cleanup, Bounded
  <1>5. CASE Restart
    <2>1. DOMAIN procs' = {} /\ \A d \in Drivers : cache'[d] = 0
      BY <1>5 DEF Restart
    <2>2. \A d \in Drivers : LoadedAlive(d)' = {}
      BY <2>1 DEF LoadedAlive
    <2> QED
      BY <2>1, <2>2 DEF Bounded, Held, Room
  <1> QED
    BY <1>1, <1>2, <1>3, <1>4, <1>5, StoreBounded, RegisterBounded DEF Next

\* Two callers that both find a plugin not loaded both start it, and the one
\* whose client is replaced is never killed; but only callers whose search
\* began before the plugin was registered and stored can do so, and each once:
\* of one driver there are never more loaded processes than callers.
THEOREM ProcessesStayBounded == Spec => []ProcessesAreBounded
  <1>1. Init => Bounded
    <2> SUFFICES ASSUME Init PROVE Bounded
      OBVIOUS
    <2>1. DOMAIN procs = {} /\ \A d \in Drivers : cache[d] = 0
      BY DEF Init, LoaderInit
    <2>2. \A d \in Drivers : LoadedAlive(d) = {}
      BY <2>1 DEF LoadedAlive
    <2> QED
      BY <2>1, <2>2 DEF Bounded, Held, Room
  <1> QED
    BY <1>1, InitRegistrations, NextRegistrations, NextBounded, BoundedMeansBounded, AlwaysTyped, PTL DEF Spec
=============================================================================
