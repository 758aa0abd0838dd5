---------------------------- MODULE FleetProofs -----------------------------
(***************************************************************************)
(* Proofs about the managers of a namespace, for any Databases, specs,     *)
(* bodies and bounds: the types of the state, part by part, and what is    *)
(* left in the database of an object that was removed.                     *)
(***************************************************************************)
EXTENDS FleetLifecycle, FiniteSetTheorems, TLAPS

Specs == DatabaseSpecs \cup {FirstSpec}

\* Pod templates, and the one of a StatefulSet that is not there.
Images == {s.image : s \in Specs} \cup {""}

Pcs == {"idle", "add", "drop", "execDrop", "take", "connect", "plan", "apply", "status", "failed",
        "get", "write"}

Workers == [pc : Pcs, copy : Objects, seen : Migrations]

\* What the control plane and Kubernetes keep for the Databases.
DatabasesTyped ==
  /\ dobj \in [Databases -> [exists : BOOLEAN, spec : Specs]]
  /\ access \in [Databases -> {"none", "live", "gone"}]
  /\ sts \in [Databases -> [exists : BOOLEAN, image : Images, owner : Owners]]
  /\ dw \in [pc : {"idle", "access", "get", "write"}, spec : Specs, owner : {"live", "gone"},
             found : BOOLEAN]

SettingsTyped ==
  /\ settings.charset # "" /\ settings.collation # ""
  /\ sw \in [Databases -> [pc : {"idle", "compare", "alter"}, spec : Specs]]

\* The object and the workers' copies of it: a worker that is not idle holds
\* one that existed, and those in current hold the version that is stored.
ObjectTyped ==
  /\ obj \in Objects /\ (obj.exists => obj.body \in Bodies)
  /\ w \in [Databases -> Workers]
  /\ \A m \in Databases : w[m].pc # "idle" => w[m].copy.exists /\ w[m].copy.body \in Bodies
  /\ current \subseteq Databases
  /\ \A m \in current : w[m].copy = obj

ViewTyped ==
  /\ migs \in [Bodies -> Migrations] /\ doomed \subseteq Bodies
  /\ mw \subseteq Bodies /\ \A a, b \in mw : a = b

Typed ==
  /\ kind \in Kinds /\ changes \in 0 .. MaxChanges(kind) /\ faults \in 0 .. MaxFaults(kind)
  /\ DatabasesTyped /\ SettingsTyped /\ ObjectTyped /\ ViewTyped

-----------------------------------------------------------------------------
(* What a worker does with its copy.                                       *)

LEMMA NoObjectFacts ==
  ASSUME NEW n \in Nat
  PROVE  /\ NoObject(n) \in Objects /\ ~NoObject(n).exists /\ NoObject(n).uid = n
         /\ ~NoObject(n).deleting
  BY DEF NoObject, Objects

LEMMA IdleFacts == Idle \in Workers /\ Idle.pc = "idle"
  <1>1. NoObject(0) \in Objects
    BY NoObjectFacts
  <1> QED
    BY <1>1 DEF Idle, Workers, Pcs, Migrations

\* The worker of m alone changes.
Works(m) ==
  /\ w' \in [Databases -> Workers]
  /\ \A k \in Databases \ {m} : w'[k] = w[k]

LEMMA DoneFacts ==
  ASSUME ObjectTyped, NEW m \in Databases, Done(m)
  PROVE  Works(m) /\ w'[m] = Idle
  BY IdleFacts DEF ObjectTyped, Done, Works

LEMMA GotoFacts ==
  ASSUME ObjectTyped, NEW m \in Databases, NEW p \in Pcs, Goto(m, p)
  PROVE  Works(m) /\ w'[m].pc = p /\ w'[m].copy = w[m].copy /\ w'[m].seen = w[m].seen
  <1> DEFINE s == w[m]
             q == [s EXCEPT !.pc = p]
  <1>1. s \in Workers /\ w \in [Databases -> Workers]
    BY DEF ObjectTyped
  <1>2. w' = [w EXCEPT ![m] = q]
    BY DEF Goto
  <1> HIDE DEF s
  <1>3. q \in Workers /\ q.pc = p /\ q.copy = s.copy /\ q.seen = s.seen
    BY <1>1 DEF Workers
  <1> HIDE DEF q
  <1> QED
    BY <1>1, <1>2, <1>3 DEF Works, s

LEMMA TakeFacts ==
  ASSUME ObjectTyped, NEW m \in Databases, NEW p \in Pcs, Take(m, p)
  PROVE  Works(m) /\ w'[m].pc = p /\ w'[m].copy = obj /\ current' = current \cup {m}
  <1> DEFINE q == [Idle EXCEPT !.pc = p, !.copy = obj]
  <1>1. obj \in Objects /\ w \in [Databases -> Workers]
    BY DEF ObjectTyped
  <1>2. w' = [w EXCEPT ![m] = q] /\ current' = current \cup {m}
    BY DEF Take
  <1>3. q \in Workers /\ q.pc = p /\ q.copy = obj
    BY <1>1, IdleFacts DEF Workers
  <1> HIDE DEF q
  <1> QED
    BY <1>1, <1>2, <1>3 DEF Works

\* A reconcile that goes on, one that starts, one that writes nothing, one that
\* writes a new version and a new version that somebody else writes.
LEMMA GotoTyped ==
  ASSUME ObjectTyped, NEW m \in Databases, NEW p \in Pcs, Goto(m, p), w[m].pc # "idle",
         UNCHANGED ovars
  PROVE  ObjectTyped'
  BY GotoFacts DEF ObjectTyped, Works, ovars

LEMMA TakeTyped ==
  ASSUME ObjectTyped, NEW m \in Databases, NEW p \in Pcs, Take(m, p), obj.exists, UNCHANGED obj
  PROVE  ObjectTyped'
  BY TakeFacts DEF ObjectTyped, Works

LEMMA ReturnTyped ==
  ASSUME ObjectTyped, NEW m \in Databases, Return(m), UNCHANGED obj
  PROVE  ObjectTyped'
  <1>1. Works(m) /\ w'[m] = Idle /\ current' = current \ {m}
    BY DoneFacts DEF Return
  <1> QED
    BY <1>1, IdleFacts DEF ObjectTyped, Works

LEMMA WriteTyped ==
  ASSUME ObjectTyped, NEW m \in Databases, NEW o \in Objects, o.exists => o.body \in Bodies,
         NewVersion(o), Done(m) \/ UNCHANGED w
  PROVE  ObjectTyped'
  <1>1. obj' = o /\ current' = {}
    BY DEF NewVersion
  <1>2. CASE UNCHANGED w
    BY <1>1, <1>2 DEF ObjectTyped
  <1>3. CASE Done(m)
    BY <1>1, <1>3, DoneFacts, IdleFacts DEF ObjectTyped, Works
  <1> QED
    BY <1>2, <1>3

-----------------------------------------------------------------------------
(* Types, part by part.                                                    *)

\* A step of the worker of m, in whatever controller.
WorkerStep(m) == Crash(m) \/ ApplyFails(m) \/ SchemaStep(m) \/ FunctionStep(m)

ObjectStep == kind # "database" /\ (CreateObject \/ EditObject \/ DeleteObject)

MigrationStep == (\E b \in Bodies : Execute(b) \/ StampExecuted(b)) \/ CollectMigrations

LEMMA InitTyped == Init => Typed
  <1> SUFFICES ASSUME Init PROVE Typed
    OBVIOUS
  <1> USE DEF Init
  <1>1. kind \in Kinds /\ changes \in 0 .. MaxChanges(kind) /\ faults \in 0 .. MaxFaults(kind)
    BY FleetAssumption
  <1>2. FirstSpec \in Specs /\ FirstSpec.image \in Images /\ "" \in Images
    BY DEF Specs, Images
  <1>3. DatabasesTyped
    BY <1>2 DEF DatabasesTyped, NoSet, IdleDW, Owners
  <1>4. SettingsTyped
    BY <1>2, CollationsAssumption DEF SettingsTyped, Setting, ServerSettings, IdleSchema
  <1>5. ObjectTyped
    BY IdleFacts, NoObjectFacts DEF ObjectTyped
  <1>6. ViewTyped
    BY DEF ViewTyped, Migrations
  <1> QED
    BY <1>1, <1>3, <1>4, <1>5, <1>6 DEF Typed

LEMMA KindStays ==
  ASSUME Next
  PROVE  kind' = kind
  BY DEF Next, User, CreateObject, EditObject, DeleteObject, EditDatabase, DeleteDatabase,
         CreateDatabase, ControlStep, ReadDatabase, ReconcileRBAC, GetStatefulSet, WriteStatefulSet,
         Collect, Crash, ApplyFails, SchemaStep, ReadSettings, CompareSettings, AlterDatabase,
         FunctionStep, Read, AddFinalizer, PlanDrop, ExecDrop, TakeFinalizer, Connect, PlanCreate,
         Apply, WriteStatus, ViewStep, ReadView, PlanView, GetMigration, WriteMigration, Execute,
         StampExecuted, CollectMigrations

LEMMA NextBounds ==
  ASSUME Typed, Next
  PROVE  (kind \in Kinds /\ changes \in 0 .. MaxChanges(kind) /\ faults \in 0 .. MaxFaults(kind))'
  <1>1. kind' = kind
    BY KindStays
  <1>2. changes' = changes \/ (changes < MaxChanges(kind) /\ changes' = changes + 1)
    BY DEF Next, User, CreateObject, EditObject, DeleteObject, EditDatabase, DeleteDatabase,
           CreateDatabase, ControlStep, ReadDatabase, ReconcileRBAC, GetStatefulSet, WriteStatefulSet,
           Collect, Crash, ApplyFails, SchemaStep, ReadSettings, CompareSettings, AlterDatabase,
           FunctionStep, Read, AddFinalizer, PlanDrop, ExecDrop, TakeFinalizer, Connect, PlanCreate,
           Apply, WriteStatus, ViewStep, ReadView, PlanView, GetMigration, WriteMigration, Execute,
           StampExecuted, CollectMigrations, Change
  <1>3. faults' = faults \/ (faults < MaxFaults(kind) /\ faults' = faults + 1)
    BY DEF Next, User, CreateObject, EditObject, DeleteObject, EditDatabase, DeleteDatabase,
           CreateDatabase, ControlStep, ReadDatabase, ReconcileRBAC, GetStatefulSet, WriteStatefulSet,
           Collect, Crash, ApplyFails, SchemaStep, ReadSettings, CompareSettings, AlterDatabase,
           FunctionStep, Read, AddFinalizer, PlanDrop, ExecDrop, TakeFinalizer, Connect, PlanCreate,
           Apply, WriteStatus, ViewStep, ReadView, PlanView, GetMigration, WriteMigration, Execute,
           StampExecuted, CollectMigrations
  <1>4. MaxChanges(kind) \in Nat /\ MaxFaults(kind) \in Nat
    BY FleetAssumption DEF Typed
  <1> QED
    BY <1>1, <1>2, <1>3, <1>4 DEF Typed

\* Of the managers' steps none writes a Database or what was made for it.
LEMMA NextDatabases ==
  ASSUME Typed, Next
  PROVE  DatabasesTyped'
  <1> USE DEF DatabasesTyped
  <1>1. Target \in Databases
    BY FleetAssumption
  <1>2. CASE ObjectStep
    BY <1>2 DEF Typed, ObjectStep, CreateObject, EditObject, DeleteObject, dvars
  <1>3. CASE EditDatabase
    <2>1. PICK s \in DatabaseSpecs : dobj' = [dobj EXCEPT ![Target].spec = s]
      BY <1>3 DEF EditDatabase
    <2>2. s \in Specs
      BY DEF Specs
    <2>3. dobj' \in [Databases -> [exists : BOOLEAN, spec : Specs]]
      BY <1>1, <2>1, <2>2 DEF Typed
    <2> QED
      BY <1>3, <2>3 DEF Typed, EditDatabase
  <1>4. CASE DeleteDatabase
    <2>1. dobj' \in [Databases -> [exists : BOOLEAN, spec : Specs]]
      BY <1>1, <1>4 DEF Typed, DeleteDatabase
    <2>2. access' \in [Databases -> {"none", "live", "gone"}]
      BY <1>1, <1>4 DEF Typed, DeleteDatabase, Disown
    <2>3. sts' \in [Databases -> [exists : BOOLEAN, image : Images, owner : Owners]]
      BY <1>1, <1>4 DEF Typed, DeleteDatabase, Disown, Owners
    <2>4. (dw \in [pc : {"idle", "access", "get", "write"}, spec : Specs, owner : {"live", "gone"},
                   found : BOOLEAN])'
      BY <1>4 DEF Typed, DeleteDatabase, Disown
    <2> QED
      BY <2>1, <2>2, <2>3, <2>4
  <1>5. CASE CreateDatabase
    BY <1>1, <1>5 DEF Typed, CreateDatabase
  <1>6. CASE ReadDatabase
    <2>1. dobj[Target].spec \in Specs
      BY <1>1 DEF Typed
    <2> QED
      BY <1>6, <2>1 DEF Typed, ReadDatabase, IdleDW
  <1>7. CASE ReconcileRBAC
    <2>1. FirstSpec \in Specs
      BY DEF Specs
    <2>2. access' \in [Databases -> {"none", "live", "gone"}]
      BY <1>1, <1>7 DEF Typed, ReconcileRBAC
    <2>3. (dw \in [pc : {"idle", "access", "get", "write"}, spec : Specs, owner : {"live", "gone"},
                   found : BOOLEAN])'
      BY <1>7, <2>1 DEF Typed, ReconcileRBAC, IdleDW
    <2> QED
      BY <1>7, <2>2, <2>3 DEF Typed, ReconcileRBAC
  <1>8. CASE GetStatefulSet
    BY <1>1, <1>8 DEF Typed, GetStatefulSet
  <1>9. CASE WriteStatefulSet
    <2>1. FirstSpec \in Specs
      BY DEF Specs
    <2>2. dw.spec.image \in Images
      BY DEF Typed, Images
    <2>3. DesiredStatefulSet \in [exists : BOOLEAN, image : Images, owner : Owners]
      BY <2>2 DEF Typed, DesiredStatefulSet, Owners
    <2>4. sts' \in [Databases -> [exists : BOOLEAN, image : Images, owner : Owners]]
      BY <1>1, <1>9, <2>3 DEF Typed, WriteStatefulSet
    <2> QED
      BY <1>9, <2>1, <2>4 DEF Typed, WriteStatefulSet, IdleDW
  <1>10. CASE Collect
    <2>1. NoSet \in [exists : BOOLEAN, image : Images, owner : Owners]
      BY DEF NoSet, Owners, Images
    <2>2. /\ \/ access' = [access EXCEPT ![Target] = "none"] /\ sts' = sts
             \/ sts' = [sts EXCEPT ![Target] = NoSet] /\ access' = access
          /\ UNCHANGED <<dobj, dw>>
      BY <1>10 DEF Collect
    <2>3. (access \in [Databases -> {"none", "live", "gone"}])'
      BY <1>1, <2>2 DEF Typed
    <2> HIDE DEF NoSet
    <2>4. (sts \in [Databases -> [exists : BOOLEAN, image : Images, owner : Owners]])'
      BY <1>1, <2>1, <2>2 DEF Typed
    <2> QED
      BY <2>2, <2>3, <2>4 DEF Typed
  <1>11. CASE (\E m \in Databases : WorkerStep(m)) \/ ViewStep \/ MigrationStep
    BY <1>11
    DEF Typed, WorkerStep, MigrationStep, Crash, ApplyFails, SchemaStep, ReadSettings, CompareSettings,
        AlterDatabase, FunctionStep, Read, AddFinalizer, PlanDrop, ExecDrop, TakeFinalizer, Connect,
        PlanCreate, Apply, WriteStatus, ViewStep, ReadView, PlanView, GetMigration, WriteMigration,
        Execute, StampExecuted, CollectMigrations, dvars
  <1> QED
    BY <1>2, <1>3, <1>4, <1>5, <1>6, <1>7, <1>8, <1>9, <1>10, <1>11
    DEF Next, User, ControlStep, WorkerStep, ObjectStep, MigrationStep

\* Every manager's copy of the spec is one somebody wrote, and what mysql is
\* told is never empty.
LEMMA NextSettings ==
  ASSUME Typed, Next
  PROVE  SettingsTyped'
  <1> USE DEF SettingsTyped
  <1>1. Target \in Databases /\ FirstSpec \in Specs
    BY FleetAssumption DEF Specs
  <1>2. IdleSchema \in [pc : {"idle", "compare", "alter"}, spec : Specs]
    BY <1>1 DEF IdleSchema
  <1>3. ASSUME NEW m \in Databases, Stop(m), UNCHANGED settings PROVE SettingsTyped'
    BY <1>2, <1>3 DEF Typed, Stop
  <1>4. CASE WriteStatefulSet \/ Collect
    BY <1>1, <1>3, <1>4 DEF Typed, WriteStatefulSet, Collect
  <1>5. ASSUME NEW m \in Databases, Crash(m) PROVE SettingsTyped'
    BY <1>3, <1>5 DEF Crash
  <1>6. ASSUME NEW m \in Databases, ReadSettings(m) PROVE SettingsTyped'
    <2>1. dobj[Target].spec \in Specs
      BY <1>1 DEF Typed, DatabasesTyped
    <2> QED
      BY <1>6, <2>1 DEF Typed, ReadSettings
  <1>7. ASSUME NEW m \in Databases, CompareSettings(m) PROVE SettingsTyped'
    BY <1>2, <1>7 DEF Typed, CompareSettings
  <1>8. ASSUME NEW m \in Databases, AlterDatabase(m) PROVE SettingsTyped'
    <2> DEFINE s == sw[m].spec
    <2>1. s \in Specs /\ settings' = Resolved(s) /\ sw' = [sw EXCEPT ![m] = IdleSchema]
      BY <1>8 DEF Typed, AlterDatabase
    <2>2. /\ s.collation # "" => CharsetOf(s.collation) # ""
          /\ s.charset # "" => DefaultCollation(s.charset) # ""
      BY <2>1, CollationsAssumption DEF Specs
    <2>3. Resolved(s).charset # "" /\ Resolved(s).collation # ""
      BY <2>2 DEF Typed, Resolved, Setting
    <2> QED
      BY <1>2, <2>1, <2>3 DEF Typed
  <1>9. CASE \/ ObjectStep \/ EditDatabase \/ DeleteDatabase \/ CreateDatabase
             \/ ReadDatabase \/ ReconcileRBAC \/ GetStatefulSet
    BY <1>9
    DEF Typed, ObjectStep, CreateObject, EditObject, DeleteObject, EditDatabase, DeleteDatabase,
        CreateDatabase, ReadDatabase, ReconcileRBAC, GetStatefulSet, svars
  <1>10. CASE (\E m \in Databases : ApplyFails(m) \/ FunctionStep(m)) \/ ViewStep \/ MigrationStep
    BY <1>10
    DEF Typed, MigrationStep, ApplyFails, FunctionStep, Read, AddFinalizer, PlanDrop, ExecDrop,
        TakeFinalizer, Connect, PlanCreate, Apply, WriteStatus, ViewStep, ReadView, PlanView,
        GetMigration, WriteMigration, Execute, StampExecuted, CollectMigrations, svars
  <1> QED
    BY <1>4, <1>5, <1>6, <1>7, <1>8, <1>9, <1>10
    DEF Next, User, ControlStep, SchemaStep, ObjectStep, MigrationStep

\* What Reconcile does with a copy.
LEMMA NextStepFacts ==
  ASSUME NEW o \in Objects, NextStep(o) # "idle"
  PROVE  /\ o.exists /\ NextStep(o) \in {"drop", "add", "connect"}
         /\ NextStep(o) = "drop" => o.deleting
  BY DEF NextStep, Objects

\* The steps of the function and the extension controller.
LEMMA FunctionObject ==
  ASSUME Typed, NEW m \in Databases, FunctionStep(m) \/ ApplyFails(m)
  PROVE  ObjectTyped'
  <1>1. ObjectTyped
    BY DEF Typed
  <1>2. CASE Read(m)
    <2>1. obj \in Objects
      BY <1>1 DEF ObjectTyped
    <2>2. obj.exists /\ NextStep(obj) \in Pcs
      BY <1>2, <2>1, NextStepFacts DEF Read, Pcs
    <2> QED
      BY <1>1, <1>2, <2>2, TakeTyped DEF Read
  <1>3. CASE AddFinalizer(m)
    <2>1. CASE Accepted(m)
      <3> DEFINE o == [obj EXCEPT !.finalizer = TRUE]
      <3>1. obj \in Objects /\ (obj.exists => obj.body \in Bodies)
        BY <1>1 DEF ObjectTyped
      <3>2. o \in Objects /\ (o.exists => o.body \in Bodies)
        BY <3>1 DEF Objects
      <3>3. NewVersion(o) /\ Done(m)
        BY <1>3, <2>1 DEF AddFinalizer
      <3> HIDE DEF o
      <3> QED
        BY <1>1, <3>2, <3>3, WriteTyped
    <2>2. CASE ~Accepted(m)
      BY <1>1, <1>3, <2>2, ReturnTyped DEF AddFinalizer
    <2> QED
      BY <2>1, <2>2
  <1>4. CASE PlanDrop(m) \/ ExecDrop(m)
    <2>1. /\ w[m].pc # "idle" /\ UNCHANGED ovars
          /\ \E p \in {"execDrop", "take"} : Goto(m, p)
      BY <1>4 DEF PlanDrop, ExecDrop
    <2> QED
      BY <1>1, <2>1, GotoTyped DEF Pcs
  <1>5. CASE TakeFinalizer(m)
    <2>1. CASE Accepted(m)
      <3>1. obj.uid \in Nat
        BY <1>1 DEF ObjectTyped, Objects
      <3>2. NewVersion(NoObject(obj.uid)) /\ Done(m)
        BY <1>5, <2>1 DEF TakeFinalizer
      <3> QED
        BY <1>1, <3>1, <3>2, NoObjectFacts, WriteTyped
    <2>2. CASE ~Accepted(m)
      BY <1>1, <1>5, <2>2, ReturnTyped DEF TakeFinalizer
    <2> QED
      BY <2>1, <2>2
  <1>6. CASE Connect(m)
    <2>1. (Goto(m, "plan") /\ w[m].pc # "idle" /\ UNCHANGED ovars) \/ (Return(m) /\ UNCHANGED obj)
      BY <1>6 DEF Connect, ovars
    <2> QED
      BY <1>1, <2>1, GotoTyped, ReturnTyped DEF Pcs
  <1>7. CASE PlanCreate(m) \/ Apply(m)
    <2>1. /\ w[m].pc # "idle" /\ UNCHANGED ovars
          /\ \E p \in {"status", "apply", "failed"} : Goto(m, p)
      BY <1>7 DEF PlanCreate, Apply
    <2> QED
      BY <1>1, <2>1, GotoTyped DEF Pcs
  <1>8. CASE ApplyFails(m)
    <2>1. (Goto(m, "failed") /\ w[m].pc # "idle" /\ UNCHANGED ovars) \/ (Return(m) /\ UNCHANGED obj)
      BY <1>8 DEF ApplyFails, ovars
    <2> QED
      BY <1>1, <2>1, GotoTyped, ReturnTyped DEF Pcs
  <1>9. CASE WriteStatus(m)
    <2>1. (NewVersion(obj) /\ Done(m)) \/ (Return(m) /\ UNCHANGED obj)
      BY <1>9 DEF WriteStatus
    <2>2. obj \in Objects /\ (obj.exists => obj.body \in Bodies)
      BY <1>1 DEF ObjectTyped
    <2> QED
      BY <1>1, <2>1, <2>2, WriteTyped, ReturnTyped
  <1> QED
    BY <1>2, <1>3, <1>4, <1>5, <1>6, <1>7, <1>8, <1>9 DEF FunctionStep

\* The steps of the view controller.
LEMMA ViewObject ==
  ASSUME Typed, ViewStep
  PROVE  ObjectTyped'
  <1>1. ObjectTyped /\ Target \in Databases
    BY FleetAssumption DEF Typed
  <1>2. CASE ReadView
    BY <1>1, <1>2, TakeTyped DEF ReadView, Pcs
  <1>3. CASE PlanView
    <2>1. (Goto(Target, "get") /\ w[Target].pc # "idle" /\ UNCHANGED ovars) \/ (Return(Target) /\ UNCHANGED obj)
      BY <1>3 DEF PlanView, ovars
    <2> QED
      BY <1>1, <2>1, GotoTyped, ReturnTyped DEF Pcs
  <1>4. CASE GetMigration
    <2> DEFINE s == w[Target]
               v == migs[s.copy.body]
               q == [s EXCEPT !.pc = "write", !.seen = v]
    <2>1. s \in Workers /\ s.pc = "get" /\ s.copy.exists /\ s.copy.body \in Bodies
      BY <1>1, <1>4 DEF GetMigration, ObjectTyped
    <2>2. v \in Migrations
      BY <2>1 DEF Typed, ViewTyped
    <2>3. w' = [w EXCEPT ![Target] = q] /\ UNCHANGED ovars
      BY <1>4 DEF GetMigration
    <2> HIDE DEF s, v
    <2>4. q \in Workers /\ q.copy = s.copy
      BY <2>1, <2>2 DEF Workers, Pcs
    <2> HIDE DEF q
    <2> QED
      BY <1>1, <2>1, <2>3, <2>4 DEF ObjectTyped, ovars, s
  <1>5. CASE WriteMigration
    BY <1>1, <1>5, ReturnTyped DEF WriteMigration
  <1> QED
    BY <1>2, <1>3, <1>4, <1>5 DEF ViewStep

LEMMA UserObject ==
  ASSUME Typed, CreateObject \/ EditObject \/ DeleteObject
  PROVE  ObjectTyped'
  <1>1. /\ obj \in Objects /\ (obj.exists => obj.body \in Bodies) /\ obj.uid \in Nat
        /\ ObjectTyped /\ Target \in Databases
    BY FleetAssumption DEF Typed, ObjectTyped, Objects
  <1>2. BodiesOf(kind) \subseteq Bodies
    BY DEF Typed, Bodies
  <1>3. CASE CreateObject
    <2>1. PICK b \in BodiesOf(kind), r \in BOOLEAN :
            NewVersion([NoObject(obj.uid + 1) EXCEPT !.exists = TRUE, !.remove = r, !.body = b])
      BY <1>3 DEF CreateObject
    <2> DEFINE o == [NoObject(obj.uid + 1) EXCEPT !.exists = TRUE, !.remove = r, !.body = b]
    <2>2. NoObject(obj.uid + 1) \in Objects
      BY <1>1, NoObjectFacts
    <2>3. o \in Objects /\ o.body \in Bodies
      BY <1>2, <2>2 DEF Objects
    <2>4. NewVersion(o) /\ UNCHANGED w
      BY <1>3, <2>1 DEF CreateObject
    <2> HIDE DEF o
    <2> QED
      BY <1>1, <2>3, <2>4, WriteTyped
  <1>4. CASE EditObject
    <2>1. PICK b \in BodiesOf(kind), r \in BOOLEAN : NewVersion([obj EXCEPT !.remove = r, !.body = b])
      BY <1>4 DEF EditObject
    <2> DEFINE o == [obj EXCEPT !.remove = r, !.body = b]
    <2>2. o \in Objects /\ o.body \in Bodies
      BY <1>1, <1>2 DEF Objects
    <2>3. NewVersion(o) /\ UNCHANGED w
      BY <1>4, <2>1 DEF EditObject
    <2> HIDE DEF o
    <2> QED
      BY <1>1, <2>2, <2>3, WriteTyped
  <1>5. CASE DeleteObject
    <2> DEFINE o == IF obj.finalizer THEN [obj EXCEPT !.deleting = TRUE] ELSE NoObject(obj.uid)
    <2>1. NoObject(obj.uid) \in Objects /\ ~NoObject(obj.uid).exists
      BY <1>1, NoObjectFacts
    <2>2. o \in Objects /\ (o.exists => o.body \in Bodies)
      BY <1>1, <2>1 DEF Objects
    <2>3. NewVersion(o) /\ UNCHANGED w
      BY <1>5 DEF DeleteObject
    <2> HIDE DEF o
    <2> QED
      BY <1>1, <2>2, <2>3, WriteTyped
  <1> QED
    BY <1>3, <1>4, <1>5

LEMMA NextObject ==
  ASSUME Typed, Next
  PROVE  ObjectTyped'
  <1>1. ObjectTyped /\ Target \in Databases
    BY FleetAssumption DEF Typed
  <1>2. CASE (\E m \in Databases : Crash(m)) \/ WriteStatefulSet \/ Collect
    <2>1. \/ UNCHANGED <<w, ovars>>
          \/ UNCHANGED obj /\ \E m \in Databases : Return(m)
      BY <1>1, <1>2 DEF Crash, WriteStatefulSet, Collect, Stop, ovars
    <2>2. CASE UNCHANGED <<w, ovars>>
      BY <1>1, <2>2 DEF ObjectTyped, ovars
    <2> QED
      BY <1>1, <2>1, <2>2, ReturnTyped
  <1>3. CASE \/ EditDatabase \/ DeleteDatabase \/ CreateDatabase
             \/ ReadDatabase \/ ReconcileRBAC \/ GetStatefulSet
             \/ \E m \in Databases : SchemaStep(m)
             \/ MigrationStep
    <2>1. UNCHANGED <<w, ovars>>
      BY <1>3
      DEF EditDatabase, DeleteDatabase, CreateDatabase, ReadDatabase, ReconcileRBAC, GetStatefulSet,
          SchemaStep, ReadSettings, CompareSettings, AlterDatabase, MigrationStep, Execute,
          StampExecuted, CollectMigrations
    <2> QED
      BY <1>1, <2>1 DEF ObjectTyped, ovars
  <1> QED
    BY <1>2, <1>3, UserObject, FunctionObject, ViewObject
    DEF Next, User, ControlStep, MigrationStep

LEMMA NextView ==
  ASSUME Typed, Next
  PROVE  ViewTyped'
  <1> USE DEF ViewTyped
  <1>1. Target \in Databases
    BY FleetAssumption
  <1>2. CASE DeleteObject
    BY <1>2 DEF Typed, DeleteObject
  <1>3. CASE WriteMigration
    <2>1. w[Target].copy.body \in Bodies
      BY <1>1, <1>3 DEF Typed, ObjectTyped, WriteMigration
    <2>2. mw' = mw
      BY <1>3 DEF WriteMigration
    <2> DEFINE b == w[Target].copy.body
    <2>3. /\ migs' = migs \/ migs' = [migs EXCEPT ![b] = "approved"]
          /\ doomed' = doomed \/ doomed' = doomed \cup {b}
      BY <1>3 DEF WriteMigration
    <2> HIDE DEF b
    <2> QED
      BY <2>1, <2>2, <2>3 DEF Typed, Migrations, b
  <1>4. ASSUME NEW b \in Bodies, Execute(b) PROVE ViewTyped'
    BY <1>4 DEF Typed, Execute
  <1>5. ASSUME NEW b \in Bodies, StampExecuted(b) PROVE ViewTyped'
    BY <1>5 DEF Typed, StampExecuted, Migrations
  <1>6. CASE CollectMigrations
    BY <1>6 DEF Typed, CollectMigrations, Migrations
  <1>7. CASE (\E m \in Databases : Crash(m)) \/ WriteStatefulSet \/ Collect
    <2>1. migs' = migs /\ doomed' = doomed /\ (mw' = {} \/ mw' = mw)
      BY <1>7 DEF Crash, WriteStatefulSet, Collect, Stop
    <2> QED
      BY <2>1 DEF Typed
  <1>8. CASE \/ CreateObject \/ EditObject \/ EditDatabase \/ DeleteDatabase \/ CreateDatabase
             \/ ReadDatabase \/ ReconcileRBAC \/ GetStatefulSet
             \/ \E m \in Databases : SchemaStep(m) \/ ApplyFails(m) \/ FunctionStep(m)
             \/ ReadView \/ PlanView \/ GetMigration
    <2>1. UNCHANGED mvars
      BY <1>8
      DEF CreateObject, EditObject, EditDatabase, DeleteDatabase, CreateDatabase, ReadDatabase,
          ReconcileRBAC, GetStatefulSet, SchemaStep, ReadSettings, CompareSettings, AlterDatabase,
          ApplyFails, FunctionStep, Read, AddFinalizer, PlanDrop, ExecDrop, TakeFinalizer, Connect,
          PlanCreate, Apply, WriteStatus, ReadView, PlanView, GetMigration
    <2> QED
      BY <2>1 DEF Typed, mvars
  <1> QED
    BY <1>2, <1>3, <1>4, <1>5, <1>6, <1>7, <1>8 DEF Next, User, ControlStep, ViewStep

LEMMA NextTyped == Typed /\ [Next]_vars => Typed'
  <1> SUFFICES ASSUME Typed, [Next]_vars PROVE Typed'
    OBVIOUS
  <1>1. CASE UNCHANGED vars
    BY <1>1
    DEF Typed, DatabasesTyped, SettingsTyped, ObjectTyped, ViewTyped, vars, dvars, svars, ovars, mvars
  <1>2. CASE Next
    BY <1>2, NextBounds, NextDatabases, NextSettings, NextObject, NextView DEF Typed
  <1> QED
    BY <1>1, <1>2

LEMMA AlwaysTyped == Spec => []Typed
  BY InitTyped, NextTyped, PTL DEF Spec

\* No step of a user, of the control plane or of a manager leaves a variable
\* outside its type: a worker that believes its copy is the stored version has
\* that version, and of the migrations at most one is to be stamped.
THEOREM FleetTypeCorrect == Spec => []TypeOK
  <1>1. Typed => TypeOK
    <2> SUFFICES ASSUME Typed PROVE TypeOK
      OBVIOUS
    <2>1. \A d \in Databases :
            /\ dobj[d].exists \in BOOLEAN /\ dobj[d].spec \in DatabaseSpecs \cup {FirstSpec}
            /\ access[d] \in {"none", "live", "gone"}
            /\ sts[d].exists \in BOOLEAN /\ sts[d].owner \in Owners
      BY DEF Typed, DatabasesTyped, Specs
    <2>2. \A d \in Databases : w[d].copy \in Objects /\ w[d].seen \in Migrations /\ w[d].pc \in Pcs
      BY DEF Typed, ObjectTyped, Workers
    <2>3. \A d \in Databases : sw[d].pc \in {"idle", "compare", "alter"}
      BY DEF Typed, SettingsTyped
    <2>4. dw.pc \in {"idle", "access", "get", "write"} /\ dw.owner \in Owners
      BY DEF Typed, DatabasesTyped, Owners
    <2>5. Cardinality(mw) <= 1
      <3>1. mw = {} \/ \E b \in mw : mw = {b}
        BY DEF Typed, ViewTyped
      <3>2. Cardinality(mw) = 0 \/ Cardinality(mw) = 1
        BY <3>1, FS_EmptySet, FS_Singleton
      <3> QED
        BY <3>2
    <2> QED
      BY <2>1, <2>2, <2>3, <2>4, <2>5 DEF Typed, SettingsTyped, ObjectTyped, ViewTyped, TypeOK, Pcs
  <1> QED
    BY <1>1, AlwaysTyped, PTL

-----------------------------------------------------------------------------
(* Removal.                                                                *)

\* On the way from an object that is being deleted to one that is gone.
Removing == {"drop", "execDrop", "take"}

\* The kinds of object that have a finalizer.
Finalized == {"function", "extension"}

\* A worker that has dropped the content, and still holds the stored version,
\* saw the object being deleted: whoever brings the content back is late.
Drops ==
  /\ removed \in [finalized : BOOLEAN, skipped : BOOLEAN, late : BOOLEAN]
  /\ removed.finalized => kind \in Finalized /\ ~obj.exists
  /\ \A m \in Databases : w[m].pc \in Removing => kind \in Finalized /\ w[m].copy.deleting
  /\ \A m \in current : w[m].pc = "take" /\ ~removed.skipped /\ ~removed.late => ~content.exists
  /\ RemovedMeansDropped

\* Steps that are not about the removal.
LEMMA DropsKept ==
  ASSUME Typed, Drops, UNCHANGED <<kind, obj, content, removed>>,
         \A m \in Databases : w'[m] = w[m] \/ w'[m].pc \notin Removing,
         \A m \in current' : m \in Databases /\ (m \in current \/ w'[m].pc \notin Removing)
  PROVE  Drops'
  BY DEF Drops, RemovedMeansDropped, Removing

\* A new version, of an object that exists as before or that has not been
\* finalized.
LEMMA DropsNewVersion ==
  ASSUME Typed, Drops, UNCHANGED <<kind, content>>, current' = {},
         \A m \in Databases : w'[m] = w[m] \/ w'[m].pc = "idle",
         \/ obj'.exists = obj.exists /\ removed' = removed
         \/ /\ removed' \in [finalized : BOOLEAN, skipped : BOOLEAN, late : BOOLEAN]
            /\ ~removed'.finalized
  PROVE  Drops'
  <1>1. \A m \in Databases : w'[m].pc \in Removing => kind' \in Finalized /\ w'[m].copy.deleting
    BY DEF Drops, Removing
  <1>2. CASE obj'.exists = obj.exists /\ removed' = removed
    BY <1>1, <1>2 DEF Drops, RemovedMeansDropped
  <1>3. CASE /\ removed' \in [finalized : BOOLEAN, skipped : BOOLEAN, late : BOOLEAN]
             /\ ~removed'.finalized
    BY <1>1, <1>3 DEF Drops, RemovedMeansDropped
  <1> QED
    BY <1>2, <1>3

LEMMA InitDrops == Init => Drops
  <1> SUFFICES ASSUME Init PROVE Drops
    OBVIOUS
  <1>1. removed \in [finalized : BOOLEAN, skipped : BOOLEAN, late : BOOLEAN] /\ ~removed.finalized
    BY DEF Init, NothingRemoved
  <1>2. \A m \in Databases : w[m].pc = "idle"
    BY IdleFacts DEF Init
  <1>3. current = {}
    BY DEF Init
  <1> QED
    BY <1>1, <1>2, <1>3 DEF Drops, RemovedMeansDropped, Removing

LEMMA UserDrops ==
  ASSUME Typed, Drops, CreateObject \/ EditObject \/ DeleteObject
  PROVE  Drops'
  <1>1. obj.exists => ~removed.finalized
    BY DEF Drops
  <1>2. UNCHANGED <<kind, content, w>> /\ current' = {}
    BY DEF CreateObject, EditObject, DeleteObject, NewVersion
  <1>3. CASE CreateObject
    BY <1>2, <1>3, DropsNewVersion DEF CreateObject, NothingRemoved
  <1>4. CASE EditObject \/ DeleteObject
    <2>1. obj.exists /\ removed' = removed
      BY <1>4 DEF EditObject, DeleteObject
    <2>2. removed \in [finalized : BOOLEAN, skipped : BOOLEAN, late : BOOLEAN]
      BY DEF Drops
    <2> QED
      BY <1>1, <1>2, <2>1, <2>2, DropsNewVersion
  <1> QED
    BY <1>3, <1>4

\* A reconcile that returns, or starts or goes on elsewhere.
LEMMA WorkerElsewhere ==
  ASSUME Typed, Drops, NEW m \in Databases, UNCHANGED <<kind, obj, content, removed>>,
         \/ Return(m)
         \/ \E p \in Pcs \ Removing : Goto(m, p) /\ UNCHANGED current
         \/ \E p \in Pcs \ Removing : Take(m, p)
  PROVE  Drops'
  <1>1. ObjectTyped
    BY DEF Typed
  <1>2. CASE Return(m)
    <2>1. Works(m) /\ w'[m].pc = "idle" /\ current' = current \ {m}
      BY <1>1, <1>2, DoneFacts, IdleFacts DEF Return
    <2> QED
      BY <1>1, <2>1, DropsKept DEF Works, Removing, ObjectTyped
  <1>3. ASSUME NEW p \in Pcs \ Removing, Goto(m, p), UNCHANGED current PROVE Drops'
    <2>1. Works(m) /\ w'[m].pc = p
      BY <1>1, <1>3, GotoFacts
    <2> QED
      BY <1>1, <1>3, <2>1, DropsKept DEF Works, ObjectTyped
  <1>4. ASSUME NEW p \in Pcs \ Removing, Take(m, p) PROVE Drops'
    <2>1. Works(m) /\ w'[m].pc = p /\ current' = current \cup {m}
      BY <1>1, <1>4, TakeFacts
    <2> QED
      BY <1>1, <2>1, DropsKept DEF Works, ObjectTyped
  <1> QED
    BY <1>2, <1>3, <1>4

LEMMA FunctionDrops ==
  ASSUME Typed, Drops, NEW m \in Databases, FunctionStep(m) \/ ApplyFails(m)
  PROVE  Drops'
  <1>1. ObjectTyped
    BY DEF Typed
  <1>2. /\ kind \in Finalized /\ kind' = kind
    BY DEF FunctionStep, ApplyFails, Read, AddFinalizer, PlanDrop, ExecDrop, TakeFinalizer, Connect,
           PlanCreate, Apply, WriteStatus, Reconciled, Finalized
  <1>3. CASE Read(m)
    <2> DEFINE p == NextStep(obj)
    <2>1. obj \in Objects /\ p # "idle" /\ Take(m, p) /\ UNCHANGED <<obj, content, removed>>
      BY <1>1, <1>3 DEF Read, ObjectTyped
    <2>2. p \in {"drop", "add", "connect"} /\ (p = "drop" => obj.deleting)
      BY <2>1, NextStepFacts
    <2> HIDE DEF p
    <2>3. Works(m) /\ w'[m].pc = p /\ w'[m].copy = obj /\ current' = current \cup {m}
      BY <1>1, <2>1, <2>2, TakeFacts DEF Pcs
    <2> QED
      BY <1>1, <1>2, <2>1, <2>2, <2>3 DEF Drops, RemovedMeansDropped, Works, Removing, ObjectTyped
  <1>4. CASE AddFinalizer(m) \/ WriteStatus(m)
    <2>1. UNCHANGED <<content, removed>>
      BY <1>4 DEF AddFinalizer, WriteStatus
    <2>2. \/ Return(m) /\ UNCHANGED obj
          \/ Done(m) /\ current' = {} /\ obj'.exists = obj.exists
      BY <1>1, <1>4 DEF AddFinalizer, WriteStatus, NewVersion, ObjectTyped, Objects
    <2>3. CASE Return(m) /\ UNCHANGED obj
      BY <1>2, <2>1, <2>3, WorkerElsewhere
    <2>4. CASE Done(m) /\ current' = {} /\ obj'.exists = obj.exists
      BY <1>1, <1>2, <2>1, <2>4, DoneFacts, IdleFacts, DropsNewVersion DEF Works
    <2> QED
      BY <2>2, <2>3, <2>4
  <1>5. CASE PlanDrop(m)
    <2> DEFINE p == IF dobj[Target].exists /\ content.exists THEN "execDrop" ELSE "take"
    <2>1. w[m].pc = "drop" /\ Goto(m, p) /\ UNCHANGED <<ovars, content>>
      BY <1>5 DEF PlanDrop
    <2>2. Works(m) /\ w'[m].pc = p /\ w'[m].copy = w[m].copy
      BY <1>1, <2>1, GotoFacts DEF Pcs
    <2>3. /\ removed' \in [finalized : BOOLEAN, skipped : BOOLEAN, late : BOOLEAN]
          /\ removed'.finalized = removed.finalized /\ removed'.late = removed.late
          /\ removed.skipped => removed'.skipped
          /\ p = "take" /\ ~removed'.skipped => ~content.exists
      BY <1>5 DEF PlanDrop, Drops
    <2> HIDE DEF p
    <2>4. \A k \in Databases : w'[k].pc \in Removing => kind' \in Finalized /\ w'[k].copy.deleting
      BY <1>2, <2>1, <2>2 DEF Drops, Works, Removing
    <2>5. \A k \in current' : w'[k].pc = "take" /\ ~removed'.skipped /\ ~removed'.late => ~content'.exists
      BY <1>1, <2>1, <2>2, <2>3 DEF Drops, Works, ovars, ObjectTyped
    <2> QED
      BY <1>2, <2>1, <2>3, <2>4, <2>5 DEF Drops, RemovedMeansDropped, ovars
  <1>6. CASE ExecDrop(m)
    <2>1. w[m].pc = "execDrop" /\ Goto(m, "take") /\ UNCHANGED <<ovars, removed>> /\ ~content'.exists
      BY <1>6 DEF ExecDrop, NoContent
    <2>2. Works(m) /\ w'[m].pc = "take" /\ w'[m].copy = w[m].copy
      BY <1>1, <2>1, GotoFacts DEF Pcs
    <2>3. \A k \in Databases : w'[k].pc \in Removing => kind' \in Finalized /\ w'[k].copy.deleting
      BY <1>2, <2>1, <2>2 DEF Drops, Works, Removing
    <2> QED
      BY <1>2, <2>1, <2>3 DEF Drops, RemovedMeansDropped, ovars
  <1>7. CASE TakeFinalizer(m)
    <2>1. CASE ~Accepted(m)
      BY <1>2, <1>7, <2>1, WorkerElsewhere DEF TakeFinalizer
    <2>2. CASE Accepted(m)
      <3>1. /\ w[m].pc = "take" /\ m \in current /\ Done(m) /\ current' = {}
            /\ obj' = NoObject(obj.uid) /\ content' = content
            /\ removed' = [removed EXCEPT !.finalized = TRUE]
        BY <1>7, <2>2 DEF TakeFinalizer, Accepted, NewVersion
      <3>2. ~obj'.exists
        BY <1>1, <3>1, NoObjectFacts DEF ObjectTyped, Objects
      <3>3. \A k \in Databases : w'[k].pc \in Removing => kind' \in Finalized /\ w'[k].copy.deleting
        BY <1>1, <1>2, <3>1, DoneFacts, IdleFacts DEF Works, Removing, Drops
      <3>4. /\ removed' \in [finalized : BOOLEAN, skipped : BOOLEAN, late : BOOLEAN]
            /\ removed'.skipped = removed.skipped /\ removed'.late = removed.late
        BY <3>1 DEF Drops
      <3>5. ~removed'.skipped /\ ~removed'.late => ~content'.exists
        BY <3>1, <3>4 DEF Drops
      <3> QED
        BY <1>2, <3>1, <3>2, <3>3, <3>4, <3>5 DEF Drops, RemovedMeansDropped
    <2> QED
      BY <2>1, <2>2
  <1>8. CASE Connect(m) \/ PlanCreate(m) \/ ApplyFails(m)
    <2>1. UNCHANGED <<obj, content, removed>>
      BY <1>8 DEF Connect, PlanCreate, ApplyFails, ovars
    <2>2. Return(m) \/ \E p \in {"plan", "status", "apply", "failed"} : Goto(m, p) /\ UNCHANGED current
      BY <1>8 DEF Connect, PlanCreate, ApplyFails, ovars
    <2> QED
      BY <1>2, <2>1, <2>2, WorkerElsewhere DEF Pcs, Removing
  <1>9. CASE Apply(m)
    <2>1. PICK p \in {"status", "failed"} : Goto(m, p)
      BY <1>9 DEF Apply
    <2>2. UNCHANGED ovars /\ removed' = [removed EXCEPT !.late = @ \/ Late]
      BY <1>9 DEF Apply
    <2>3. Works(m) /\ w'[m].pc = p
      BY <1>1, <2>1, GotoFacts DEF Pcs
    <2>4. /\ removed' \in [finalized : BOOLEAN, skipped : BOOLEAN, late : BOOLEAN]
          /\ removed'.finalized = removed.finalized /\ removed'.skipped = removed.skipped
          /\ Late => removed'.late
      <3>1. Late \in BOOLEAN
        BY <1>1 DEF Late, ObjectTyped, Objects
      <3> QED
        BY <2>2, <3>1 DEF Drops
    <2>5. \A k \in Databases : w'[k].pc \in Removing => kind' \in Finalized /\ w'[k].copy.deleting
      BY <1>2, <2>3 DEF Drops, Works, Removing
    <2>6. \A k \in current' : w'[k].pc = "take" => Late
      <3> SUFFICES ASSUME NEW k \in current', w'[k].pc = "take" PROVE Late
        OBVIOUS
      <3>1. k \in current /\ k \in Databases
        BY <1>1, <2>2 DEF ovars, ObjectTyped
      <3>2. w'[k].copy.deleting /\ w'[k] = w[k]
        BY <2>3, <2>5, <3>1 DEF Works, Removing
      <3> QED
        BY <1>1, <3>1, <3>2 DEF ObjectTyped, Late
    <2>7. ~obj'.exists => Late
      BY <2>2 DEF ovars, Late
    <2> QED
      BY <1>2, <2>2, <2>4, <2>5, <2>6, <2>7 DEF Drops, RemovedMeansDropped, ovars
  <1> QED
    BY <1>3, <1>4, <1>5, <1>6, <1>7, <1>8, <1>9 DEF FunctionStep

LEMMA NextDrops == Typed /\ Drops /\ [Next]_vars => Drops'
  <1> SUFFICES ASSUME Typed, Drops, [Next]_vars PROVE Drops'
    OBVIOUS
  <1>1. ObjectTyped /\ Target \in Databases
    BY FleetAssumption DEF Typed
  <1>2. CASE \/ UNCHANGED vars
             \/ EditDatabase \/ DeleteDatabase \/ CreateDatabase
             \/ ReadDatabase \/ ReconcileRBAC \/ GetStatefulSet
             \/ \E m \in Databases : SchemaStep(m)
             \/ CollectMigrations \/ \E b \in Bodies : StampExecuted(b)
    <2>1. UNCHANGED <<kind, ovars, w, content, removed>>
      BY <1>2
      DEF vars, EditDatabase, DeleteDatabase, CreateDatabase, ReadDatabase, ReconcileRBAC,
          GetStatefulSet, SchemaStep, ReadSettings, CompareSettings, AlterDatabase, StampExecuted,
          CollectMigrations
    <2> QED
      BY <1>1, <2>1, DropsKept DEF ovars, ObjectTyped
  <1>3. CASE WriteStatefulSet \/ Collect \/ \E m \in Databases : Crash(m)
    <2>1. UNCHANGED <<kind, obj, content, removed>>
      BY <1>3 DEF WriteStatefulSet, Collect, Crash
    <2>2. UNCHANGED <<w, current>> \/ \E m \in Databases : Return(m)
      BY <1>1, <1>3 DEF WriteStatefulSet, Collect, Crash, Stop
    <2>3. CASE UNCHANGED <<w, current>>
      BY <1>1, <2>1, <2>3, DropsKept DEF ObjectTyped
    <2> QED
      BY <2>1, <2>2, <2>3, WorkerElsewhere
  <1>4. CASE ReadView \/ PlanView \/ WriteMigration
    <2>1. UNCHANGED <<kind, obj, content, removed>>
      BY <1>4 DEF ReadView, PlanView, WriteMigration
    <2>2. \/ Return(Target) \/ Take(Target, "connect")
          \/ Goto(Target, "get") /\ UNCHANGED current
      BY <1>4 DEF ReadView, PlanView, WriteMigration
    <2> QED
      BY <1>1, <2>1, <2>2, WorkerElsewhere DEF Pcs, Removing
  <1>5. CASE GetMigration
    <2>1. UNCHANGED <<kind, ovars, content, removed>>
      BY <1>5 DEF GetMigration
    <2>2. w'[Target].pc = "write" /\ \A m \in Databases \ {Target} : w'[m] = w[m]
      BY <1>1, <1>5 DEF GetMigration, ObjectTyped, Workers
    <2> QED
      BY <1>1, <2>1, <2>2, DropsKept DEF ovars, ObjectTyped, Removing
  <1>6. ASSUME NEW b \in Bodies, Execute(b) PROVE Drops'
    <2>1. kind = "view" /\ UNCHANGED <<kind, ovars, w, removed>>
      BY <1>6 DEF Execute, View
    <2>2. ~removed.finalized /\ \A m \in Databases : w[m].pc \notin Removing
      BY <2>1 DEF Drops, Finalized
    <2> QED
      BY <1>1, <2>1, <2>2 DEF Drops, RemovedMeansDropped, Removing, ovars, ObjectTyped
  <1> QED
    BY <1>2, <1>3, <1>4, <1>5, <1>6, UserDrops, FunctionDrops
    DEF Next, User, ControlStep, ViewStep

\* A manager takes the finalizer off only after the drop; with the Database
\* there to connect to, and nobody applying a copy older than the deletion, an
\* object that is let go leaves nothing behind, whichever of the managers of
\* the namespace dropped it and whichever took the finalizer off.
THEOREM RemovalDrops == Spec => []RemovedMeansDropped
  <1>1. Drops => RemovedMeansDropped
    BY DEF Drops
  <1> QED
    BY <1>1, InitDrops, NextDrops, AlwaysTyped, PTL DEF Spec
=============================================================================
