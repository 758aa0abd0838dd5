-------------------------- MODULE FleetLifecycle ----------------------------
(***************************************************************************)
(* Users, the control plane and the managers of a namespace together.      *)
(* A Database decides which managers run, and its deletion races with what *)
(* the managers do for the objects that name it.                           *)
(***************************************************************************)
EXTENDS DatabaseController, FunctionController, ViewController

(***************************************************************************)
(* Users.                                                                  *)
(***************************************************************************)
Change == changes < MaxChanges(kind) /\ changes' = changes + 1

\* The history starts again with an object of its own.
NothingRemoved == [finalized |-> FALSE, skipped |-> FALSE, late |-> FALSE]

CreateObject ==
    /\ ~obj.exists /\ Change
    /\ \E b \in BodiesOf(kind), r \in BOOLEAN :
         /\ kind = "view" => ~r
         /\ NewVersion([NoObject(obj.uid + 1) EXCEPT !.exists = TRUE, !.remove = r, !.body = b])
    /\ removed' = NothingRemoved
    /\ UNCHANGED <<kind, dvars, svars, w, content, mvars, faults>>

EditObject ==
    /\ obj.exists /\ Change
    /\ \E b \in BodiesOf(kind), r \in BOOLEAN :
         /\ <<b, r>> # <<obj.body, obj.remove>>
         /\ kind = "view" => ~r
         /\ NewVersion([obj EXCEPT !.remove = r, !.body = b])
    /\ UNCHANGED <<kind, dvars, svars, w, content, mvars, faults, removed>>

\* The API server waits for the finalizer, if there is one.
DeleteObject ==
    /\ obj.exists /\ ~obj.deleting /\ Change
    /\ NewVersion(IF obj.finalizer THEN [obj EXCEPT !.deleting = TRUE] ELSE NoObject(obj.uid))
    /\ doomed' = IF kind = "view" THEN {b \in Bodies : migs[b] # "none"} ELSE {}
    /\ UNCHANGED <<kind, dvars, svars, w, content, migs, mw, faults, removed>>

EditDatabase ==
    /\ kind = "database" /\ dobj[Target].exists /\ Change
    /\ \E s \in DatabaseSpecs \ {dobj[Target].spec} : dobj' = [dobj EXCEPT ![Target].spec = s]
    /\ UNCHANGED <<kind, access, sts, dw, svars, ovars, w, content, mvars, faults, removed>>

DeleteDatabase ==
    /\ dobj[Target].exists /\ Change
    /\ dobj' = [dobj EXCEPT ![Target].exists = FALSE]
    /\ access' = [access EXCEPT ![Target] = Disown(@)]
    /\ sts' = [sts EXCEPT ![Target].owner = Disown(@)]
    /\ dw' = [dw EXCEPT !.owner = IF dw.pc = "idle" THEN @ ELSE Disown(@)]
    /\ UNCHANGED <<kind, svars, ovars, w, content, mvars, faults, removed>>

CreateDatabase ==
    /\ ~dobj[Target].exists /\ Change
    /\ dobj' = [dobj EXCEPT ![Target].exists = TRUE]
    /\ UNCHANGED <<kind, access, sts, dw, svars, ovars, w, content, mvars, faults, removed>>

(***************************************************************************)
(* All Databases exist; Target's is the one that is not deployed yet.      *)
(***************************************************************************)
Init ==
    /\ kind \in Kinds
    /\ dobj = [d \in Databases |-> [exists |-> TRUE, spec |-> FirstSpec]]
    /\ access = [d \in Databases |-> IF d = Target THEN "none" ELSE "live"]
    /\ sts = [d \in Databases |-> IF d = Target THEN NoSet
                                  ELSE [exists |-> TRUE, image |-> FirstSpec.image, owner |-> "live"]]
    /\ dw = IdleDW
    /\ settings = ServerSettings
    /\ sw = [m \in Databases |-> IdleSchema]
    /\ obj = NoObject(0) /\ current = {}
    /\ w = [m \in Databases |-> Idle]
    /\ content = NoContent
    /\ migs = [b \in Bodies |-> "none"] /\ doomed = {} /\ mw = {}
    /\ changes = 0 /\ faults = 0
    /\ removed = NothingRemoved

User ==
    \/ kind # "database" /\ (CreateObject \/ EditObject \/ DeleteObject)
    \/ EditDatabase \/ DeleteDatabase \/ CreateDatabase

Next ==
    \/ User
    \/ ControlStep
    \/ Collect
    \/ \E m \in Databases : \/ Crash(m) \/ ApplyFails(m)
                            \/ SchemaStep(m) \/ FunctionStep(m)
    \/ ViewStep
    \/ \E b \in Bodies : Execute(b) \/ StampExecuted(b)
    \/ CollectMigrations

Spec == Init /\ [][Next]_vars

(***************************************************************************)
(* Work queues are fair to their keys, informers resync, and Kubernetes    *)
(* collects.  Users and faults promise nothing.                            *)
(***************************************************************************)
Fairness ==
    /\ WF_vars(ControlStep) /\ WF_vars(Collect)
    /\ \A m \in Databases :
         WF_vars(SchemaStep(m)) /\ WF_vars(FunctionStep(m))
    /\ WF_vars(ViewStep)
    /\ \A b \in Bodies : WF_vars(Execute(b)) /\ WF_vars(StampExecuted(b))
    /\ WF_vars(CollectMigrations)

FairSpec == Spec /\ Fairness

(***************************************************************************)
(* Properties.                                                             *)
(***************************************************************************)
\* Every variable has its type.
TypeOK ==
    /\ kind \in Kinds
    /\ \A d \in Databases :
         /\ dobj[d].exists \in BOOLEAN /\ dobj[d].spec \in DatabaseSpecs \cup {FirstSpec}
         /\ access[d] \in {"none", "live", "gone"}
         /\ sts[d].exists \in BOOLEAN /\ sts[d].owner \in Owners
         /\ w[d].copy \in Objects /\ w[d].seen \in Migrations
         /\ w[d].pc \in {"idle", "add", "drop", "execDrop", "take", "connect", "plan", "apply",
                         "status", "failed", "get", "write"}
         /\ sw[d].pc \in {"idle", "compare", "alter"}
    /\ dw.pc \in {"idle", "access", "get", "write"} /\ dw.owner \in Owners
    /\ settings.charset # "" /\ settings.collation # ""
    /\ obj \in Objects /\ current \subseteq Databases
    /\ \A m \in current : w[m].copy = obj
    /\ \A b \in Bodies : migs[b] \in Migrations
    /\ doomed \subseteq Bodies /\ mw \subseteq Bodies /\ Cardinality(mw) <= 1
    /\ changes \in 0..MaxChanges(kind) /\ faults \in 0..MaxFaults(kind)

\* An object that asked for its removal and was let go by a manager has left
\* nothing in the database, except where the Database object was gone, so that
\* there was nowhere to connect to, or where another manager applied an older
\* copy after the deletion: with one manager per namespace it cannot.
RemovedMeansDropped ==
    (~obj.exists /\ removed.finalized /\ ~removed.skipped /\ ~removed.late) => ~content.exists

\* No Database stays for ever without the manager it describes and the access
\* this needs, whatever was deleted, re-created and collected before: except
\* one that asks for tolerations.
ManagersRun ==
    ~<>[](\E d \in Databases :
            /\ dobj[d].exists /\ ~dobj[d].spec.tolerations
            /\ ~(Running(d) /\ sts[d].image = dobj[d].spec.image))

\* The defaults of a mysql database do not for ever differ from what its spec
\* says of them, as long as a manager runs, although every manager alters them
\* from its own copy.  A spec that leaves both out is EmptyMeansServerDefault's.
SettingsConverge ==
    ~<>[](/\ kind = "database" /\ dobj[Target].exists
          /\ \E m \in Databases : Running(m)
          /\ SaysSettings(dobj[Target].spec)
          /\ settings # Resolved(dobj[Target].spec))

\* The same for a spec that leaves both out: "if the user passed "", then we
\* want the database set to the default", which is the server's.
EmptyMeansServerDefault ==
    ~<>[](/\ kind = "database" /\ dobj[Target].exists
          /\ \E m \in Databases : Running(m)
          /\ ~SaysSettings(dobj[Target].spec)
          /\ settings # ServerSettings)

\* What the body b of the object asks of the database, and does not find there.
\* "create or replace" is refused when the function returns something else, and
\* not even tried when only that was changed.
Lacking(b) ==
    CASE kind = "function"  -> ~content.exists \/ (content.returns = b.returns /\ content.as # b.as)
      [] kind = "extension" -> ~content.exists
      [] OTHER -> ~InPlace(b)

\* The database does not for ever lack what a live object asks for, after any
\* drops, creations and migrations made from older copies of it.
ObjectsConverge ==
    ~<>[](/\ kind # "database" /\ obj.exists /\ ~obj.deleting
          /\ dobj[Target].exists /\ Running(Target)
          /\ Lacking(obj.body))

\* An object that is being deleted and asks for removal goes away as long as
\* some manager runs: no conflict, crash or missing Database holds it for ever.
\* One that no longer asks for it keeps its finalizer, and stays.
DeletionEnds ==
    ~<>[](/\ obj.exists /\ obj.deleting /\ obj.remove
          /\ \E m \in Databases : Running(m))
=============================================================================
