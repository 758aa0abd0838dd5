------------------------------- MODULE Fleet --------------------------------
(***************************************************************************)
(* The state around the Database objects of one namespace and around one   *)
(* other object, a Function, a DatabaseExtension or a View of the Database *)
(* Target:                                                                 *)
(*                                                                         *)
(*   - the Database objects, and what the control plane's database         *)
(*     controller makes of each: a Role, a RoleBinding and a               *)
(*     ServiceAccount (together: its access) and a StatefulSet, whose one  *)
(*     pod is the manager of that database;                                *)
(*   - the object, and the copy of it the one worker of each manager's     *)
(*     controller holds.  A copy from an informer cache that lags behind   *)
(*     is a copy taken earlier: a worker may keep it for any time before   *)
(*     it acts on it;                                                      *)
(*   - the managed database Target stands for.                             *)
(*                                                                         *)
(* A reconcile may start at any time: on an event, after an error, after   *)
(* RequeueAfter, or when the informers resync.  An error returned by a     *)
(* reconcile only puts the object back in the queue, so a reconcile that   *)
(* fails before it changes something is a stuttering step.                 *)
(***************************************************************************)
EXTENDS Naturals, FiniteSets

CONSTANTS
    Databases,      \* names of Database objects, and of their managers
    Target,         \* the Database the object names, and the one users change
    Kinds,          \* kinds of object: "function", "extension", "view", "database" (none)
    BodiesOf(_),    \* the schemas users give an object of a kind
    DatabaseSpecs,  \* the specs users give Target
    FirstSpec,      \* the spec of every Database at the start
    DefaultCollation(_),    \* information_schema.character_sets
    CharsetOf(_),           \* information_schema.collations
    MaxChanges(_),  \* bound: user changes in a behaviour of a kind
    MaxFaults(_)    \* bound: manager crashes and failed statements

Bodies == UNION {BodiesOf(k) : k \in Kinds}

(***************************************************************************)
(* A Database spec: the pod template (one value), whether it asks for      *)
(* tolerations, and mysql's defaults; "" is a field left out.              *)
(***************************************************************************)
DatabaseSpec == [image : STRING, tolerations : BOOLEAN, charset : STRING, collation : STRING]

ASSUME FleetAssumption ==
    /\ Target \in Databases
    /\ \A s \in DatabaseSpecs \cup {FirstSpec} : s \in DatabaseSpec
    /\ \A b \in Bodies : b \in [as : STRING, returns : STRING]
    /\ \A k \in Kinds : MaxChanges(k) \in Nat /\ MaxFaults(k) \in Nat

\* mysql names a character set for every collation, the server's included, and
\* a default collation for every character set.
ASSUME CollationsAssumption ==
    /\ \A co \in {"server"} \cup {s.collation : s \in DatabaseSpecs \cup {FirstSpec}} :
         co # "" => CharsetOf(co) # ""
    /\ \A cs \in {CharsetOf("server")} \cup {s.charset : s \in DatabaseSpecs \cup {FirstSpec}} :
         cs # "" => DefaultCollation(cs) # ""

VARIABLES
    kind,       \* the kind of object of this behaviour
    dobj,       \* Database objects
    access,     \* Role, RoleBinding and ServiceAccount of each Database
    sts,        \* StatefulSet of each Database
    dw,         \* the control plane's worker
    settings,   \* character set and collation of Target's mysql database
    sw,         \* each manager's database schema worker
    obj,        \* the object
    current,    \* the managers whose worker's copy of it is still the stored version
    w,          \* each manager's worker
    content,    \* what Target's database holds of the object
    migs,       \* the View's Migrations, by body
    doomed,     \* those owned by a View that is gone
    mw,         \* the migration whose statements ran and that is to be stamped
    changes, faults,
    removed     \* history: how the object went away (FunctionController)

dvars == <<dobj, access, sts, dw>>
svars == <<settings, sw>>
ovars == <<obj, current>>
mvars == <<migs, doomed, mw>>
vars  == <<kind, dvars, svars, ovars, w, content, mvars, changes, faults, removed>>

(***************************************************************************)
(* Owners.  Kubernetes removes what a Database or View that is gone owns.  *)
(***************************************************************************)
Owners == {"nobody", "live", "gone"}

Disown(o) == IF o = "live" THEN "gone" ELSE o

NoSet == [exists |-> FALSE, image |-> "", owner |-> "nobody"]

\* A manager works once its pod has a service account that may use the API.
Running(m) == sts[m].exists /\ access[m] # "none"

(***************************************************************************)
(* The object.  Of its resource version only who holds it matters.         *)
(***************************************************************************)
NoBody == [as |-> "", returns |-> ""]

\* No object, after the uid-th of that name.
NoObject(uid) == [exists |-> FALSE, uid |-> uid, deleting |-> FALSE, finalizer |-> FALSE,
                  remove |-> FALSE, body |-> NoBody]

Objects == [exists : BOOLEAN, uid : Nat, deleting : BOOLEAN, finalizer : BOOLEAN,
            remove : BOOLEAN, body : Bodies \cup {NoBody}]

NewVersion(o) == obj' = o /\ current' = {}

\* An Update is refused when another version is stored by now.
Accepted(m) == m \in current

Idle == [pc |-> "idle", copy |-> NoObject(0), seen |-> "none"]

Done(m) == w' = [w EXCEPT ![m] = Idle]

\* Return, having written nothing: the copy is forgotten.
Return(m) == Done(m) /\ current' = current \ {m}

Goto(m, pc) == w' = [w EXCEPT ![m].pc = pc]

IdleSchema == [pc |-> "idle", spec |-> FirstSpec]

\* Get the object.
Take(m, pc) ==
    /\ w' = [w EXCEPT ![m] = [Idle EXCEPT !.pc = pc, !.copy = obj]]
    /\ current' = current \cup {m}

\* A manager's process ends, and with it what its workers were doing.
Stop(m) ==
    /\ Return(m)
    /\ sw' = [sw EXCEPT ![m] = IdleSchema]
    /\ mw' = IF m = Target THEN {} ELSE mw

Crash(m) ==
    /\ Running(m) /\ faults < MaxFaults(kind)
    /\ faults' = faults + 1
    /\ Stop(m)
    /\ UNCHANGED <<kind, dvars, settings, obj, content, migs, doomed, changes, removed>>
=============================================================================
