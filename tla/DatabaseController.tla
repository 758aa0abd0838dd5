------------------------ MODULE DatabaseController --------------------------
(***************************************************************************)
(* The control plane's database controller, which deploys a manager for    *)
(* each Database, and every manager's database schema controller, which    *)
(* sets the defaults of a mysql database.  The control plane is followed   *)
(* for Target, whose Database changes; the others stay deployed.           *)
(***************************************************************************)
EXTENDS Fleet

IdleDW == [pc |-> "idle", spec |-> FirstSpec, owner |-> "live", found |-> FALSE]

\* Get the Database; the copy keeps the identity it will own things with.
ReadDatabase ==
    /\ dw.pc = "idle" /\ dobj[Target].exists
    /\ dw' = [IdleDW EXCEPT !.pc = "access", !.spec = dobj[Target].spec]
    /\ UNCHANGED <<kind, dobj, access, sts, svars, ovars, w, content, mvars, changes, faults, removed>>

\* Role, RoleBinding and ServiceAccount: what is missing is created, what
\* exists is left as it is.  createTolerations then writes past the end of an
\* empty slice: the reconcile panics, and is tried again.
ReconcileRBAC ==
    /\ dw.pc = "access"
    /\ access' = [access EXCEPT ![Target] = IF @ = "none" THEN dw.owner ELSE @]
    /\ dw' = IF dw.spec.tolerations THEN IdleDW ELSE [dw EXCEPT !.pc = "get"]
    /\ UNCHANGED <<kind, dobj, sts, svars, ovars, w, content, mvars, changes, faults, removed>>

GetStatefulSet ==
    /\ dw.pc = "get"
    /\ dw' = [dw EXCEPT !.pc = "write", !.found = sts[Target].exists]
    /\ UNCHANGED <<kind, dobj, access, sts, svars, ovars, w, content, mvars, changes, faults, removed>>

\* Mutant: a StatefulSet that exists is taken for the wanted one.
DesiredStatefulSetOnce ==
    [exists |-> TRUE, image |-> IF dw.found THEN sts[Target].image ELSE dw.spec.image,
     owner |-> IF dw.found THEN "nobody" ELSE dw.owner]

\* Only a StatefulSet that is created gets an owner: the Update sends the
\* desired object, which has none, and not the one that was read.
DesiredStatefulSet ==
    [exists |-> TRUE, image |-> dw.spec.image, owner |-> IF dw.found THEN "nobody" ELSE dw.owner]

\* Update what was found, create what was not; another outcome is an error.
\* A changed template replaces the pod.
WriteStatefulSet ==
    /\ dw.pc = "write"
    /\ dw' = IdleDW
    /\ IF sts[Target].exists = dw.found
       THEN /\ sts' = [sts EXCEPT ![Target] = DesiredStatefulSet]
            /\ IF sts[Target].image # DesiredStatefulSet.image
               THEN Stop(Target) ELSE UNCHANGED <<w, sw, current, mw>>
       ELSE UNCHANGED <<sts, w, sw, current, mw>>
    /\ UNCHANGED <<kind, dobj, access, settings, obj, content, migs, doomed, changes, faults, removed>>

\* Kubernetes collects what the Database that is gone owned.
Collect ==
    /\ \/ /\ access[Target] = "gone"
          /\ access' = [access EXCEPT ![Target] = "none"]
          /\ UNCHANGED <<sts, w, sw, current, mw>>
       \/ /\ sts[Target].owner = "gone"
          /\ sts' = [sts EXCEPT ![Target] = NoSet]
          /\ Stop(Target)
          /\ UNCHANGED access
    /\ UNCHANGED <<kind, dobj, dw, settings, obj, content, migs, doomed, changes, faults, removed>>

(***************************************************************************)
(* reconcileMysqlDatabaseSchema.                                           *)
(***************************************************************************)
Setting(cs, co) == [charset |-> cs, collation |-> co]

\* What the server gives a database that is created without any.
ServerSettings == Setting(CharsetOf("server"), DefaultCollation(CharsetOf("server")))

SaysSettings(spec) == spec.charset # "" \/ spec.collation # ""

\* Mutant: the collation that is left out is not derived.
ResolvedVerbatim(spec) ==
    IF spec.charset # "" THEN Setting(spec.charset, spec.collation) ELSE settings

\* The field that is left out is derived from the one that is given.  Without
\* either the server's defaults are read and not used: nothing is altered.
Resolved(spec) ==
    CASE spec.charset # "" /\ spec.collation # "" -> Setting(spec.charset, spec.collation)
      [] spec.charset # "" /\ spec.collation = "" -> Setting(spec.charset, DefaultCollation(spec.charset))
      [] spec.charset = "" /\ spec.collation # "" -> Setting(CharsetOf(spec.collation), spec.collation)
      [] OTHER -> settings

\* Mutant: the collation is not compared.
NoActionNeededByCharset(spec) == spec.charset = settings.charset

NoActionNeeded(spec) == Setting(spec.charset, spec.collation) = settings

\* Every manager reconciles every Database; only mysql has defaults to set.
ReadSettings(m) ==
    /\ kind = "database"
    /\ Running(m) /\ sw[m].pc = "idle" /\ dobj[Target].exists
    /\ sw' = [sw EXCEPT ![m] = [pc |-> "compare", spec |-> dobj[Target].spec]]
    /\ UNCHANGED <<kind, dvars, settings, ovars, w, content, mvars, changes, faults, removed>>

CompareSettings(m) ==
    /\ Running(m) /\ sw[m].pc = "compare"
    /\ sw' = IF NoActionNeeded(sw[m].spec) THEN [sw EXCEPT ![m] = IdleSchema]
                                           ELSE [sw EXCEPT ![m].pc = "alter"]
    /\ UNCHANGED <<kind, dvars, settings, ovars, w, content, mvars, changes, faults, removed>>

AlterDatabase(m) ==
    /\ Running(m) /\ sw[m].pc = "alter"
    /\ settings' = Resolved(sw[m].spec)
    /\ sw' = [sw EXCEPT ![m] = IdleSchema]
    /\ UNCHANGED <<kind, dvars, ovars, w, content, mvars, changes, faults, removed>>

ControlStep ==
    \/ ReadDatabase
    \/ ReconcileRBAC
    \/ GetStatefulSet
    \/ WriteStatefulSet

SchemaStep(m) == ReadSettings(m) \/ CompareSettings(m) \/ AlterDatabase(m)
=============================================================================
