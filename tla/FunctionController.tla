------------------------ MODULE FunctionController --------------------------
(***************************************************************************)
(* The function and the extension controller of every manager.  They are   *)
(* added to each manager without the name of its database, so all managers *)
(* of the namespace reconcile the same object, each on its own copy.      *)
(* The two differ in how they plan and in the status they may write.       *)
(***************************************************************************)
EXTENDS Fleet

NoContent == [exists |-> FALSE, as |-> "", returns |-> ""]

Held(body) == [exists |-> TRUE, as |-> body.as, returns |-> body.returns]

Reconciled(m) == kind \in {"function", "extension"} /\ Running(m)

\* Mutant: the finalizer goes first.
NextStepFinalizerFirst(o) ==
    CASE ~o.exists -> "idle"
      [] o.exists /\ o.deleting -> IF o.remove /\ o.finalizer THEN "take" ELSE "idle"
      [] o.exists /\ ~o.deleting -> IF o.remove /\ ~o.finalizer THEN "add" ELSE "connect"

\* What Reconcile does with the copy it was given.  A finalizer on an object
\* that does not ask for removal (any more) is left where it is.
NextStep(o) ==
    CASE ~o.exists -> "idle"
      [] o.exists /\ o.deleting -> IF o.remove /\ o.finalizer THEN "drop" ELSE "idle"
      [] o.exists /\ ~o.deleting -> IF o.remove /\ ~o.finalizer THEN "add" ELSE "connect"

Read(m) ==
    /\ Reconciled(m) /\ w[m].pc = "idle" /\ NextStep(obj) # "idle"
    /\ Take(m, NextStep(obj))
    /\ UNCHANGED <<kind, dvars, svars, obj, content, mvars, changes, faults, removed>>

AddFinalizer(m) ==
    /\ Reconciled(m) /\ w[m].pc = "add"
    /\ IF Accepted(m) THEN NewVersion([obj EXCEPT !.finalizer = TRUE]) /\ Done(m)
                      ELSE UNCHANGED obj /\ Return(m)
    /\ UNCHANGED <<kind, dvars, svars, content, mvars, changes, faults, removed>>

(***************************************************************************)
(* Removal: drop what the copy names, then take the finalizer off.         *)
(***************************************************************************)
\* Mutant: dropFunction fails without the Database.
PlanDropNeedsDatabase(m) ==
    /\ Reconciled(m) /\ w[m].pc = "drop" /\ dobj[Target].exists
    /\ Goto(m, IF content.exists THEN "execDrop" ELSE "take")
    /\ UNCHANGED <<kind, dvars, svars, ovars, content, mvars, changes, faults, removed>>

\* dropFunction: without the Database there is nothing to connect to, and
\* nothing to drop when introspection does not find it.
PlanDrop(m) ==
    /\ Reconciled(m) /\ w[m].pc = "drop"
    /\ Goto(m, IF dobj[Target].exists /\ content.exists THEN "execDrop" ELSE "take")
    /\ removed' = IF dobj[Target].exists THEN removed ELSE [removed EXCEPT !.skipped = TRUE]
    /\ UNCHANGED <<kind, dvars, svars, ovars, content, mvars, changes, faults>>

\* drop ... if exists
ExecDrop(m) ==
    /\ Reconciled(m) /\ w[m].pc = "execDrop"
    /\ content' = NoContent
    /\ Goto(m, "take")
    /\ UNCHANGED <<kind, dvars, svars, ovars, mvars, changes, faults, removed>>

\* The Update without the finalizer lets the API server remove the object.
TakeFinalizer(m) ==
    /\ Reconciled(m) /\ w[m].pc = "take"
    /\ IF Accepted(m)
       THEN /\ NewVersion(NoObject(obj.uid))
            /\ removed' = [removed EXCEPT !.finalized = TRUE]
            /\ Done(m)
       ELSE UNCHANGED <<obj, removed>> /\ Return(m)
    /\ UNCHANGED <<kind, dvars, svars, content, mvars, changes, faults>>

(***************************************************************************)
(* Creation.                                                               *)
(***************************************************************************)
\* Without the Database the object is tried again ten seconds later.
Connect(m) ==
    /\ Reconciled(m) /\ w[m].pc = "connect"
    /\ IF dobj[Target].exists THEN Goto(m, "plan") /\ UNCHANGED current ELSE Return(m)
    /\ UNCHANGED <<kind, dvars, svars, obj, content, mvars, changes, faults, removed>>

\* Compares the body's text, its language and its security, not what it returns.
functionDefinitionsEqual(body) == content.as = body.as

\* PlanPostgresFunction and PlanPostgresExtension: no statement.
NothingPlanned(body) ==
    content.exists /\ (kind = "function" => functionDefinitionsEqual(body))

PlanCreate(m) ==
    /\ Reconciled(m) /\ w[m].pc = "plan"
    /\ Goto(m, IF NothingPlanned(w[m].copy.body) THEN "status" ELSE "apply")
    /\ UNCHANGED <<kind, dvars, svars, ovars, content, mvars, changes, faults, removed>>

\* "create or replace function" cannot change what the function returns;
\* "create extension if not exists" leaves one that is there as it is.
Replaceable(body) == content.exists => content.returns = body.returns

Applied(body) == IF kind = "extension" /\ content.exists THEN content ELSE Held(body)

\* The object is gone, or going, while a worker still holds an older copy.
Late == ~obj.exists \/ obj.deleting

Apply(m) ==
    /\ Reconciled(m) /\ w[m].pc = "apply"
    /\ LET body == w[m].copy.body IN
         IF kind = "extension" \/ Replaceable(body)
         THEN content' = Applied(body) /\ Goto(m, "status")
         ELSE UNCHANGED content /\ Goto(m, "failed")
    /\ removed' = [removed EXCEPT !.late = @ \/ Late]
    /\ UNCHANGED <<kind, dvars, svars, ovars, mvars, changes, faults>>

\* A statement that fails, or a connection that is lost.
ApplyFails(m) ==
    /\ Reconciled(m) /\ w[m].pc \in {"execDrop", "apply"} /\ faults < MaxFaults(kind)
    /\ faults' = faults + 1
    /\ IF w[m].pc = "apply" THEN Goto(m, "failed") /\ UNCHANGED current ELSE Return(m)
    /\ UNCHANGED <<kind, dvars, svars, obj, content, mvars, changes, removed>>

\* Applied or Failed, and when: a new version unless the second is the same.
\* The functions CRD has no status subresource: its write is refused.
WriteStatus(m) ==
    /\ Reconciled(m) /\ w[m].pc \in {"status", "failed"}
    /\ \/ kind = "extension" /\ Accepted(m) /\ NewVersion(obj) /\ Done(m)
       \/ UNCHANGED obj /\ Return(m)
    /\ UNCHANGED <<kind, dvars, svars, content, mvars, changes, faults, removed>>

FunctionStep(m) ==
    \/ Read(m) \/ AddFinalizer(m)
    \/ PlanDrop(m) \/ ExecDrop(m) \/ TakeFinalizer(m)
    \/ Connect(m) \/ PlanCreate(m) \/ Apply(m) \/ WriteStatus(m)
=============================================================================
