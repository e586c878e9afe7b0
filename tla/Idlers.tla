------------------------------- MODULE Idlers -------------------------------
(***************************************************************************)
(* The data the kidle operator works on, and the pure part of its code:    *)
(* the three idlers (Deployment, StatefulSet, CronJob), the annotations    *)
(* they leave on a workload, the event filter and the event mapper.        *)
(*                                                                         *)
(* How far a workload is switched on is one number, its level: for a       *)
(* Deployment or a StatefulSet spec.replicas, for a CronJob 0 when         *)
(* spec.suspend is true and 1 when it is false.  The expected-state        *)
(* annotation holds a level written the same way ("0"/"true" is level 0).  *)
(***************************************************************************)
EXTENDS ApiServer

CONSTANTS
    IRs,        \* names of IdlingResources
    Workloads,  \* names of workloads an IdlingResource may refer to
    KindOf,     \* the idlingResourceRef.kind each workload is referred to by
    None        \* an annotation that is not there

ASSUME NoneAssumption == None \notin Nat /\ None \notin IRs
ASSUME WorkloadsAssumption == Workloads # {} /\ KindOf \in [Workloads -> STRING]

(* The kinds Reconcile has a case for; any other kind falls through it.    *)
SupportedKinds == {"Deployment", "StatefulSet", "CronJob"}

-----------------------------------------------------------------------------
(* The two kinds of object the operator reconciles, as the API server      *)
(* stores them.                                                            *)

IRObject == [live : BOOLEAN, idle : BOOLEAN, ref : Workloads,
             deleting : BOOLEAN, fin : BOOLEAN, rv : Nat]

WorkloadObject == [live : BOOLEAN, level : Nat, ref : IRs \cup {None},
                   prev : Nat \cup {None}, exp : Nat \cup {None}, rv : Nat]

NoIR == [live |-> FALSE, idle |-> FALSE, ref |-> CHOOSE w \in Workloads : TRUE,
         deleting |-> FALSE, fin |-> FALSE, rv |-> 0]

NoWorkload == [live |-> FALSE, level |-> 0, ref |-> None,
               prev |-> None, exp |-> None, rv |-> 0]

-----------------------------------------------------------------------------
(* The idlers.                                                             *)

(* Mutant: a workload that is down already is idled again.                 *)
DeploymentNeedIdleAlways(inst, o) == inst.idle

DeploymentNeedIdle(inst, o)   == inst.idle /\ o.level > 0
DeploymentNeedWakeup(inst, o) == ~inst.idle /\ o.level = 0

(* Mutant: replicas saved after they were zeroed.                          *)
DeploymentIdleSavesZero(o) == [o EXCEPT !.prev = 0, !.exp = 0, !.level = 0]

DeploymentIdle(o) == [o EXCEPT !.prev = o.level, !.exp = 0, !.level = 0]

(* Mutants: the saved replicas used unchecked, or not at all.              *)
DeploymentWakeupLevelUnchecked(o) == o.prev
DeploymentWakeupLevelOne(o)       == 1

(* The level Wakeup restores, decided on the copy read before its retry    *)
(* loop: the saved replicas, or 1 if none were saved.                      *)
DeploymentWakeupLevel(o) == IF o.prev = None THEN 1 ELSE o.prev

(* Mutant: the saved replicas not used.                                    *)
StatefulSetWakeupLevelOne(o) == 1

StatefulSetNeedIdle(inst, o)   == DeploymentNeedIdle(inst, o)
StatefulSetNeedWakeup(inst, o) == DeploymentNeedWakeup(inst, o)
StatefulSetIdle(o)             == DeploymentIdle(o)
StatefulSetWakeupLevel(o)      == DeploymentWakeupLevel(o)

CronJobNeedIdle(inst, o)   == inst.idle /\ o.level = 1
CronJobNeedWakeup(inst, o) == ~inst.idle /\ o.level = 0
CronJobIdle(o)             == [o EXCEPT !.exp = 0, !.level = 0]
CronJobWakeupLevel(o)      == 1

(* A CronJob that is not suspended is not written by Wakeup.  The check    *)
(* the two other idlers make there compares pointers and never skips.      *)
CronJobWakeupSkips(o)      == o.level > 0

NeedIdle(kind, inst, o) ==
    CASE kind = "Deployment"  -> DeploymentNeedIdle(inst, o)
      [] kind = "StatefulSet" -> StatefulSetNeedIdle(inst, o)
      [] kind = "CronJob"     -> CronJobNeedIdle(inst, o)

NeedWakeup(kind, inst, o) ==
    CASE kind = "Deployment"  -> DeploymentNeedWakeup(inst, o)
      [] kind = "StatefulSet" -> StatefulSetNeedWakeup(inst, o)
      [] kind = "CronJob"     -> CronJobNeedWakeup(inst, o)

IdleEdit(kind, o) ==
    CASE kind = "Deployment"  -> DeploymentIdle(o)
      [] kind = "StatefulSet" -> StatefulSetIdle(o)
      [] kind = "CronJob"     -> CronJobIdle(o)

WakeupLevel(kind, o) ==
    CASE kind = "Deployment"  -> DeploymentWakeupLevel(o)
      [] kind = "StatefulSet" -> StatefulSetWakeupLevel(o)
      [] kind = "CronJob"     -> CronJobWakeupLevel(o)

WakeupSkips(kind, o) == kind = "CronJob" /\ CronJobWakeupSkips(o)

(* Mutant: expected state not written.                                     *)
WakeupEditUnexpected(o, level) == [o EXCEPT !.level = level]

WakeupEdit(o, level) == [o EXCEPT !.exp = level, !.level = level]

SetReferenceEdit(o, name) == [o EXCEPT !.ref = name]

RemoveAnnotationsEdit(o) == [o EXCEPT !.ref = None, !.prev = None, !.exp = None]

(* Mutant: the check on the reference forgotten.                           *)
HasAnnotationsToRemovePrevOnly(o) == o.prev # None

(* What makes RemoveAnnotations write at all; the expected state alone     *)
(* does not.                                                               *)
HasAnnotationsToRemove(o) == o.ref # None \/ o.prev # None

-----------------------------------------------------------------------------
(* Watches.                                                                *)

(* The filter on updates of workloads: only a workload that already had a  *)
(* reference and has left its expected state is of interest.               *)
KidleChangedPredicate(old, new) ==
    /\ old.ref # None
    /\ new.exp # None
    /\ new.level # new.exp

objectForIdlingResourceMapper(o) == IF o.ref = None THEN {} ELSE {o.ref}

(* The reconcile requests one watch event of a workload gives rise to.     *)
WorkloadRequests(old, new) ==
    IF old.live /\ new.live
    THEN IF KidleChangedPredicate(old, new)
         THEN objectForIdlingResourceMapper(old) \cup objectForIdlingResourceMapper(new)
         ELSE {}
    ELSE IF new.live THEN objectForIdlingResourceMapper(new)
    ELSE IF old.live THEN objectForIdlingResourceMapper(old)
    ELSE {}
=============================================================================
