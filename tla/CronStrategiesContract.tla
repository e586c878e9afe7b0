------------------------ MODULE CronStrategiesContract ------------------------
(***************************************************************************)
(* How the cron strategies keep their promises: CronStrategies implements  *)
(* CronContract, with the objects at the API server, version numbers       *)
(* aside, and the IdlingResource in the worker's memory as its order.      *)
(***************************************************************************)
EXTENDS CronStrategies

AskedBy(o) == [live |-> o.live, deleting |-> o.deleting, fin |-> o.fin,
               uid |-> o.uid, want |-> o.want]

Content(o) == [live |-> o.live, owner |-> o.owner, uid |-> o.uid,
               names |-> o.names, sched |-> o.sched]

(* Nothing of the IdlingResource is in memory.                             *)
Orderless == {"Free", "GetIdlingResource", "Ok", "RequeueAfter", "Err"}

(* The parts from the one ReconcileCronStrategies has got to.              *)
Todo == IF wk.call = "AddFinalizer" THEN Parts
        ELSE IF wk.call = "ReconcileWithIdler" THEN {}
        ELSE CASE wk.part = "sa"     -> Parts
               [] wk.part = "role"   -> Parts \ {"sa"}
               [] wk.part = "rb"     -> {"rb"} \cup Commands
               [] wk.part = "idle"   -> Commands
               [] wk.part = "wakeup" -> {"wakeup"}

Order == IF wk.call \in Orderless THEN [key |-> None]
         ELSE [key |-> wk.key, inst |-> AskedBy(wk.ir), todo |-> Todo]

Asked == [i \in IRs |-> AskedBy(ir[i])]
Owned == [k \in Slots |-> Content(obj[k])]

Contract == INSTANCE CronContract WITH asked <- Asked, owned <- Owned, order <- Order

(* Every write of the operator is asked for by an order it has taken, is   *)
(* of the shape the contract allows, and undoes nothing that happened      *)
(* since the object it writes was read.                                    *)
ImplementsContract == Contract!Spec
=============================================================================
