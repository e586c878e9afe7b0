------------------------ MODULE KidleOperatorRefinement ------------------------
(***************************************************************************)
(* The operator keeps the contract of IdleContract, for every value of the *)
(* constants: ImplementsContract is a theorem.  Each step of KidleOperator *)
(* is shown to be, under the mapping of KidleOperatorContract, a step of   *)
(* the contract or none.                                                   *)
(***************************************************************************)
EXTENDS KidleOperatorContract, KidleOperatorRelease

-----------------------------------------------------------------------------
(* The mapping.                                                            *)

(* What is not written looks the same through the mapping.                 *)
LEMMA UnchangedMapped ==
  /\ UNCHANGED ir => UNCHANGED Asked
  /\ UNCHANGED wl => UNCHANGED Load
  /\ UNCHANGED wk => UNCHANGED Order
  BY DEF Asked, Load, Order

(* A write changes one object: version numbers are not seen.               *)
LEMMA WriteIRMapped ==
  ASSUME TypeOK, NEW i \in IRs, NEW obj \in IRObject, WriteIR(i, obj)
  PROVE  Asked' = [Asked EXCEPT ![i] = AskedBy(obj)]
<1>1. ir \in [IRs -> IRObject] /\ ir' = [ir EXCEPT ![i] = NextVersion(ir[i], obj)]
  BY DEF TypeOK, WriteIR
<1>2. AskedBy(NextVersion(ir[i], obj)) = AskedBy(obj)
  BY DEF AskedBy, NextVersion, IRObject
<1>3. \A j \in IRs : AskedBy(ir'[j]) = IF j = i THEN AskedBy(obj) ELSE AskedBy(ir[j])
  BY <1>1, <1>2
<1> QED BY <1>3 DEF Asked

(* The same for workloads.                                                 *)
LEMMA WriteWorkloadMapped ==
  ASSUME TypeOK, NEW w \in Workloads, NEW obj \in WorkloadObject, WriteWorkload(w, obj)
  PROVE  Load' = [Load EXCEPT ![w] = LoadOf(obj)]
<1>1. wl \in [Workloads -> WorkloadObject] /\ wl' = [wl EXCEPT ![w] = NextVersion(wl[w], obj)]
  BY DEF TypeOK, WriteWorkload
<1>2. LoadOf(NextVersion(wl[w], obj)) = LoadOf(obj)
  BY DEF LoadOf, NextVersion, WorkloadObject
<1>3. \A v \in Workloads : LoadOf(wl'[v]) = IF v = w THEN LoadOf(obj) ELSE LoadOf(wl[v])
  BY <1>1, <1>2
<1> QED BY <1>3 DEF Load

(* A reconciliation that goes on keeps its order, or is done with it.      *)
LEMMA ContinuesMapped ==
  ASSUME wk.call \notin Orderless, wk'.key = wk.key, wk'.ir = wk.ir
  PROVE  Order' \in {Order, Contract!NoOrder}
  BY DEF Order, Contract!NoOrder

(* One that ends has none.                                                 *)
LEMMA EndsMapped ==
  ASSUME wk'.call \in Orderless
  PROVE  Order' = Contract!NoOrder
  BY DEF Order, Contract!NoOrder

-----------------------------------------------------------------------------
(* Users.                                                                  *)

(* A user's edit of an IdlingResource is one the contract knows.           *)
LEMMA UserAsksMapped ==
  ASSUME TypeOK, NEW i \in IRs, CreateIR(i) \/ SetIdle(i) \/ EditRef(i) \/ DeleteIR(i)
  PROVE  Contract!UserAsks(i)
<1>1. ir \in [IRs -> IRObject] /\ ir[i] \in IRObject
  BY DEF TypeOK
<1>2. \E obj \in IRObject :
         /\ UserWritesIR(i, obj)
         /\ \/ ~ir[i].live /\ obj.live /\ ~obj.fin /\ ~obj.deleting
            \/ ir[i].live /\ obj.live /\ obj.fin = ir[i].fin
            \/ ir[i].live /\ ~ir[i].fin /\ ~obj.live
  <2>1. CASE CreateIR(i)
    <3>1. PICK idle \in BOOLEAN, w \in Workloads : UserWritesIR(i, NewIR(idle, w))
      BY <2>1 DEF CreateIR
    <3>2. NewIR(idle, w) \in IRObject
      BY NewObjects
    <3>3. NewIR(idle, w).live /\ ~NewIR(idle, w).fin /\ ~NewIR(idle, w).deleting
      BY DEF NewIR, NoIR
    <3> QED BY <2>1, <3>1, <3>2, <3>3 DEF CreateIR
  <2>2. CASE SetIdle(i)
    <3>1. [ir[i] EXCEPT !.idle = ~@] \in IRObject
      BY <1>1 DEF IRObject
    <3> QED BY <1>1, <2>2, <3>1 DEF SetIdle, IRObject
  <2>3. CASE EditRef(i)
    <3>1. PICK w \in Workloads : UserWritesIR(i, [ir[i] EXCEPT !.ref = w])
      BY <2>3 DEF EditRef
    <3>2. [ir[i] EXCEPT !.ref = w] \in IRObject
      BY <1>1 DEF IRObject
    <3> QED BY <1>1, <2>3, <3>1, <3>2 DEF EditRef, IRObject
  <2>4. CASE DeleteIR(i)
    <3>1. [ir[i] EXCEPT !.deleting = TRUE] \in IRObject /\ Removed(ir[i]) \in IRObject
      BY <1>1 DEF IRObject, Removed
    <3>2. CASE ir[i].fin
      BY <1>1, <2>4, <3>1, <3>2 DEF DeleteIR, IRObject
    <3>3. CASE ~ir[i].fin
      BY <1>1, <2>4, <3>1, <3>3 DEF DeleteIR, Removed, IRObject
    <3> QED BY <3>2, <3>3
  <2> QED BY <2>1, <2>2, <2>3, <2>4
<1>3. PICK obj \in IRObject :
         /\ UserWritesIR(i, obj)
         /\ \/ ~ir[i].live /\ obj.live /\ ~obj.fin /\ ~obj.deleting
            \/ ir[i].live /\ obj.live /\ obj.fin = ir[i].fin
            \/ ir[i].live /\ ~ir[i].fin /\ ~obj.live
  BY <1>2
<1>4. UNCHANGED <<Load, Order>>
  BY <1>3, UnchangedMapped DEF UserWritesIR, wlVars
<1>5. Asked' = [Asked EXCEPT ![i] = AskedBy(obj)] /\ Asked[i] = AskedBy(ir[i])
  BY <1>3, WriteIRMapped DEF UserWritesIR, Asked
<1>6. Asked'[i] = AskedBy(obj) /\ Asked' = [Asked EXCEPT ![i] = Asked'[i]]
  BY <1>5 DEF Asked
<1> QED BY <1>3, <1>4, <1>5, <1>6 DEF Contract!UserAsks, AskedBy

(* So is one of a workload.                                                *)
LEMMA UserScalesMapped ==
  ASSUME TypeOK, NEW w \in Workloads,
         CreateWorkload(w) \/ ScaleWorkload(w) \/ TouchWorkload(w) \/ DeleteWorkload(w)
  PROVE  Contract!UserScales(w)
<1>1. wl \in [Workloads -> WorkloadObject] /\ wl[w] \in WorkloadObject /\ LevelsOf(w) \subseteq Nat
  BY LevelsAssumption DEF TypeOK, LevelsOf
<1> DEFINE Kept(obj) == /\ obj.live = wl[w].live /\ obj.ref = wl[w].ref
                        /\ obj.prev = wl[w].prev /\ obj.exp = wl[w].exp
<1>2. \E obj \in WorkloadObject :
         /\ UserWritesWorkload(w, obj)
         /\ \/ /\ ~wl[w].live /\ obj.live
               /\ obj.ref = None /\ obj.prev = None /\ obj.exp = None
            \/ wl[w].live /\ Kept(obj)
            \/ wl[w].live /\ ~obj.live
  <2>1. CASE CreateWorkload(w)
    <3>1. PICK n \in Nat : UserWritesWorkload(w, NewWorkload(n))
      BY <1>1, <2>1 DEF CreateWorkload
    <3>2. NewWorkload(n) \in WorkloadObject
      BY NewObjects
    <3>3. /\ NewWorkload(n).live /\ NewWorkload(n).ref = None
          /\ NewWorkload(n).prev = None /\ NewWorkload(n).exp = None
      BY DEF NewWorkload, NoWorkload
    <3> QED BY <2>1, <3>1, <3>2, <3>3 DEF CreateWorkload
  <2>2. CASE ScaleWorkload(w)
    <3>1. PICK n \in Nat : UserWritesWorkload(w, [wl[w] EXCEPT !.level = n])
      BY <1>1, <2>2 DEF ScaleWorkload
    <3>2. [wl[w] EXCEPT !.level = n] \in WorkloadObject /\ Kept([wl[w] EXCEPT !.level = n])
      BY <1>1 DEF WorkloadObject
    <3> QED BY <2>2, <3>1, <3>2 DEF ScaleWorkload
  <2>3. CASE TouchWorkload(w)
    <3>1. [wl[w] EXCEPT !.rv = @ + 1] \in WorkloadObject /\ Kept([wl[w] EXCEPT !.rv = @ + 1])
      BY <1>1 DEF WorkloadObject
    <3> QED BY <2>3, <3>1 DEF TouchWorkload
  <2>4. CASE DeleteWorkload(w)
    <3>1. ~NoWorkload.live
      BY DEF NoWorkload
    <3> QED BY <2>4, <3>1, NullObjects DEF DeleteWorkload
  <2> QED BY <2>1, <2>2, <2>3, <2>4
<1>3. PICK obj \in WorkloadObject :
         /\ UserWritesWorkload(w, obj)
         /\ \/ /\ ~wl[w].live /\ obj.live
               /\ obj.ref = None /\ obj.prev = None /\ obj.exp = None
            \/ wl[w].live /\ Kept(obj)
            \/ wl[w].live /\ ~obj.live
  BY <1>2
<1>4. UNCHANGED <<Asked, Order>>
  BY <1>3, UnchangedMapped DEF UserWritesWorkload, irVars
<1>5. Load' = [Load EXCEPT ![w] = LoadOf(obj)] /\ Load[w] = LoadOf(wl[w])
  BY <1>3, WriteWorkloadMapped DEF UserWritesWorkload, Load
<1>6. /\ Load'[w] = LoadOf(obj) /\ Load' = [Load EXCEPT ![w] = Load'[w]]
  BY <1>5 DEF Load
<1>7. Kept(obj) => Load' = [Load EXCEPT ![w].level = Load'[w].level]
  <2> HAVE Kept(obj)
  <2>1. LoadOf(obj) = [LoadOf(wl[w]) EXCEPT !.level = LoadOf(obj).level]
    BY DEF LoadOf
  <2> QED BY <1>5, <1>6, <2>1
<1> QED BY <1>3, <1>4, <1>5, <1>6, <1>7 DEF Contract!UserScales, Contract!Unmarked, LoadOf

-----------------------------------------------------------------------------
(* The worker.                                                             *)

(* The read of the IdlingResource is where the order is taken.             *)
LEMMA TakeOrderMapped ==
  ASSUME Typed, IRWatchesInv, GetIdlingResource
  PROVE  \/ \E i \in IRs : Contract!TakeOrder(i)
         \/ UNCHANGED Contract!contractVars
<1> DEFINE i == wk.key  inst == irCache[i]
<1>1. /\ i \in IRs /\ wk.call = "GetIdlingResource" /\ Order = Contract!NoOrder
      /\ inst \in IRObject /\ WatchOf(ir[i], irWatch[i], inst)
  BY DEF Typed, TypeOK, GetIdlingResource, IRWatchesInv, Order, Orderless, Contract!NoOrder
<1>2. UNCHANGED <<Asked, Load>>
  BY UnchangedMapped DEF GetIdlingResource, irVars, wlVars
<1>3. CASE ~inst.live
  <2>1. wk'.call = "Ok"
    BY <1>3 DEF GetIdlingResource, Jump, FreeWorker
  <2> QED BY <1>1, <1>2, <2>1, EndsMapped DEF Orderless, Contract!contractVars
<1>4. CASE inst.live
  <2>1. /\ wk'.call \in {"AddFinalizer", "ReconcileCronStrategies"}
        /\ wk'.key = i /\ wk'.ir = inst
    BY <1>4 DEF GetIdlingResource, Jump, FreeWorker
  <2>2. Order' = [key |-> i, inst |-> AskedBy(inst)]
    BY <2>1 DEF Order, Orderless
  <2>3. FreshReads => Asked[i] = AskedBy(inst)
    BY <1>1 DEF GetIdlingResource, IRSynced, WatchOf, Asked
  <2>4. Order'.key = i /\ Order'.inst = AskedBy(inst) /\ AskedBy(inst).live
    BY <1>4, <2>2 DEF AskedBy
  <2>5. Order.key = None
    BY <1>1 DEF Contract!NoOrder
  <2>6. Contract!TakeOrder(i)
    BY <1>2, <2>3, <2>4, <2>5 DEF Contract!TakeOrder
  <2> QED BY <1>1, <2>6
<1> QED BY <1>3, <1>4

(* The finalizer is added under an order that is the stored version.       *)
LEMMA FinalizeMapped ==
  ASSUME Typed, WorkerInv, AddFinalizer
  PROVE  (\E i \in IRs : Contract!Finalize(i)) \/ Contract!DropOrder
<1> DEFINE i == wk.key  obj == [wk.ir EXCEPT !.fin = TRUE]
<1>1. /\ i \in IRs /\ wk.ir \in IRObject /\ ir \in [IRs -> IRObject] /\ TypeOK
      /\ wk.call = "AddFinalizer" /\ Order = [key |-> i, inst |-> AskedBy(wk.ir)]
  BY WorkerFacts DEF Typed, TypeOK, AddFinalizer, Order, Orderless
<1>2. UNCHANGED Load
  BY UnchangedMapped DEF AddFinalizer, wlVars
<1>3. CASE CanUpdate(ir[i], wk.ir)
  <2>1. ir[i] = wk.ir
    BY <1>1, <1>3, AcceptedIsStored DEF WorkerInv
  <2>2. /\ obj \in IRObject /\ AskedBy(obj).fin
        /\ AskedBy(obj) = [AskedBy(wk.ir) EXCEPT !.fin = AskedBy(obj).fin]
    <3>1. /\ obj \in IRObject /\ obj.live = wk.ir.live /\ obj.idle = wk.ir.idle
          /\ obj.ref = wk.ir.ref /\ obj.deleting = wk.ir.deleting
      BY <1>1 DEF IRObject
    <3>2. AskedBy(obj).fin
      BY <1>1 DEF AskedBy, IRObject
    <3> HIDE DEF obj
    <3>3. AskedBy(obj) = [AskedBy(wk.ir) EXCEPT !.fin = AskedBy(obj).fin]
      BY <3>1 DEF AskedBy
    <3> QED BY <3>1, <3>2, <3>3
  <2>3. WriteIR(i, obj) /\ wk' = Jump("ReconcileCronStrategies", NextVersion(ir[i], obj))
    BY <1>3 DEF AddFinalizer
  <2>4. /\ Asked' = [Asked EXCEPT ![i] = AskedBy(obj)] /\ Asked[i] = AskedBy(wk.ir)
        /\ Asked'[i] = AskedBy(obj)
    BY <1>1, <2>1, <2>2, <2>3, WriteIRMapped DEF Asked
  <2>5. AskedBy(NextVersion(ir[i], obj)) = AskedBy(obj)
    BY <1>1, <2>2 DEF AskedBy, NextVersion, IRObject
  <2>6. wk'.call = "ReconcileCronStrategies" /\ wk'.key = i /\ wk'.ir = NextVersion(ir[i], obj)
    BY <2>3 DEF Jump, FreeWorker
  <2>7. Order' = [key |-> i, inst |-> AskedBy(obj)]
    BY <2>5, <2>6 DEF Order, Orderless
  <2>8. Order' = [Order EXCEPT !.inst = Asked'[i]]
    BY <1>1, <2>4, <2>7
  <2>9. Contract!Finalize(i)
    <3>1. Asked' = [Asked EXCEPT ![i].fin = Asked'[i].fin]
      BY <2>2, <2>4
    <3> QED BY <1>1, <1>2, <2>2, <2>4, <2>8, <3>1 DEF Contract!Finalize
  <2> QED BY <1>1, <2>9
<1>4. CASE ~CanUpdate(ir[i], wk.ir)
  <2>1. UNCHANGED Asked /\ wk'.call = "Err"
    BY <1>4, UnchangedMapped DEF AddFinalizer, irVars, Jump, FreeWorker
  <2> QED BY <1>2, <2>1, EndsMapped DEF Contract!DropOrder, Orderless
<1> QED BY <1>3, <1>4

(* The finalizer goes under an order that is the stored version, too, and  *)
(* after the workload has been released.                                   *)
LEMMA RemoveMapped ==
  ASSUME Typed, WorkerInv, RemovalInv, RemoveFinalizer
  PROVE  (\E i \in IRs : Contract!Remove(i)) \/ Contract!DropOrder
<1> DEFINE i == wk.key  obj == Removed(wk.ir)
<1>1. /\ i \in IRs /\ wk.ir \in IRObject /\ ir \in [IRs -> IRObject] /\ TypeOK
      /\ wk.ir.ref \in Workloads /\ wl \in [Workloads -> WorkloadObject]
      /\ Order = [key |-> i, inst |-> AskedBy(wk.ir)]
  BY WorkerFacts DEF Typed, TypeOK, RemoveFinalizer, Order, Orderless
<1>2. UNCHANGED Load
  BY UnchangedMapped DEF RemoveFinalizer, wlVars
<1>3. wk'.call \in {"Ok", "Err"} /\ Order' = Contract!NoOrder
  <2>1. wk'.call \in {"Ok", "Err"}
    BY DEF RemoveFinalizer, Jump, FreeWorker
  <2> QED BY <2>1, EndsMapped DEF Orderless
<1>4. CASE CanUpdate(ir[i], wk.ir)
  <2>1. ir[i] = wk.ir
    BY <1>1, <1>4, AcceptedIsStored DEF WorkerInv, RemoveFinalizer
  <2>2. obj \in IRObject /\ ~AskedBy(obj).live
    BY <1>1 DEF IRObject, AskedBy, Removed
  <2>3. /\ Asked' = [Asked EXCEPT ![i] = AskedBy(obj)] /\ Asked[i] = AskedBy(wk.ir)
    BY <1>1, <1>4, <2>1, <2>2, WriteIRMapped DEF Asked, RemoveFinalizer
  <2>4. Asked'[i] = AskedBy(obj) /\ Asked' = [Asked EXCEPT ![i] = Asked'[i]]
    BY <1>1, <2>3 DEF Asked
  <2>5. wk.ir.deleting
    BY DEF Typed, CallInv, RemoveFinalizer
  <2>6. LET o == Load[wk.ir.ref] IN o.live => o.ref = None /\ o.prev = None
    BY <1>1 DEF RemovalInv, RemoveFinalizer, Marked, HasAnnotationsToRemove, Load, LoadOf
  <2>7. /\ Order.key = i /\ Order.inst = AskedBy(wk.ir)
        /\ AskedBy(wk.ir).ref = wk.ir.ref /\ AskedBy(wk.ir).deleting
    BY <1>1, <2>5 DEF AskedBy
  <2>8. Contract!Remove(i)
    BY <1>2, <1>3, <2>2, <2>3, <2>4, <2>6, <2>7 DEF Contract!Remove, Contract!Continues
  <2> QED BY <1>1, <2>8
<1>5. CASE ~CanUpdate(ir[i], wk.ir)
  <2>1. UNCHANGED Asked
    BY <1>5, UnchangedMapped DEF RemoveFinalizer, irVars
  <2> QED BY <1>2, <1>3, <2>1 DEF Contract!DropOrder
<1> QED BY <1>4, <1>5

(* A try of a retry loop that reads, fails or meets a conflict keeps the   *)
(* order, or gives it up ...                                               *)
TriesAgain == Contract!DropOrder \/ UNCHANGED Contract!contractVars

(* ... and one that succeeds has changed the workload of the order.        *)
LEMMA RetryPutMapped ==
  ASSUME Typed, WorkerInv, NEW call \in RetryCalls,
         NEW edited \in WorkloadObject, NEW next, Continues(next),
         RetryPut(call, edited, next)
  PROVE  \/ TriesAgain
         \/ /\ wk.wl = wl[wk.ir.ref] /\ Load[wk.ir.ref] = LoadOf(wk.wl)
            /\ Load' = [Load EXCEPT ![wk.ir.ref] = LoadOf(edited)]
            /\ Order.key = wk.key /\ Order.inst = AskedBy(wk.ir) /\ wk.key \in IRs
            /\ wk.ir.ref \in Workloads
            /\ Load[wk.ir.ref].live /\ Contract!Continues /\ UNCHANGED Asked
<1> DEFINE w == wk.ir.ref
<1>1. /\ w \in Workloads /\ TypeOK /\ wl \in [Workloads -> WorkloadObject]
      /\ wk \in Worker /\ wk.call \in RetryCalls /\ wk.call \notin Orderless
      /\ wk.key \in IRs /\ wk.phase = "put"
      /\ Order.key = wk.key /\ Order.inst = AskedBy(wk.ir)
  BY WorkerFacts DEF Typed, TypeOK, RetryPut, RetryCalls, Orderless, Order
<1>2. UNCHANGED Asked
  BY UnchangedMapped DEF RetryPut, irVars
<1>3. CASE CanUpdate(wl[w], wk.wl)
  <2>1. WriteWorkload(w, edited) /\ wk' = next
    BY <1>3 DEF RetryPut
  <2>2. wl[w] = wk.wl /\ Load[w] = LoadOf(wk.wl) /\ Load[w].live
    BY <1>1, <1>3, AcceptedIsStored DEF WorkerInv, CanUpdate, Load, LoadOf
  <2>3. Load' = [Load EXCEPT ![w] = LoadOf(edited)]
    BY <1>1, <2>1, WriteWorkloadMapped
  <2>4. wk'.key = wk.key /\ wk'.ir = wk.ir
    BY <2>1 DEF Continues
  <2>5. Contract!Continues
    BY <1>1, <2>4, ContinuesMapped DEF Contract!Continues
  <2> QED BY <1>1, <1>2, <2>2, <2>3, <2>5
<1>4. CASE ~CanUpdate(wl[w], wk.wl)
  <2>1. UNCHANGED Load
    BY <1>4, UnchangedMapped DEF RetryPut, wlVars
  <2>2. CASE wk' = Jump("Err", wk.ir)
    <3>1. wk'.call = "Err"
      BY <2>2 DEF Jump, FreeWorker
    <3> QED BY <1>2, <2>1, <3>1, EndsMapped DEF TriesAgain, Contract!DropOrder, Orderless
  <2>3. CASE wk' = [wk EXCEPT !.phase = "get", !.wl = NoWorkload, !.tries = wk.tries + 1]
    <3>1. wk'.call = wk.call /\ wk'.key = wk.key /\ wk'.ir = wk.ir
      BY <1>1, <2>3 DEF Worker
    <3>2. UNCHANGED Order
      BY <3>1 DEF Order
    <3> QED BY <1>2, <2>1, <3>2 DEF TriesAgain, Contract!contractVars
  <2> QED BY <1>4, <2>2, <2>3 DEF RetryPut
<1> QED BY <1>3, <1>4

(* The read of a retry loop.                                               *)
LEMMA RetryGetMapped ==
  ASSUME Typed, NEW call \in RetryCalls, RetryGet(call)
  PROVE  TriesAgain
<1>1. UNCHANGED <<Asked, Load>>
  BY UnchangedMapped DEF RetryGet, irVars, wlVars
<1>2. wk \in Worker
  BY DEF Typed, TypeOK
<1>3. CASE wk' = [wk EXCEPT !.phase = "put", !.wl = wlCache[wk.ir.ref]]
  <2>1. wk'.call = wk.call /\ wk'.key = wk.key /\ wk'.ir = wk.ir
    BY <1>2, <1>3 DEF Worker
  <2>2. UNCHANGED Order
    BY <2>1 DEF Order
  <2> QED BY <1>1, <2>2 DEF TriesAgain, Contract!contractVars
<1>4. CASE wk' = Jump("Err", wk.ir)
  <2>1. wk'.call = "Err"
    BY <1>4 DEF Jump, FreeWorker
  <2> QED BY <1>1, <2>1, EndsMapped DEF TriesAgain, Contract!DropOrder, Orderless
<1> QED BY <1>3, <1>4 DEF RetryGet

(* The contract's view of a workload, by its fields.                       *)
LoadType == [live : BOOLEAN, level : Nat, ref : IRs \cup {None},
             prev : Nat \cup {None}, exp : Nat \cup {None}]

(* Two views that agree on each field are the same.                        *)
LEMMA SameLoad ==
  ASSUME NEW x \in LoadType, NEW y \in LoadType, x.live = y.live, x.level = y.level,
         x.ref = y.ref, x.prev = y.prev, x.exp = y.exp
  PROVE  x = y
  BY DEF LoadType

(* A workload's view has its fields.                                       *)
LEMMA LoadFields ==
  ASSUME NEW o \in WorkloadObject
  PROVE  /\ LoadOf(o) \in LoadType
         /\ LoadOf(o).live = o.live /\ LoadOf(o).level = o.level /\ LoadOf(o).ref = o.ref
         /\ LoadOf(o).prev = o.prev /\ LoadOf(o).exp = o.exp
  BY DEF LoadOf, LoadType, WorkloadObject

(* What the idlers write is what the contract allows.                      *)
LEMMA EditsMapped ==
  ASSUME NEW o \in WorkloadObject, NEW kind \in SupportedKinds, NEW key \in IRs, NEW level \in Nat
  PROVE  /\ LoadOf(SetReferenceEdit(o, key)) = [LoadOf(o) EXCEPT !.ref = key]
         /\ LoadOf(WakeupEdit(o, level)) = [LoadOf(o) EXCEPT !.level = level, !.exp = level]
         /\ LoadOf(IdleEdit(kind, o)) =
              [LoadOf(o) EXCEPT !.level = 0, !.exp = 0,
                 !.prev = IF kind = "CronJob" THEN LoadOf(o).prev ELSE LoadOf(o).level]
         /\ LoadOf(RemoveAnnotationsEdit(o)) =
              [LoadOf(o) EXCEPT !.ref = None, !.prev = None, !.exp = None]
<1> DEFINE x == LoadOf(o)
<1>1. LoadOf(SetReferenceEdit(o, key)) = [x EXCEPT !.ref = key]
  <2> DEFINE e == SetReferenceEdit(o, key)  y == [x EXCEPT !.ref = key]
  <2>1. /\ e \in WorkloadObject /\ e.live = o.live /\ e.level = o.level /\ e.ref = key
        /\ e.prev = o.prev /\ e.exp = o.exp
    BY DEF SetReferenceEdit, WorkloadObject
  <2>2. /\ y \in LoadType /\ y.live = x.live /\ y.level = x.level /\ y.ref = key
        /\ y.prev = x.prev /\ y.exp = x.exp
    BY LoadFields DEF LoadType
  <2> HIDE DEF e, x, y
  <2>3. LoadOf(e) = y
    BY <2>1, <2>2, LoadFields, SameLoad DEF x
  <2> QED BY <2>3 DEF e, y
<1>2. LoadOf(WakeupEdit(o, level)) = [x EXCEPT !.level = level, !.exp = level]
  <2> DEFINE e == WakeupEdit(o, level)  y == [x EXCEPT !.level = level, !.exp = level]
  <2>1. /\ e \in WorkloadObject /\ e.live = o.live /\ e.level = level /\ e.ref = o.ref
        /\ e.prev = o.prev /\ e.exp = level
    BY DEF WakeupEdit, WorkloadObject
  <2>2. /\ y \in LoadType /\ y.live = x.live /\ y.level = level /\ y.ref = x.ref
        /\ y.prev = x.prev /\ y.exp = level
    BY LoadFields DEF LoadType
  <2> HIDE DEF e, x, y
  <2>3. LoadOf(e) = y
    BY <2>1, <2>2, LoadFields, SameLoad DEF x
  <2> QED BY <2>3 DEF e, y
<1>3. LoadOf(RemoveAnnotationsEdit(o)) = [x EXCEPT !.ref = None, !.prev = None, !.exp = None]
  <2> DEFINE e == RemoveAnnotationsEdit(o)
             y == [x EXCEPT !.ref = None, !.prev = None, !.exp = None]
  <2>1. /\ e \in WorkloadObject /\ e.live = o.live /\ e.level = o.level /\ e.ref = None
        /\ e.prev = None /\ e.exp = None
    BY DEF RemoveAnnotationsEdit, WorkloadObject
  <2>2. /\ y \in LoadType /\ y.live = x.live /\ y.level = x.level /\ y.ref = None
        /\ y.prev = None /\ y.exp = None
    BY LoadFields DEF LoadType
  <2> HIDE DEF e, x, y
  <2>3. LoadOf(e) = y
    BY <2>1, <2>2, LoadFields, SameLoad DEF x
  <2> QED BY <2>3 DEF e, y
<1>4. LoadOf(IdleEdit(kind, o)) =
        [x EXCEPT !.level = 0, !.exp = 0, !.prev = IF kind = "CronJob" THEN x.prev ELSE x.level]
  <2> DEFINE e == IdleEdit(kind, o)  saved == IF kind = "CronJob" THEN x.prev ELSE x.level
             y == [x EXCEPT !.level = 0, !.exp = 0, !.prev = saved]
  <2>1. /\ e.live = o.live /\ e.level = 0 /\ e.ref = o.ref
        /\ e.prev = (IF kind = "CronJob" THEN o.prev ELSE o.level) /\ e.exp = 0
    <3>1. CASE kind = "CronJob"
      BY <3>1 DEF IdleEdit, CronJobIdle, WorkloadObject
    <3>2. CASE kind # "CronJob"
      <4>1. e = DeploymentIdle(o)
        BY <3>2 DEF IdleEdit, StatefulSetIdle, SupportedKinds
      <4> QED BY <3>2, <4>1 DEF DeploymentIdle, WorkloadObject
    <3> QED BY <3>1, <3>2
  <2>2. e \in WorkloadObject
    BY EditTypes
  <2>3. saved \in Nat \cup {None} /\ saved = (IF kind = "CronJob" THEN o.prev ELSE o.level)
    BY LoadFields DEF WorkloadObject
  <2> HIDE DEF saved
  <2>4. /\ y \in LoadType /\ y.live = x.live /\ y.level = 0 /\ y.ref = x.ref
        /\ y.prev = saved /\ y.exp = 0
    BY <2>3, LoadFields DEF LoadType
  <2> HIDE DEF e, x, y
  <2>5. LoadOf(e) = y
    BY <2>1, <2>2, <2>3, <2>4, LoadFields, SameLoad DEF x
  <2> QED BY <2>5 DEF e, y, saved
<1> QED BY <1>1, <1>2, <1>3, <1>4

(* A step of one of the four retry loops.                                  *)
LEMMA RetryMapped ==
  ASSUME Typed, WorkerInv, SetReference \/ Wakeup \/ Idle \/ RemoveAnnotations
  PROVE  TriesAgain \/ \E w \in Workloads : Contract!ChangeWorkload(w)
<1> DEFINE w == wk.ir.ref
           stored(edited) == NextVersion(wl[w], edited)
<1>1. /\ TypeOK /\ wk.call \in RetryCalls /\ wk.call # "Free" /\ Kind \in SupportedKinds
      /\ w \in Workloads /\ wk.wl \in WorkloadObject /\ wk.target \in Nat
      /\ wk.key \in IRs /\ wl[w] \in WorkloadObject
  BY WorkerFacts DEF Typed, TypeOK, CallInv, SetReference, Wakeup, Idle, RemoveAnnotations,
                     RetryGet, RetryPut, RetryCalls
<1>2. \A edited \in WorkloadObject :
         /\ Continues(AfterSetReference(stored(edited))) /\ Continues(AfterWakeup(stored(edited)))
         /\ Continues(AfterIdle(stored(edited)))
         /\ wk.ir.deleting => Continues(AfterRemoveAnnotations(stored(edited)))
  <2> TAKE edited \in WorkloadObject
  <2>1. stored(edited) \in WorkloadObject
    BY <1>1, NextWorkloadType
  <2> QED BY <1>1, <2>1, ContinuationTypes
<1>3. /\ SetReferenceEdit(wk.wl, wk.key) \in WorkloadObject
      /\ WakeupEdit(wk.wl, wk.target) \in WorkloadObject
      /\ IdleEdit(Kind, wk.wl) \in WorkloadObject
      /\ RemoveAnnotationsEdit(wk.wl) \in WorkloadObject
  BY <1>1, EditTypes
<1> DEFINE Put(edited) ==
      /\ Load[w] = LoadOf(wk.wl)
      /\ Load' = [Load EXCEPT ![w] = LoadOf(edited)]
      /\ Order.key = wk.key /\ Order.inst = AskedBy(wk.ir)
      /\ Load[w].live /\ Contract!Continues /\ UNCHANGED Asked
<1>4. /\ \A n \in Workloads : wl[n] \in WorkloadObject
      /\ AskedBy(wk.ir).ref = w /\ AskedBy(wk.ir).idle = wk.ir.idle
      /\ AskedBy(wk.ir).deleting = wk.ir.deleting
      /\ Load \in [Workloads -> {LoadOf(o) : o \in WorkloadObject}]
  BY <1>1 DEF AskedBy, TypeOK, Load
<1>5. CASE SetReference
  <2> DEFINE edited == SetReferenceEdit(wk.wl, wk.key)
  <2>1. TriesAgain \/ Put(edited)
    BY <1>2, <1>3, <1>5, RetryGetMapped, RetryPutMapped DEF SetReference, RetryCalls
  <2>2. ASSUME Put(edited) PROVE Contract!ChangeWorkload(w)
    <3>1. LoadOf(edited) = [Load[w] EXCEPT !.ref = Order.key]
      <4>1. LoadOf(edited) = [LoadOf(wk.wl) EXCEPT !.ref = wk.key]
        BY <1>1, EditsMapped
      <4> QED BY <2>2, <4>1
    <3>2. Load' = [Load EXCEPT ![w] = [Load[w] EXCEPT !.ref = Order.key]]
      BY <2>2, <3>1
    <3>3. Contract!Claim(w)
      BY <3>2 DEF Contract!Claim
    <3> QED BY <1>1, <1>4, <2>2, <3>3 DEF Contract!ChangeWorkload
  <2> QED BY <1>1, <2>1, <2>2
<1>6. CASE Wakeup
  <2> DEFINE edited == WakeupEdit(wk.wl, wk.target)
  <2>1. TriesAgain \/ Put(edited)
    BY <1>2, <1>3, <1>6, RetryGetMapped, RetryPutMapped DEF Wakeup, RetryCalls
  <2>2. ASSUME Put(edited) PROVE Contract!ChangeWorkload(w)
    <3>1. wk.ir.deleting \/ ~wk.ir.idle
      BY <1>6 DEF Typed, CallInv, Wakeup, RetryGet, RetryPut
    <3>2. Load'[w] = LoadOf(edited) /\ LoadOf(edited).level = wk.target
      BY <1>1, <1>4, <2>2 DEF LoadOf, WakeupEdit, WorkloadObject
    <3>3. LoadOf(edited) = [Load[w] EXCEPT !.level = Load'[w].level, !.exp = Load'[w].level]
      <4>1. LoadOf(edited) = [LoadOf(wk.wl) EXCEPT !.level = wk.target, !.exp = wk.target]
        <5>1. Kind \in SupportedKinds /\ wk.key \in IRs
          BY <1>1
        <5>2. wk.wl \in WorkloadObject /\ wk.target \in Nat
          BY <1>1
        <5> QED BY <5>1, <5>2, EditsMapped
      <4>2. Load[w] = LoadOf(wk.wl) /\ Load'[w].level = wk.target
        BY <2>2, <3>2
      <4> QED BY <4>1, <4>2
    <3>4. Load' = [Load EXCEPT ![w] =
                     [@ EXCEPT !.level = Load'[w].level, !.exp = Load'[w].level]]
      BY <2>2, <3>3
    <3>5. Contract!Wake(w)
      BY <1>4, <2>2, <3>1, <3>4 DEF Contract!Wake
    <3> QED BY <1>1, <1>4, <2>2, <3>5 DEF Contract!ChangeWorkload
  <2> QED BY <1>1, <2>1, <2>2
<1>7. CASE Idle
  <2> DEFINE edited == IdleEdit(Kind, wk.wl)
  <2>1. TriesAgain \/ Put(edited)
    BY <1>2, <1>3, <1>7, RetryGetMapped, RetryPutMapped DEF Idle, RetryCalls
  <2>2. ASSUME Put(edited) PROVE Contract!ChangeWorkload(w)
    <3>1. wk.ir.idle /\ ~wk.ir.deleting
      BY <1>7 DEF Typed, CallInv, Idle, RetryGet, RetryPut
    <3>2. LoadOf(edited) =
            [Load[w] EXCEPT !.level = 0, !.exp = 0,
                            !.prev = IF KindOf[w] = "CronJob" THEN Load[w].prev
                                     ELSE Load[w].level]
      <4>1. LoadOf(edited) =
              [LoadOf(wk.wl) EXCEPT !.level = 0, !.exp = 0,
                 !.prev = IF Kind = "CronJob" THEN LoadOf(wk.wl).prev ELSE LoadOf(wk.wl).level]
        BY <1>1, EditsMapped
      <4> QED BY <2>2, <4>1 DEF Kind
    <3>3. Load' = [Load EXCEPT ![w] =
              [@ EXCEPT !.level = 0, !.exp = 0,
                        !.prev = IF KindOf[w] = "CronJob" THEN Load[w].prev ELSE Load[w].level]]
      BY <2>2, <3>2
    <3>4. Contract!Idle(w)
      BY <1>4, <2>2, <3>1, <3>3 DEF Contract!Idle
    <3> QED BY <1>1, <1>4, <2>2, <3>4 DEF Contract!ChangeWorkload
  <2> QED BY <1>1, <2>1, <2>2
<1>8. CASE RemoveAnnotations
  <2> DEFINE edited == RemoveAnnotationsEdit(wk.wl)
  <2>1. wk.ir.deleting
    BY <1>8 DEF Typed, CallInv, RemoveAnnotations, RetryGet, RetryPut
  <2>2. TriesAgain \/ Put(edited)
    BY <1>2, <1>3, <1>8, <2>1, RetryGetMapped, RetryPutMapped DEF RemoveAnnotations, RetryCalls
  <2>3. ASSUME Put(edited) PROVE Contract!ChangeWorkload(w)
    <3>1. Contract!Release(w)
      BY <1>1, <1>4, <2>1, <2>3, EditsMapped DEF Contract!Release
    <3> QED BY <1>1, <1>4, <2>3, <3>1 DEF Contract!ChangeWorkload
  <2> QED BY <1>1, <2>2, <2>3
<1> QED BY <1>5, <1>6, <1>7, <1>8

(* A step of the worker that writes neither kind of object.                *)
LEMMA LocalMapped ==
  ASSUME Typed, \/ ReconcileCronStrategies \/ GetWorkload \/ Fault
                \/ ReturnOk \/ ReturnRequeueAfter \/ ReturnErr \/ \E i \in IRs : Take(i)
  PROVE  TriesAgain
<1>1. TypeOK /\ UNCHANGED <<Asked, Load>>
  BY UnchangedMapped DEF Typed, ReconcileCronStrategies, GetWorkload, Fault, ReturnOk,
     ReturnRequeueAfter, ReturnErr, Take, irVars, wlVars
<1>2. CASE Order' = Contract!NoOrder \/ UNCHANGED Order
  BY <1>1, <1>2 DEF TriesAgain, Contract!DropOrder, Contract!contractVars
<1>3. CASE Fault \/ ReturnOk \/ ReturnRequeueAfter \/ ReturnErr
  <2>1. wk'.call \in {"Free", "Err"}
    <3>1. Jump("Err", wk.ir).call = "Err" /\ FreeWorker.call = "Free"
      BY DEF Jump, FreeWorker
    <3> QED BY <1>3, <3>1 DEF Fault, ReturnOk, ReturnRequeueAfter, ReturnErr
  <2> QED BY <1>2, <2>1, EndsMapped DEF Orderless
<1>4. CASE \E i \in IRs : Take(i)
  <2>1. wk'.call = "GetIdlingResource"
    BY <1>4 DEF Take, FreeWorker
  <2> QED BY <1>2, <2>1, EndsMapped DEF Orderless
<1>5. CASE ReconcileCronStrategies
  <2>1. wk'.key = wk.key /\ wk'.ir = wk.ir /\ wk.call \notin Orderless
    BY <1>5 DEF ReconcileCronStrategies, Jump, FreeWorker, Orderless
  <2> QED BY <1>2, <2>1, ContinuesMapped
<1>6. CASE GetWorkload
  <2>1. wk.call # "Free" /\ wk.call \notin Orderless /\ Kind \in SupportedKinds
    BY <1>6 DEF GetWorkload, Orderless, Typed, CallInv
  <2>2. wlCache[wk.ir.ref] \in WorkloadObject
    BY <1>1, WorkerFacts DEF TypeOK
  <2>3. Continues(wk')
    BY <1>1, <1>6, <2>1, <2>2, ContinuationTypes DEF GetWorkload
  <2> QED BY <1>2, <2>1, <2>3, ContinuesMapped DEF Continues
<1> QED BY <1>3, <1>4, <1>5, <1>6

-----------------------------------------------------------------------------
(* The refinement.                                                         *)

(* The operator starts as the contract does.                               *)
LEMMA ContractInit == Init => Contract!Init
<1> SUFFICES ASSUME Init PROVE Contract!Init
  OBVIOUS
<1>1. \A i \in IRs : ~Asked[i].fin /\ ~Asked[i].deleting
  <2>1. \A i \in IRs : ir[i] \in InitialIRs
    BY DEF Init
  <2>2. \A obj \in InitialIRs : ~obj.fin /\ ~obj.deleting
    <3>1. ~NoIR.fin /\ ~NoIR.deleting
      BY DEF NoIR
    <3>2. ASSUME NEW idle \in BOOLEAN, NEW w \in Workloads
          PROVE  LET obj == [NewIR(idle, w) EXCEPT !.rv = 1] IN ~obj.fin /\ ~obj.deleting
      <4>1. ~NewIR(idle, w).fin /\ ~NewIR(idle, w).deleting
        BY DEF NewIR, NoIR
      <4> QED BY <4>1, NewObjects DEF IRObject
    <3> QED
      <4> SUFFICES ASSUME NEW obj \in InitialIRs PROVE ~obj.fin /\ ~obj.deleting
        OBVIOUS
      <4>1. CASE obj = NoIR
        BY <3>1, <4>1
      <4>2. ASSUME NEW idle \in BOOLEAN, NEW w \in Workloads, obj = [NewIR(idle, w) EXCEPT !.rv = 1]
            PROVE  ~obj.fin /\ ~obj.deleting
        BY <3>2, <4>2
      <4> QED BY <4>1, <4>2 DEF InitialIRs
  <2> QED BY <2>1, <2>2 DEF Asked, AskedBy
<1>2. \A w \in Workloads : Contract!Unmarked(Load[w])
  <2>1. \A w \in Workloads : wl[w] \in InitialWorkloads(w)
    BY DEF Init
  <2>2. \A w \in Workloads : \A obj \in InitialWorkloads(w) :
           obj.ref = None /\ obj.prev = None /\ obj.exp = None
    <3>1. NoWorkload.ref = None /\ NoWorkload.prev = None /\ NoWorkload.exp = None
      BY DEF NoWorkload
    <3>2. \A n : LET obj == NewWorkload(n)
                 IN  obj.ref = None /\ obj.prev = None /\ obj.exp = None
      BY DEF NewWorkload, NoWorkload
    <3> QED BY <3>1, <3>2 DEF InitialWorkloads
  <2> QED BY <2>1, <2>2 DEF Load, LoadOf, Contract!Unmarked
<1>3. Order = Contract!NoOrder
  BY DEF Init, FreeWorker, Order, Orderless, Contract!NoOrder
<1> QED BY <1>1, <1>2, <1>3 DEF Contract!Init

(* Every step of the operator is one of the contract, or none.             *)
LEMMA ContractStep ==
  IInv /\ ReleaseInv /\ [Next]_vars => [Contract!Next]_(Contract!contractVars)
<1> SUFFICES ASSUME IInv, ReleaseInv, [Next]_vars
             PROVE  Contract!Next \/ UNCHANGED Contract!contractVars
  OBVIOUS
<1>1. Typed /\ TypeOK /\ IRWatchesInv /\ WorkerInv /\ RemovalInv
  BY DEF IInv, ReleaseInv, Typed
<1>2. CASE UNCHANGED <<ir, wl, wk>>
  BY <1>2, UnchangedMapped DEF Contract!contractVars
<1>3. CASE TriesAgain
  BY <1>3 DEF TriesAgain, Contract!Next
<1>4. CASE WorkerStep
  <2>1. CASE GetIdlingResource
    BY <1>1, <2>1, TakeOrderMapped DEF Contract!Next
  <2>2. CASE AddFinalizer
    BY <1>1, <2>2, FinalizeMapped DEF Contract!Next
  <2>3. CASE RemoveFinalizer
    BY <1>1, <2>3, RemoveMapped DEF Contract!Next
  <2>4. CASE SetReference \/ Wakeup \/ Idle \/ RemoveAnnotations
    BY <1>1, <1>3, <2>4, RetryMapped DEF Contract!Next
  <2> QED BY <1>1, <1>3, <1>4, <2>1, <2>2, <2>3, <2>4, LocalMapped DEF WorkerStep
<1>5. CASE Environment
  <2>1. CASE Resync
    BY <1>2, <2>1 DEF Resync, irVars, wlVars
  <2>2. CASE \E i \in IRs : CreateIR(i) \/ SetIdle(i) \/ EditRef(i) \/ DeleteIR(i)
    BY <1>1, <2>2, UserAsksMapped DEF Contract!Next
  <2>3. CASE \E w \in Workloads : \/ CreateWorkload(w) \/ ScaleWorkload(w)
                                  \/ TouchWorkload(w) \/ DeleteWorkload(w)
    BY <1>1, <2>3, UserScalesMapped DEF Contract!Next
  <2> QED BY <1>5, <2>1, <2>2, <2>3 DEF Environment
<1>6. CASE CrashRestart
  <2>1. UNCHANGED <<ir, wl>> /\ wk'.call = "Free"
    BY <1>6 DEF CrashRestart, FreeWorker
  <2>2. UNCHANGED <<Asked, Load>> /\ Order' = Contract!NoOrder
    BY <2>1, UnchangedMapped, EndsMapped DEF Orderless
  <2> QED BY <2>2 DEF Contract!Next, Contract!DropOrder
<1>7. CASE \/ \E i \in IRs : TimerFires(i) \/ DeliverIR(i)
           \/ \E w \in Workloads : DeliverWorkload(w)
  BY <1>2, <1>7 DEF TimerFires, DeliverIR, DeliverWorkload, irVars, wlVars
<1>8. CASE Fault \/ \E i \in IRs : Take(i)
  BY <1>1, <1>3, <1>8, LocalMapped
<1> QED BY <1>2, <1>4, <1>5, <1>6, <1>7, <1>8 DEF Next, vars, irVars, wlVars

(* The operator implements the contract: whatever Reconcile and the idlers *)
(* write, and whenever, is asked for by an IdlingResource they have read.  *)
THEOREM ContractImplemented == Spec => ImplementsContract
<1>1. Init => Contract!Init
  BY ContractInit
<1>2. IInv /\ ReleaseInv /\ [Next]_vars => [Contract!Next]_(Contract!contractVars)
  BY ContractStep
<1> QED BY <1>1, <1>2, Invariance, ReleaseInvariance, PTL
    DEF Spec, ImplementsContract, Contract!Spec
=============================================================================
