------------------------- MODULE KidleOperatorTyping -------------------------
(***************************************************************************)
(* KidleOperator is well-typed: for every set of IdlingResources and       *)
(* workloads, every assignment of kinds, stale and fresh reads, and every  *)
(* value of the bounds.  KidleOperatorSafety builds on the lemmas here.    *)
(***************************************************************************)
EXTENDS KidleOperator, TLAPS

(* Reconcile deals only with workloads of a kind it has an idler for, and  *)
(* each of its calls is asked for by the IdlingResource it holds.          *)
CallInv ==
    /\ wk.call \in RetryCalls \cup {"GetWorkload", "RemoveFinalizer"} => Kind \in SupportedKinds
    /\ wk.call = "Idle" => wk.ir.idle /\ ~wk.ir.deleting
    /\ wk.call = "Wakeup" => wk.ir.deleting \/ ~wk.ir.idle
    /\ wk.call \in {"RemoveAnnotations", "RemoveFinalizer"} => wk.ir.deleting

-----------------------------------------------------------------------------
(* Types of the objects and of the operators on them.                      *)

(* The objects that stand for "not there" are of the type of the others.   *)
LEMMA NullObjects == NoIR \in IRObject /\ NoWorkload \in WorkloadObject
  BY WorkloadsAssumption DEF NoIR, NoWorkload, IRObject, WorkloadObject

(* The objects users create have the type of their kind.                   *)
LEMMA NewObjects ==
  /\ \A idle \in BOOLEAN, w \in Workloads : NewIR(idle, w) \in IRObject
  /\ \A n \in Nat : NewWorkload(n) \in WorkloadObject
  BY NullObjects DEF NewIR, NewWorkload, IRObject, WorkloadObject

(* What the API server stores is of the type of what it is sent.           *)
LEMMA NextIRType ==
  ASSUME NEW stored \in IRObject, NEW obj \in IRObject
  PROVE  NextVersion(stored, obj) \in IRObject
  BY DEF NextVersion, IRObject

(* A new version of a workload is a workload.                              *)
LEMMA NextWorkloadType ==
  ASSUME NEW stored \in WorkloadObject, NEW obj \in WorkloadObject
  PROVE  NextVersion(stored, obj) \in WorkloadObject
  BY DEF NextVersion, WorkloadObject

(* The idlers turn workloads into workloads and restore a number.          *)
LEMMA EditTypes ==
  ASSUME NEW o \in WorkloadObject, NEW kind \in SupportedKinds
  PROVE  /\ IdleEdit(kind, o) \in WorkloadObject
         /\ WakeupLevel(kind, o) \in Nat
         /\ \A level \in Nat : WakeupEdit(o, level) \in WorkloadObject
         /\ \A i \in IRs : SetReferenceEdit(o, i) \in WorkloadObject
         /\ RemoveAnnotationsEdit(o) \in WorkloadObject
<1>1. IdleEdit(kind, o) \in WorkloadObject
  <2>1. DeploymentIdle(o) \in WorkloadObject /\ CronJobIdle(o) \in WorkloadObject
    BY DEF DeploymentIdle, CronJobIdle, WorkloadObject
  <2>2. IdleEdit(kind, o) \in {DeploymentIdle(o), CronJobIdle(o)}
    BY DEF IdleEdit, StatefulSetIdle, SupportedKinds
  <2> QED BY <2>1, <2>2
<1>2. WakeupLevel(kind, o) \in Nat
  BY DEF WakeupLevel, DeploymentWakeupLevel, StatefulSetWakeupLevel,
         CronJobWakeupLevel, SupportedKinds, WorkloadObject
<1>3. \A level \in Nat : WakeupEdit(o, level) \in WorkloadObject
  BY DEF WakeupEdit, WorkloadObject
<1>4. \A i \in IRs : SetReferenceEdit(o, i) \in WorkloadObject
  BY DEF SetReferenceEdit, WorkloadObject
<1>5. RemoveAnnotationsEdit(o) \in WorkloadObject
  BY DEF RemoveAnnotationsEdit, WorkloadObject
<1> QED BY <1>1, <1>2, <1>3, <1>4, <1>5

(* The mapper asks only for IdlingResources.                               *)
LEMMA RequestTypes ==
  ASSUME NEW old \in WorkloadObject, NEW new \in WorkloadObject
  PROVE  WorkloadRequests(old, new) \subseteq IRs
  BY DEF WorkloadRequests, objectForIdlingResourceMapper, WorkloadObject

(* Parts of the worker's next state.                                       *)
LEMMA JumpType ==
  ASSUME TypeOK, wk.call # "Free", NEW call \in Calls, NEW inst \in IRObject
  PROVE  /\ Jump(call, inst) \in Worker
         /\ Jump(call, inst).call = call
         /\ Jump(call, inst).key = wk.key
         /\ Jump(call, inst).ir = inst
         /\ Jump(call, inst).phase = "get"
  BY NullObjects DEF TypeOK, Jump, FreeWorker, Worker

(* Where a reconciliation may go next: on with the same copy of the        *)
(* IdlingResource, to a call that this copy asks for.                      *)
Continues(next) ==
    /\ next \in Worker
    /\ next.key = wk.key /\ next.ir = wk.ir /\ next.phase = "get"
    /\ next.call \notin {"Free", "GetIdlingResource", "Err"}
    /\ next.call \in {"RemoveAnnotations", "RemoveFinalizer"} => wk.ir.deleting
    /\ next.call = "Idle" => wk.ir.idle /\ ~wk.ir.deleting
    /\ next.call = "Wakeup" => wk.ir.deleting \/ ~wk.ir.idle

(* Each continuation of ReconcileWithIdler is one of these.                *)
LEMMA ContinuationTypes ==
  ASSUME TypeOK, wk.call # "Free", Kind \in SupportedKinds, NEW o \in WorkloadObject
  PROVE  /\ wk.ir.deleting => Continues(AfterRemoveAnnotations(o))
         /\ Continues(AfterWakeup(o))
         /\ Continues(AfterIdle(o))
         /\ Continues(AfterSetReference(o))
         /\ Continues(ReconcileWithIdler(o))
         /\ Continues(reconcileResourceNotFound(o))
<1> DEFINE To == {"Ok", "RequeueAfter", "SetReference"}
<1>1. wk.ir \in IRObject /\ wk.ir.idle \in BOOLEAN /\ wk.ir.deleting \in BOOLEAN
  BY DEF TypeOK, Worker, IRObject
<1>2. \A call \in To : Continues(Jump(call, wk.ir))
  <2> TAKE call \in To
  <2>1. call \in Calls
    BY DEF Calls, RetryCalls
  <2> QED BY <2>1, <1>1, JumpType DEF Continues
<1>3. \A call \in {"RemoveAnnotations", "RemoveFinalizer"} :
         wk.ir.deleting => Continues(Jump(call, wk.ir))
  <2> TAKE call \in {"RemoveAnnotations", "RemoveFinalizer"}
  <2>1. call \in Calls
    BY DEF Calls, RetryCalls
  <2> QED BY <2>1, <1>1, JumpType DEF Continues
<1>4. wk.ir.deleting => Continues(AfterRemoveAnnotations(o))
  BY <1>2, <1>3 DEF AfterRemoveAnnotations
<1>5. Continues(AfterWakeup(o))
  BY <1>2, <1>3, <1>4 DEF AfterWakeup
<1>6. wk.ir.deleting \/ ~wk.ir.idle => Continues(StartWakeup(o))
  <2> HAVE wk.ir.deleting \/ ~wk.ir.idle
  <2> DEFINE woken == [Jump("Wakeup", wk.ir) EXCEPT !.target = WakeupLevel(Kind, o)]
  <2>1. WakeupLevel(Kind, o) \in Nat /\ "Wakeup" \in Calls
    BY EditTypes DEF Calls, RetryCalls
  <2>2. Continues(woken)
    BY <1>1, <2>1, JumpType DEF Continues, Worker
  <2> QED BY <2>2, <1>5 DEF StartWakeup
<1>7. wk.ir.idle /\ ~wk.ir.deleting => Continues(Jump("Idle", wk.ir))
  <2> "Idle" \in Calls
    BY DEF Calls, RetryCalls
  <2> QED BY <1>1, JumpType DEF Continues
<1>8. /\ NeedWakeup(Kind, wk.ir, o) => ~wk.ir.idle
      /\ NeedIdle(Kind, wk.ir, o) => wk.ir.idle
  BY DEF NeedWakeup, NeedIdle, SupportedKinds, DeploymentNeedWakeup, StatefulSetNeedWakeup,
     CronJobNeedWakeup, DeploymentNeedIdle, StatefulSetNeedIdle, CronJobNeedIdle
<1>9. Continues(AfterSetReference(o))
  BY <1>2, <1>6, <1>7, <1>8 DEF AfterSetReference
<1> QED
  BY <1>2, <1>4, <1>5, <1>9 DEF AfterIdle, ReconcileWithIdler, reconcileResourceNotFound

-----------------------------------------------------------------------------
(* Type correctness.                                                       *)

IRTypes == /\ ir \in [IRs -> IRObject] /\ irCache \in [IRs -> IRObject]
           /\ irWatch \in [IRs -> Seq(IRObject)]

WorkloadTypes == /\ wl \in [Workloads -> WorkloadObject]
                 /\ wlCache \in [Workloads -> WorkloadObject]
                 /\ wlWatch \in [Workloads -> Seq(WorkloadObject)]

RunTypes == /\ queue \subseteq IRs /\ timers \subseteq IRs
            /\ fails \in [IRs -> 0 .. MaxBackoff]

WorkerTypes == /\ wk \in Worker
               /\ wk.call # "Free" => wk.key \in IRs

CountTypes == /\ acted \in [IRs -> Nat]
              /\ env \in 0 .. MaxEnv /\ faults \in 0 .. MaxFaults

(* TypeOK taken apart into what the worker, the objects and the runtime    *)
(* need.                                                                   *)
LEMMA TypeParts ==
  TypeOK <=> IRTypes /\ WorkloadTypes /\ RunTypes /\ WorkerTypes /\ CountTypes
  BY DEF TypeOK, IRTypes, WorkloadTypes, RunTypes, WorkerTypes, CountTypes

(* A write keeps the types of the store, of the watch and of the cache.    *)
LEMMA WriteIRTypes ==
  ASSUME IRTypes, NEW i \in IRs, NEW obj \in IRObject, WriteIR(i, obj)
  PROVE  IRTypes'
<1>1. NextVersion(ir[i], obj) \in IRObject
  BY NextIRType DEF IRTypes
<1>2. Append(irWatch[i], NextVersion(ir[i], obj)) \in Seq(IRObject)
  BY <1>1 DEF IRTypes
<1> QED BY <1>1, <1>2 DEF IRTypes, WriteIR

(* A write of a workload keeps the three variables about workloads         *)
(* typed.                                                                  *)
LEMMA WriteWorkloadTypes ==
  ASSUME WorkloadTypes, NEW w \in Workloads, NEW obj \in WorkloadObject,
         WriteWorkload(w, obj)
  PROVE  WorkloadTypes'
<1>1. NextVersion(wl[w], obj) \in WorkloadObject
  BY NextWorkloadType DEF WorkloadTypes
<1>2. Append(wlWatch[w], NextVersion(wl[w], obj)) \in Seq(WorkloadObject)
  BY <1>1 DEF WorkloadTypes
<1> QED BY <1>1, <1>2 DEF WorkloadTypes, WriteWorkload

(* What a step leaves alone stays typed.                                   *)
LEMMA UnchangedTypes ==
  /\ IRTypes /\ UNCHANGED irVars => IRTypes'
  /\ WorkloadTypes /\ UNCHANGED wlVars => WorkloadTypes'
  /\ RunTypes /\ UNCHANGED runVars => RunTypes'
  /\ WorkerTypes /\ UNCHANGED wk => WorkerTypes'
  /\ CountTypes /\ UNCHANGED <<acted, env, faults>> => CountTypes'
  BY DEF IRTypes, WorkloadTypes, RunTypes, WorkerTypes, CountTypes,
         irVars, wlVars, runVars

Typed == TypeOK /\ CallInv

(* The reference of the copy in memory names a workload.                   *)
LEMMA WorkerFacts ==
  ASSUME TypeOK
  PROVE  /\ wk.ir \in IRObject /\ wk.ir.ref \in Workloads
         /\ wk.wl \in WorkloadObject
         /\ wk.target \in Nat /\ wk.tries \in Nat
  BY DEF TypeOK, Worker, IRObject

(* A step of the worker that goes on leaves it well-typed and on a         *)
(* workload of a supported kind.                                           *)
LEMMA ContinuesTyped ==
  ASSUME TypeOK, wk.call # "Free", Kind \in SupportedKinds, Continues(wk')
  PROVE  WorkerTypes' /\ CallInv'
  BY DEF TypeOK, Continues, WorkerTypes, CallInv, Kind

(* So does one that ends it.                                               *)
LEMMA JumpTyped ==
  ASSUME TypeOK, wk.call # "Free", NEW inst \in IRObject,
         NEW call \in {"Ok", "Err", "AddFinalizer", "ReconcileCronStrategies"},
         wk' = Jump(call, inst)
  PROVE  WorkerTypes' /\ CallInv'
<1>1. call \in Calls
  BY DEF Calls, RetryCalls
<1>2. call \notin RetryCalls \cup {"GetWorkload"}
  BY DEF RetryCalls
<1> QED BY <1>1, <1>2, JumpType DEF TypeOK, WorkerTypes, CallInv

(* A worker without a request is a worker.                                 *)
LEMMA FreeTyped ==
  ASSUME wk' = FreeWorker
  PROVE  WorkerTypes' /\ CallInv'
  BY NullObjects DEF FreeWorker, Worker, WorkerTypes, CallInv, Calls, RetryCalls

(* The objects users send are objects.                                     *)
LEMMA UserTypes ==
  ASSUME TypeOK
  PROVE  /\ \A i \in IRs : CreateIR(i) \/ SetIdle(i) \/ EditRef(i) \/ DeleteIR(i)
               => \E obj \in IRObject : UserWritesIR(i, obj)
         /\ \A w \in Workloads : \/ CreateWorkload(w) \/ ScaleWorkload(w)
                                  \/ TouchWorkload(w) \/ DeleteWorkload(w)
               => \E obj \in WorkloadObject : UserWritesWorkload(w, obj)
<1>1. ASSUME NEW i \in IRs, CreateIR(i) \/ SetIdle(i) \/ EditRef(i) \/ DeleteIR(i)
      PROVE  \E obj \in IRObject : UserWritesIR(i, obj)
  <2>1. ir[i] \in IRObject
    BY DEF TypeOK
  <2>2. CASE CreateIR(i)
    BY <2>2, NewObjects DEF CreateIR
  <2>3. CASE SetIdle(i)
    <3>1. [ir[i] EXCEPT !.idle = ~@] \in IRObject
      BY <2>1 DEF IRObject
    <3> QED BY <3>1, <2>3 DEF SetIdle
  <2>4. CASE EditRef(i)
    <3>1. PICK w \in Workloads : UserWritesIR(i, [ir[i] EXCEPT !.ref = w])
      BY <2>4 DEF EditRef
    <3>2. [ir[i] EXCEPT !.ref = w] \in IRObject
      BY <2>1 DEF IRObject
    <3> QED BY <3>1, <3>2
  <2>5. CASE DeleteIR(i)
    <3>1. [ir[i] EXCEPT !.deleting = TRUE] \in IRObject /\ Removed(ir[i]) \in IRObject
      BY <2>1 DEF IRObject, Removed
    <3> QED BY <3>1, <2>5 DEF DeleteIR
  <2> QED BY <1>1, <2>2, <2>3, <2>4, <2>5
<1>2. ASSUME NEW w \in Workloads,
             CreateWorkload(w) \/ ScaleWorkload(w) \/ TouchWorkload(w) \/ DeleteWorkload(w)
      PROVE  \E obj \in WorkloadObject : UserWritesWorkload(w, obj)
  <2>1. wl[w] \in WorkloadObject /\ LevelsOf(w) \subseteq Nat
    BY LevelsAssumption DEF TypeOK, LevelsOf
  <2>2. CASE CreateWorkload(w)
    BY <2>1, <2>2, NewObjects DEF CreateWorkload
  <2>3. CASE ScaleWorkload(w)
    <3>1. PICK n \in LevelsOf(w) : UserWritesWorkload(w, [wl[w] EXCEPT !.level = n])
      BY <2>3 DEF ScaleWorkload
    <3>2. [wl[w] EXCEPT !.level = n] \in WorkloadObject
      BY <2>1 DEF WorkloadObject
    <3> QED BY <3>1, <3>2
  <2>4. CASE TouchWorkload(w)
    <3>1. [wl[w] EXCEPT !.rv = @ + 1] \in WorkloadObject
      BY <2>1 DEF WorkloadObject
    <3> QED BY <3>1, <2>4 DEF TouchWorkload
  <2>5. CASE DeleteWorkload(w)
    BY <2>5, NullObjects DEF DeleteWorkload
  <2> QED BY <1>2, <2>2, <2>3, <2>4, <2>5
<1> QED BY <1>1, <1>2

(* A try of a retry loop, and what it leaves behind.                       *)
LEMMA RetryTyped ==
  ASSUME Typed, NEW call \in RetryCalls,
         RetryGet(call)
  PROVE  IRTypes' /\ WorkloadTypes' /\ RunTypes' /\ WorkerTypes' /\ CountTypes' /\ CallInv'
<1>1. wk.call # "Free" /\ Kind \in SupportedKinds
  BY DEF Typed, CallInv, RetryGet, RetryCalls
<1>2. IRTypes' /\ WorkloadTypes' /\ RunTypes' /\ CountTypes'
  BY UnchangedTypes, TypeParts DEF Typed, RetryGet, wlVars
<1>3. CASE wlCache[wk.ir.ref].live
  <2>1. wlCache[wk.ir.ref] \in WorkloadObject
    BY WorkerFacts DEF Typed, TypeOK
  <2>2. wk' = [wk EXCEPT !.phase = "put", !.wl = wlCache[wk.ir.ref]]
    BY <1>3 DEF RetryGet
  <2>3. WorkerTypes' /\ CallInv'
    BY <2>1, <2>2, <1>1 DEF Typed, TypeOK, Worker, WorkerTypes, CallInv, Kind
  <2> QED BY <2>3, <1>2
<1>4. CASE ~wlCache[wk.ir.ref].live
  BY <1>1, <1>2, <1>4, JumpTyped, WorkerFacts DEF Typed, RetryGet
<1> QED BY <1>3, <1>4

(* The write of a RetryOnConflict loop keeps the types.                    *)
LEMMA RetryPutTyped ==
  ASSUME Typed, NEW call \in RetryCalls, wk.call = call, wk.phase = "put",
         NEW edited \in WorkloadObject, NEW next,
         Continues(next),
         \/ /\ WriteWorkload(wk.ir.ref, edited) /\ wk' = next
         \/ /\ UNCHANGED wlVars
            /\ wk' = IF wl[wk.ir.ref].live /\ wk.tries + 1 < MaxTries
                     THEN [wk EXCEPT !.phase = "get", !.wl = NoWorkload,
                                     !.tries = wk.tries + 1]
                     ELSE Jump("Err", wk.ir),
         UNCHANGED <<irVars, runVars, acted, env, faults>>
  PROVE  IRTypes' /\ WorkloadTypes' /\ RunTypes' /\ WorkerTypes' /\ CountTypes' /\ CallInv'
<1>1. wk.call # "Free" /\ Kind \in SupportedKinds
  BY DEF Typed, CallInv, RetryCalls
<1>2. IRTypes' /\ RunTypes' /\ CountTypes'
  BY UnchangedTypes, TypeParts DEF Typed
<1>3. WorkloadTypes'
  BY UnchangedTypes, WriteWorkloadTypes, TypeParts, WorkerFacts DEF Typed
<1>4. CASE wk' = next
  BY <1>1, <1>2, <1>3, <1>4, ContinuesTyped DEF Typed
<1>5. CASE wk' = [wk EXCEPT !.phase = "get", !.wl = NoWorkload, !.tries = wk.tries + 1]
  <2>1. wk \in Worker /\ wk.key \in IRs /\ wk.tries + 1 \in Nat
    BY <1>1, WorkerFacts DEF Typed, TypeOK
  <2>2. wk' \in Worker /\ wk'.call = wk.call /\ wk'.key = wk.key /\ wk'.ir = wk.ir
    BY <2>1, <1>5, NullObjects DEF Worker
  <2>3. WorkerTypes' /\ CallInv'
    BY <2>1, <2>2 DEF Typed, WorkerTypes, CallInv, Kind
  <2> QED BY <2>3, <1>2, <1>3
<1>6. CASE wk' = Jump("Err", wk.ir)
  BY <1>1, <1>2, <1>3, <1>6, JumpTyped, WorkerFacts DEF Typed
<1> QED BY <1>4, <1>5, <1>6

(* A step of a retry loop either reads, or writes and goes on, or fails.   *)
LEMMA RetrySteps ==
  ASSUME Typed, SetReference \/ Wakeup \/ Idle \/ RemoveAnnotations
  PROVE  IRTypes' /\ WorkloadTypes' /\ RunTypes' /\ WorkerTypes' /\ CountTypes' /\ CallInv'
<1>1. SUFFICES ASSUME wk.call \in RetryCalls, wk.phase = "put"
               PROVE  IRTypes' /\ WorkloadTypes' /\ RunTypes' /\ WorkerTypes'
                      /\ CountTypes' /\ CallInv'
  BY RetryTyped DEF SetReference, Wakeup, Idle, RemoveAnnotations, RetryGet, RetryPut, RetryCalls
<1>2. TypeOK /\ wk.call # "Free" /\ Kind \in SupportedKinds /\ wk.ir.ref \in Workloads
  BY <1>1, WorkerFacts DEF Typed, CallInv, RetryCalls
<1>3. wk.wl \in WorkloadObject /\ wk.target \in Nat /\ wk.key \in IRs /\ wl[wk.ir.ref] \in WorkloadObject
  BY <1>2, WorkerFacts DEF TypeOK
<1>4. CASE SetReference
  <2> DEFINE edited == SetReferenceEdit(wk.wl, wk.key)
  <2>1. edited \in WorkloadObject /\ NextVersion(wl[wk.ir.ref], edited) \in WorkloadObject
    BY <1>2, <1>3, EditTypes, NextWorkloadType
  <2>2. Continues(AfterSetReference(NextVersion(wl[wk.ir.ref], edited)))
    BY <2>1, <1>2, ContinuationTypes
  <2> HIDE DEF edited
  <2> QED BY <1>1, <1>4, <2>1, <2>2, RetryPutTyped DEF SetReference, RetryGet, RetryPut, edited
<1>5. CASE Wakeup
  <2> DEFINE edited == WakeupEdit(wk.wl, wk.target)
  <2>1. edited \in WorkloadObject /\ NextVersion(wl[wk.ir.ref], edited) \in WorkloadObject
    BY <1>2, <1>3, EditTypes, NextWorkloadType
  <2>2. Continues(AfterWakeup(NextVersion(wl[wk.ir.ref], edited)))
    BY <2>1, <1>2, ContinuationTypes
  <2> QED BY <1>1, <1>5, <2>1, <2>2, RetryPutTyped DEF Wakeup, RetryGet, RetryPut
<1>6. CASE Idle
  <2> DEFINE edited == IdleEdit(Kind, wk.wl)
  <2>1. edited \in WorkloadObject /\ NextVersion(wl[wk.ir.ref], edited) \in WorkloadObject
    BY <1>2, <1>3, EditTypes, NextWorkloadType
  <2>2. Continues(AfterIdle(NextVersion(wl[wk.ir.ref], edited)))
    BY <2>1, <1>2, ContinuationTypes
  <2> QED BY <1>1, <1>6, <2>1, <2>2, RetryPutTyped DEF Idle, RetryGet, RetryPut
<1>7. CASE RemoveAnnotations
  <2> DEFINE edited == RemoveAnnotationsEdit(wk.wl)
  <2>1. edited \in WorkloadObject /\ NextVersion(wl[wk.ir.ref], edited) \in WorkloadObject
    BY <1>2, <1>3, EditTypes, NextWorkloadType
  <2>2. wk.ir.deleting
    BY <1>7 DEF Typed, CallInv, RemoveAnnotations, RetryGet, RetryPut
  <2>3. Continues(AfterRemoveAnnotations(NextVersion(wl[wk.ir.ref], edited)))
    BY <2>1, <2>2, <1>2, ContinuationTypes
  <2> QED BY <1>1, <1>7, <2>1, <2>3, RetryPutTyped DEF RemoveAnnotations, RetryGet, RetryPut
<1> QED BY <1>4, <1>5, <1>6, <1>7

(* The steps that read or write an IdlingResource.                         *)
LEMMA InstanceSteps ==
  ASSUME Typed, GetIdlingResource \/ AddFinalizer \/ RemoveFinalizer
  PROVE  IRTypes' /\ WorkloadTypes' /\ RunTypes' /\ WorkerTypes' /\ CountTypes' /\ CallInv'
<1>1. /\ TypeOK /\ wk.call # "Free" /\ wk.key \in IRs
      /\ ir[wk.key] \in IRObject /\ irCache[wk.key] \in IRObject
  BY DEF Typed, TypeOK, GetIdlingResource, AddFinalizer, RemoveFinalizer
<1>2. WorkloadTypes' /\ RunTypes' /\ CountTypes'
  BY UnchangedTypes, TypeParts
     DEF Typed, GetIdlingResource, AddFinalizer, RemoveFinalizer
<1>3. CASE GetIdlingResource
  <2>1. IRTypes'
    BY <1>3, UnchangedTypes, TypeParts DEF Typed, GetIdlingResource
  <2>2. WorkerTypes' /\ CallInv'
    BY <1>1, <1>3, NullObjects, JumpTyped DEF GetIdlingResource
  <2> QED BY <1>2, <2>1, <2>2
<1>4. CASE AddFinalizer
  <2> DEFINE obj == [wk.ir EXCEPT !.fin = TRUE]
  <2>1. obj \in IRObject
    BY WorkerFacts DEF Typed, IRObject
  <2>2. NextVersion(ir[wk.key], obj) \in IRObject
    BY <1>1, <2>1, NextIRType
  <2> HIDE DEF obj
  <2>3. IRTypes'
    BY <1>1, <1>4, <2>1, WriteIRTypes, UnchangedTypes, TypeParts DEF AddFinalizer, obj
  <2>4. WorkerTypes' /\ CallInv'
    BY <1>1, <1>4, <2>2, WorkerFacts, JumpTyped DEF AddFinalizer, obj
  <2> QED BY <1>2, <2>3, <2>4
<1>5. CASE RemoveFinalizer
  <2>1. Removed(wk.ir) \in IRObject
    BY WorkerFacts DEF Typed, IRObject, Removed
  <2>2. IRTypes'
    BY <1>1, <1>5, <2>1, WriteIRTypes, UnchangedTypes, TypeParts DEF RemoveFinalizer
  <2>3. WorkerTypes' /\ CallInv'
    BY <1>1, <1>5, WorkerFacts, JumpTyped DEF RemoveFinalizer
  <2> QED BY <1>2, <2>2, <2>3
<1> QED BY <1>3, <1>4, <1>5

(* The steps that only change the worker, or return from Reconcile.        *)
LEMMA LocalSteps ==
  ASSUME Typed,
         \/ ReconcileCronStrategies \/ GetWorkload \/ Fault
         \/ ReturnOk \/ ReturnRequeueAfter \/ ReturnErr
         \/ \E i \in IRs : Take(i)
  PROVE  IRTypes' /\ WorkloadTypes' /\ RunTypes' /\ WorkerTypes' /\ CountTypes' /\ CallInv'
<1>1. TypeOK /\ IRTypes' /\ WorkloadTypes'
  BY UnchangedTypes, TypeParts
     DEF Typed, ReconcileCronStrategies, GetWorkload, Fault, ReturnOk,
         ReturnRequeueAfter, ReturnErr, Take
<1>2. CASE ReconcileCronStrategies
  <2>1. RunTypes' /\ CountTypes' /\ wk.call # "Free"
    BY <1>1, <1>2, UnchangedTypes, TypeParts DEF ReconcileCronStrategies
  <2>2. CASE Kind \in SupportedKinds
    <3>1. wk' = Jump("GetWorkload", wk.ir)
      BY <1>2, <2>2 DEF ReconcileCronStrategies
    <3>2. Continues(wk')
      <4>1. "GetWorkload" \in Calls
        BY DEF Calls
      <4> QED BY <1>1, <2>1, <3>1, <4>1, JumpType, WorkerFacts DEF Continues
    <3> QED BY <1>1, <2>1, <2>2, <3>2, ContinuesTyped
  <2>3. CASE Kind \notin SupportedKinds
    BY <1>1, <1>2, <2>1, <2>3, WorkerFacts, JumpTyped DEF ReconcileCronStrategies
  <2> QED BY <2>2, <2>3
<1>3. CASE GetWorkload
  <2>1. RunTypes' /\ CountTypes' /\ wk.call # "Free" /\ Kind \in SupportedKinds
    BY <1>1, <1>3, UnchangedTypes, TypeParts DEF GetWorkload, Typed, CallInv
  <2>2. wlCache[wk.ir.ref] \in WorkloadObject
    BY <1>1, WorkerFacts DEF TypeOK
  <2>3. Continues(wk')
    BY <1>1, <1>3, <2>1, <2>2, ContinuationTypes DEF GetWorkload
  <2> QED BY <1>1, <2>1, <2>3, ContinuesTyped
<1>4. CASE Fault
  <2>1. RunTypes' /\ wk.call # "Free" /\ wk' = Jump("Err", wk.ir)
    BY <1>1, <1>4, UnchangedTypes, TypeParts DEF Fault
  <2>2. CountTypes'
    BY <1>1, <1>4, BoundsAssumption DEF Fault, TypeOK, CountTypes
  <2> QED BY <1>1, <2>1, <2>2, WorkerFacts, JumpTyped
<1>5. CASE ReturnOk \/ ReturnRequeueAfter \/ ReturnErr
  <2>1. wk.key \in IRs /\ wk.ir.rv \in Nat /\ WorkerTypes' /\ CallInv'
    BY <1>1, <1>5, WorkerFacts, FreeTyped
       DEF TypeOK, IRObject, ReturnOk, ReturnRequeueAfter, ReturnErr
  <2>2. /\ queue' \subseteq IRs /\ timers' \subseteq IRs
        /\ fails' \in [IRs -> 0 .. MaxBackoff]
    <3>1. RunTypes /\ 0 \in 0 .. MaxBackoff
      BY <1>1, BoundsAssumption, TypeParts
    <3>2. CASE ReturnOk
      BY <3>1, <3>2, <2>1 DEF RunTypes, ReturnOk
    <3>3. CASE ReturnRequeueAfter
      BY <3>1, <3>3, <2>1 DEF RunTypes, ReturnRequeueAfter
    <3>4. CASE ReturnErr
      <4>1. \A n \in 0 .. MaxBackoff : (IF n < MaxBackoff THEN n + 1 ELSE n) \in 0 .. MaxBackoff
        BY BoundsAssumption
      <4> QED BY <3>1, <3>4, <2>1, <4>1 DEF RunTypes, ReturnErr
    <3> QED BY <1>5, <3>2, <3>3, <3>4
  <2>3. CountTypes'
    BY <1>1, <1>5, <2>1 DEF TypeOK, CountTypes, ReturnOk, ReturnRequeueAfter, ReturnErr
  <2> QED BY <1>1, <2>1, <2>2, <2>3 DEF RunTypes
<1>6. CASE \E i \in IRs : Take(i)
  <2>1. PICK i \in IRs : Take(i)
    BY <1>6
  <2>2. RunTypes' /\ CountTypes'
    BY <1>1, <2>1 DEF TypeOK, RunTypes, CountTypes, Take
  <2>3. WorkerTypes' /\ CallInv'
    BY <2>1, NullObjects
       DEF Take, FreeWorker, Worker, WorkerTypes, CallInv, Calls, RetryCalls
  <2> QED BY <1>1, <2>2, <2>3
<1> QED BY <1>2, <1>3, <1>4, <1>5, <1>6

(* The steps of the controller's runtime and of its environment.           *)
LEMMA RuntimeSteps ==
  ASSUME Typed,
         \/ \E i \in IRs : TimerFires(i) \/ DeliverIR(i)
         \/ \E w \in Workloads : DeliverWorkload(w)
         \/ CrashRestart \/ Environment
  PROVE  IRTypes' /\ WorkloadTypes' /\ RunTypes' /\ WorkerTypes' /\ CountTypes' /\ CallInv'
<1>1. TypeOK
  BY DEF Typed
<1>2. ASSUME UNCHANGED wk
      PROVE  WorkerTypes' /\ CallInv'
  BY <1>2, UnchangedTypes, TypeParts DEF Typed, CallInv, Kind
<1>3. ASSUME NEW i \in IRs, TimerFires(i)
      PROVE  IRTypes' /\ WorkloadTypes' /\ RunTypes' /\ WorkerTypes' /\ CountTypes' /\ CallInv'
  <2>1. RunTypes'
    BY <1>1, <1>3 DEF TypeOK, RunTypes, TimerFires
  <2> QED BY <1>1, <1>2, <1>3, <2>1, UnchangedTypes, TypeParts DEF TimerFires
<1>4. ASSUME NEW i \in IRs, DeliverIR(i)
      PROVE  IRTypes' /\ WorkloadTypes' /\ RunTypes' /\ WorkerTypes' /\ CountTypes' /\ CallInv'
  <2>1. Head(irWatch[i]) \in IRObject /\ Tail(irWatch[i]) \in Seq(IRObject)
    BY <1>1, <1>4 DEF TypeOK, DeliverIR
  <2>2. IRTypes' /\ RunTypes'
    BY <1>1, <1>4, <2>1 DEF TypeOK, IRTypes, RunTypes, DeliverIR
  <2> QED BY <1>1, <1>2, <1>4, <2>2, UnchangedTypes, TypeParts DEF DeliverIR
<1>5. ASSUME NEW w \in Workloads, DeliverWorkload(w)
      PROVE  IRTypes' /\ WorkloadTypes' /\ RunTypes' /\ WorkerTypes' /\ CountTypes' /\ CallInv'
  <2>1. Head(wlWatch[w]) \in WorkloadObject /\ Tail(wlWatch[w]) \in Seq(WorkloadObject)
    BY <1>1, <1>5 DEF TypeOK, DeliverWorkload
  <2>2. WorkloadRequests(wlCache[w], Head(wlWatch[w])) \subseteq IRs
    BY <1>1, <2>1, RequestTypes DEF TypeOK
  <2>3. WorkloadTypes' /\ RunTypes'
    BY <1>1, <1>5, <2>1, <2>2 DEF TypeOK, WorkloadTypes, RunTypes, DeliverWorkload
  <2> QED BY <1>1, <1>2, <1>5, <2>3, UnchangedTypes, TypeParts DEF DeliverWorkload
<1>6. CASE CrashRestart
  <2>1. WorkerTypes' /\ CallInv'
    BY <1>6, FreeTyped DEF CrashRestart
  <2>2. IRTypes' /\ WorkloadTypes'
    BY <1>1, <1>6 DEF TypeOK, IRTypes, WorkloadTypes, CrashRestart
  <2>3. CountTypes'
    BY <1>1, <1>6, BoundsAssumption DEF TypeOK, CountTypes, CrashRestart
  <2>4. LiveIRs(ir) \subseteq IRs /\ ReferencesIn(wl) \subseteq IRs
    BY <1>1 DEF TypeOK, WorkloadObject, LiveIRs, ReferencesIn, objectForIdlingResourceMapper
  <2>5. RunTypes'
    BY <1>6, <2>4, BoundsAssumption DEF RunTypes, CrashRestart
  <2> QED BY <2>1, <2>2, <2>3, <2>5
<1>7. CASE Resync
  <2>1. \A w \in Workloads : WorkloadRequests(wlCache[w], wlCache[w]) \subseteq IRs
    BY <1>1, RequestTypes DEF TypeOK
  <2>2. RunTypes'
    BY <1>1, <1>7, <2>1 DEF TypeOK, RunTypes, Resync, LiveIRs
  <2>3. CountTypes'
    BY <1>1, <1>7, BoundsAssumption DEF TypeOK, CountTypes, Resync
  <2> QED BY <1>1, <1>2, <1>7, <2>2, <2>3, UnchangedTypes, TypeParts DEF Resync
<1>8. ASSUME NEW i \in IRs, NEW obj \in IRObject, UserWritesIR(i, obj)
      PROVE  IRTypes' /\ WorkloadTypes' /\ RunTypes' /\ WorkerTypes' /\ CountTypes' /\ CallInv'
  <2>1. IRTypes'
    BY <1>1, <1>8, WriteIRTypes, TypeParts DEF UserWritesIR
  <2>2. CountTypes'
    BY <1>1, <1>8, BoundsAssumption DEF TypeOK, CountTypes, UserWritesIR
  <2> QED BY <1>1, <1>2, <1>8, <2>1, <2>2, UnchangedTypes, TypeParts DEF UserWritesIR
<1>9. ASSUME NEW w \in Workloads, NEW obj \in WorkloadObject, UserWritesWorkload(w, obj)
      PROVE  IRTypes' /\ WorkloadTypes' /\ RunTypes' /\ WorkerTypes' /\ CountTypes' /\ CallInv'
  <2>1. WorkloadTypes'
    BY <1>1, <1>9, WriteWorkloadTypes, TypeParts DEF UserWritesWorkload
  <2>2. CountTypes'
    BY <1>1, <1>9, BoundsAssumption DEF TypeOK, CountTypes, UserWritesWorkload
  <2> QED BY <1>1, <1>2, <1>9, <2>1, <2>2, UnchangedTypes, TypeParts DEF UserWritesWorkload
<1>10. CASE Environment
  BY <1>1, <1>7, <1>8, <1>9, <1>10, UserTypes DEF Environment
<1> QED BY <1>3, <1>4, <1>5, <1>6, <1>10

(* The types hold when the operator first starts.                          *)
LEMMA TypedInit == Init => Typed
<1> SUFFICES ASSUME Init PROVE Typed
  OBVIOUS
<1>1. ir \in [IRs -> IRObject]
  <2>1. \A idle \in BOOLEAN, w \in Workloads : [NewIR(idle, w) EXCEPT !.rv = 1] \in IRObject
    BY NewObjects DEF IRObject
  <2>2. InitialIRs \subseteq IRObject
    BY <2>1, NullObjects DEF InitialIRs
  <2> QED BY <2>2 DEF Init
<1>2. wl \in [Workloads -> WorkloadObject]
  <2>1. \A w \in Workloads : InitialWorkloads(w) \subseteq WorkloadObject
    BY NullObjects, NewObjects, LevelsAssumption DEF InitialWorkloads, LevelsOf
  <2> QED BY <2>1 DEF Init
<1>3. wk \in Worker /\ wk.call = "Free"
  BY NullObjects DEF Init, FreeWorker, Worker, Calls
<1>4. RunTypes /\ CountTypes
  BY BoundsAssumption DEF Init, RunTypes, CountTypes, LiveIRs
<1>5. IRTypes /\ WorkloadTypes
  BY <1>1, <1>2 DEF Init, IRTypes, WorkloadTypes
<1>6. WorkerTypes /\ CallInv
  BY <1>3 DEF WorkerTypes, CallInv, RetryCalls
<1> QED BY <1>4, <1>5, <1>6, TypeParts DEF Typed

(* Every step of the system keeps the types.                               *)
LEMMA TypedStep == Typed /\ [Next]_vars => Typed'
<1> SUFFICES ASSUME Typed, [Next]_vars PROVE Typed'
  OBVIOUS
<1>1. CASE Next
  <2>1. IRTypes' /\ WorkloadTypes' /\ RunTypes' /\ WorkerTypes' /\ CountTypes' /\ CallInv'
    BY <1>1, RetrySteps, InstanceSteps, LocalSteps, RuntimeSteps DEF Next, WorkerStep
  <2>2. TypeOK'
    BY <2>1 DEF TypeOK, IRTypes, WorkloadTypes, RunTypes, WorkerTypes, CountTypes
  <2> QED BY <2>1, <2>2 DEF Typed
<1>2. CASE UNCHANGED vars
  BY <1>2 DEF vars, irVars, wlVars, runVars, Typed, TypeOK, CallInv, Kind
<1> QED BY <1>1, <1>2

(* Every reachable state of the operator is well-typed.                    *)
THEOREM TypeCorrect == Spec => []TypeOK
<1>1. Typed => TypeOK
  BY DEF Typed
<1> QED BY <1>1, TypedInit, TypedStep, PTL DEF Spec

=============================================================================
