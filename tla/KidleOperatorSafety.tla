------------------------- MODULE KidleOperatorSafety -------------------------
(***************************************************************************)
(* The safety properties of KidleOperator that hold whatever the caches    *)
(* lag behind: the inductive invariant IInv, and what follows from it.     *)
(***************************************************************************)
EXTENDS KidleOperatorTyping, SequenceTheorems

-----------------------------------------------------------------------------
(* The inductive invariant.                                                *)

(* v is a version of an object at or before the one stored; the version    *)
(* number identifies it.                                                   *)
VersionOf(v, stored) == v.rv <= stored.rv /\ (v.rv = stored.rv => v = stored)

(* A watch ends in the stored version, and so does a cache that caught up. *)
WatchOf(stored, watch, cache) ==
    /\ watch = <<>> => cache = stored
    /\ watch # <<>> => watch[Len(watch)] = stored
    /\ VersionOf(cache, stored)
    /\ \A n \in 1 .. Len(watch) : VersionOf(watch[n], stored)

IRWatchesInv       == \A i \in IRs : WatchOf(ir[i], irWatch[i], irCache[i])
WorkloadWatchesInv == \A w \in Workloads : WatchOf(wl[w], wlWatch[w], wlCache[w])

(* The copies a reconciliation holds are of versions that were stored.     *)
WorkerInv ==
    /\ wk.call \notin {"Free", "GetIdlingResource", "Ok", "Err"}
          => VersionOf(wk.ir, ir[wk.key])
    /\ wk.phase = "put" => VersionOf(wk.wl, wl[wk.ir.ref])

(* The worker's copy is the last version, or it will read again.           *)
UpToDate ==
    \/ wk.call \in {"GetIdlingResource", "RequeueAfter", "Err"}
    \/ wk.ir.rv = ir[wk.key].rv

(* A live IdlingResource is accounted for: an event, a request or a timer  *)
(* will bring it back; if none does, its last version is in the worker's   *)
(* hands or has been acted on.                                             *)
RequestInv ==
    \A i \in IRs : ir[i].live =>
        \/ ~IRSynced(i)
        \/ i \in queue \cup timers
        \/ IF wk.call # "Free" /\ wk.key = i THEN UpToDate ELSE acted[i] = ir[i].rv

IInv == TypeOK /\ CallInv /\ IRWatchesInv /\ WorkloadWatchesInv
        /\ WorkerInv /\ RequestInv

-----------------------------------------------------------------------------
(* Versions.                                                               *)

(* A write makes a version that is the stored one or one later.            *)
LEMMA NextIRVersion ==
  ASSUME NEW stored \in IRObject, NEW obj \in IRObject
  PROVE  \/ NextVersion(stored, obj) = stored
         \/ NextVersion(stored, obj).rv = stored.rv + 1
  BY DEF NextVersion, IRObject

(* The same of a workload: a version it had stays one, and the number      *)
(* grows.                                                                  *)
LEMMA NextWorkloadVersion ==
  ASSUME NEW stored \in WorkloadObject, NEW obj \in WorkloadObject
  PROVE  \/ NextVersion(stored, obj) = stored
         \/ NextVersion(stored, obj).rv = stored.rv + 1
  BY DEF NextVersion, WorkloadObject

(* A new version has the fields that were sent.                            *)
LEMMA SentFields ==
  ASSUME NEW stored \in WorkloadObject, NEW obj \in WorkloadObject
  PROVE  LET new == NextVersion(stored, obj) IN
         /\ new.live = obj.live /\ new.level = obj.level /\ new.ref = obj.ref
         /\ new.prev = obj.prev /\ new.exp = obj.exp /\ new \in WorkloadObject
  BY DEF NextVersion, WorkloadObject

(* An earlier version stays an earlier version.                            *)
LEMMA VersionKept ==
  ASSUME NEW v, NEW stored, NEW new, v.rv \in Nat, stored.rv \in Nat,
         VersionOf(v, stored), new = stored \/ new.rv = stored.rv + 1
  PROVE  VersionOf(v, new)
  BY DEF VersionOf

(* A watch that receives the new version still ends in the stored one ...  *)
LEMMA WatchAppend ==
  ASSUME NEW S, \A x \in S : x.rv \in Nat,
         NEW stored \in S, NEW new \in S, NEW cache \in S, NEW watch \in Seq(S),
         WatchOf(stored, watch, cache), new.rv = stored.rv + 1
  PROVE  WatchOf(new, Append(watch, new), cache)
<1> DEFINE longer == Append(watch, new)
<1>1. /\ longer # <<>> /\ Len(longer) = Len(watch) + 1 /\ longer[Len(longer)] = new
      /\ \A n \in 1 .. Len(watch) : longer[n] = watch[n]
  OBVIOUS
<1>2. \A n \in 1 .. Len(watch) : VersionOf(watch[n], new)
  BY VersionKept DEF WatchOf
<1>3. VersionOf(cache, new) /\ VersionOf(new, new)
  BY VersionKept DEF WatchOf, VersionOf
<1>4. \A n \in 1 .. Len(longer) : VersionOf(longer[n], new)
  <2> TAKE n \in 1 .. Len(longer)
  <2>1. n \in 1 .. Len(watch) \/ n = Len(longer)
    BY <1>1
  <2> QED BY <1>1, <1>2, <1>3, <2>1
<1> QED BY <1>1, <1>3, <1>4 DEF WatchOf

(* ... and so does one whose first version goes to the cache.              *)
LEMMA WatchDeliver ==
  ASSUME NEW S, NEW stored \in S, NEW cache \in S, NEW watch \in Seq(S),
         watch # <<>>, WatchOf(stored, watch, cache)
  PROVE  WatchOf(stored, Tail(watch), Head(watch))
<1>1. /\ Len(watch) \in Nat \ {0} /\ Head(watch) = watch[1]
      /\ Len(Tail(watch)) = Len(watch) - 1
      /\ \A n \in 1 .. Len(Tail(watch)) : Tail(watch)[n] = watch[n + 1]
  OBVIOUS
<1>2. VersionOf(Head(watch), stored)
  BY <1>1 DEF WatchOf
<1>3. \A n \in 1 .. Len(Tail(watch)) : VersionOf(Tail(watch)[n], stored)
  BY <1>1 DEF WatchOf
<1>4. CASE Len(watch) = 1
  <2>1. Tail(watch) = <<>>
    <3>1. Tail(watch) \in Seq(S)
      OBVIOUS
    <3>2. Len(Tail(watch)) = 0
      BY <1>1, <1>4
    <3> QED BY <3>1, <3>2, EmptySeq
  <2>2. Head(watch) = stored
    BY <1>1, <1>4 DEF WatchOf
  <2> QED BY <1>2, <1>3, <2>1, <2>2 DEF WatchOf
<1>5. CASE Len(watch) > 1
  <2>1. Tail(watch) # <<>> /\ Tail(watch)[Len(Tail(watch))] = stored
    BY <1>1, <1>5 DEF WatchOf
  <2> QED BY <1>2, <1>3, <2>1 DEF WatchOf
<1> QED BY <1>1, <1>4, <1>5

(* A cache listed anew is the store.                                       *)
LEMMA WatchListed ==
  ASSUME NEW stored, stored.rv \in Nat
  PROVE  WatchOf(stored, <<>>, stored)
  BY DEF WatchOf, VersionOf

-----------------------------------------------------------------------------
(* The stores, their watches and the caches.                               *)

WritesIR == \E i \in IRs, obj \in IRObject : WriteIR(i, obj)
WritesWorkload == \E w \in Workloads, obj \in WorkloadObject : WriteWorkload(w, obj)

(* What a step may do to the IdlingResources ...                           *)
LEMMA IRSteps ==
  ASSUME Typed, [Next]_vars
  PROVE  UNCHANGED irVars \/ WritesIR \/ (\E i \in IRs : DeliverIR(i)) \/ CrashRestart
<1>1. ASSUME AddFinalizer \/ RemoveFinalizer
      PROVE  UNCHANGED irVars \/ WritesIR
  <2>1. wk.key \in IRs /\ wk.ir \in IRObject
    BY <1>1, WorkerFacts DEF Typed, TypeOK, AddFinalizer, RemoveFinalizer
  <2>2. [wk.ir EXCEPT !.fin = TRUE] \in IRObject /\ Removed(wk.ir) \in IRObject
    BY <2>1 DEF IRObject, Removed
  <2> QED BY <1>1, <2>1, <2>2 DEF AddFinalizer, RemoveFinalizer, WritesIR
<1>2. ASSUME NEW i \in IRs, CreateIR(i) \/ SetIdle(i) \/ EditRef(i) \/ DeleteIR(i)
      PROVE  WritesIR
  BY <1>2, UserTypes DEF Typed, UserWritesIR, WritesIR
<1>3. ASSUME NEW w \in Workloads,
             CreateWorkload(w) \/ ScaleWorkload(w) \/ TouchWorkload(w) \/ DeleteWorkload(w)
      PROVE  UNCHANGED irVars
  BY <1>3, UserTypes DEF Typed, UserWritesWorkload
<1>4. ASSUME SetReference \/ Wakeup \/ Idle \/ RemoveAnnotations
      PROVE  UNCHANGED irVars
  BY <1>4 DEF SetReference, Wakeup, Idle, RemoveAnnotations, RetryGet, RetryPut
<1>5. CASE WorkerStep
  BY <1>1, <1>4, <1>5 DEF WorkerStep, GetIdlingResource, ReconcileCronStrategies,
     GetWorkload, ReturnOk, ReturnRequeueAfter, ReturnErr
<1>6. CASE Environment
  BY <1>2, <1>3, <1>6 DEF Environment, Resync
<1>7. CASE \/ \E i \in IRs : Take(i) \/ TimerFires(i) \/ DeliverIR(i)
           \/ \E w \in Workloads : DeliverWorkload(w)
           \/ CrashRestart \/ Fault
  BY <1>7 DEF Take, TimerFires, DeliverWorkload, Fault
<1> QED BY <1>5, <1>6, <1>7 DEF Next, vars

(* ... and to the workloads.                                               *)
LEMMA WorkloadSteps ==
  ASSUME Typed, [Next]_vars
  PROVE  \/ UNCHANGED wlVars \/ WritesWorkload
         \/ (\E w \in Workloads : DeliverWorkload(w)) \/ CrashRestart
<1>1. ASSUME SetReference \/ Wakeup \/ Idle \/ RemoveAnnotations
      PROVE  UNCHANGED wlVars \/ WritesWorkload
  <2>1. wk.ir.ref \in Workloads /\ wk.wl \in WorkloadObject /\ wk.target \in Nat
    BY WorkerFacts DEF Typed
  <2>2. wk.key \in IRs /\ Kind \in SupportedKinds
    BY <1>1 DEF Typed, TypeOK, CallInv, SetReference, Wakeup, Idle, RemoveAnnotations,
                RetryGet, RetryPut, RetryCalls
  <2>3. /\ SetReferenceEdit(wk.wl, wk.key) \in WorkloadObject
        /\ WakeupEdit(wk.wl, wk.target) \in WorkloadObject
        /\ IdleEdit(Kind, wk.wl) \in WorkloadObject
        /\ RemoveAnnotationsEdit(wk.wl) \in WorkloadObject
    BY <2>1, <2>2, EditTypes
  <2> QED BY <1>1, <2>1, <2>3
          DEF SetReference, Wakeup, Idle, RemoveAnnotations, RetryGet, RetryPut, WritesWorkload
<1>2. ASSUME NEW w \in Workloads,
             CreateWorkload(w) \/ ScaleWorkload(w) \/ TouchWorkload(w) \/ DeleteWorkload(w)
      PROVE  WritesWorkload
  BY <1>2, UserTypes DEF Typed, UserWritesWorkload, WritesWorkload
<1>3. ASSUME NEW i \in IRs, CreateIR(i) \/ SetIdle(i) \/ EditRef(i) \/ DeleteIR(i)
      PROVE  UNCHANGED wlVars
  BY <1>3, UserTypes DEF Typed, UserWritesIR
<1>4. CASE WorkerStep
  BY <1>1, <1>4 DEF WorkerStep, GetIdlingResource, AddFinalizer, ReconcileCronStrategies,
     GetWorkload, RemoveFinalizer, ReturnOk, ReturnRequeueAfter, ReturnErr
<1>5. CASE Environment
  BY <1>2, <1>3, <1>5 DEF Environment, Resync
<1>6. CASE \/ \E i \in IRs : Take(i) \/ TimerFires(i) \/ DeliverIR(i)
           \/ \E w \in Workloads : DeliverWorkload(w)
           \/ CrashRestart \/ Fault
  BY <1>6 DEF Take, TimerFires, DeliverIR, Fault
<1> QED BY <1>4, <1>5, <1>6 DEF Next, vars

(* Stored versions only grow, and whoever changes one tells the watch.     *)
LEMMA IRVersions ==
  ASSUME Typed, [Next]_vars, NEW i \in IRs
  PROVE  /\ ir'[i] = ir[i] \/ ir'[i].rv = ir[i].rv + 1
         /\ \/ ir'[i] = ir[i] /\ irWatch'[i] = irWatch[i]
            \/ irWatch'[i] # <<>>
            \/ DeliverIR(i) \/ CrashRestart
<1>1. ir \in [IRs -> IRObject] /\ irWatch \in [IRs -> Seq(IRObject)]
  BY DEF Typed, TypeOK
<1>2. CASE UNCHANGED irVars
  BY <1>2 DEF irVars
<1>3. CASE WritesIR
  <2>1. PICK j \in IRs, obj \in IRObject : WriteIR(j, obj)
    BY <1>3 DEF WritesIR
  <2>2. CASE i = j
    <3> DEFINE new == NextVersion(ir[i], obj)
    <3>1. ir'[i] = new /\ (new = ir[i] \/ new.rv = ir[i].rv + 1)
      BY <1>1, <2>1, <2>2, NextIRVersion DEF WriteIR
    <3>2. CASE new = ir[i]
      BY <1>1, <2>1, <2>2, <3>1, <3>2 DEF WriteIR
    <3>3. CASE new # ir[i]
      <4>1. irWatch'[i] = Append(irWatch[i], new)
        BY <1>1, <2>1, <2>2, <3>3 DEF WriteIR
      <4>2. irWatch'[i] # <<>>
        BY <1>1, <4>1
      <4> QED BY <3>1, <4>2
    <3> QED BY <3>2, <3>3
  <2>3. CASE i # j
    BY <1>1, <2>1, <2>3 DEF WriteIR
  <2> QED BY <2>2, <2>3
<1>4. ASSUME NEW j \in IRs, DeliverIR(j)
      PROVE  ir'[i] = ir[i] /\ (irWatch'[i] = irWatch[i] \/ DeliverIR(i))
  BY <1>1, <1>4 DEF DeliverIR
<1>5. CASE CrashRestart
  BY <1>5 DEF CrashRestart
<1> QED BY <1>2, <1>3, <1>4, <1>5, IRSteps

(* Versions of a workload stay versions of it over every step of the       *)
(* system.                                                                 *)
LEMMA WorkloadVersions ==
  ASSUME Typed, [Next]_vars, NEW w \in Workloads
  PROVE  wl'[w] = wl[w] \/ wl'[w].rv = wl[w].rv + 1
<1>1. wl \in [Workloads -> WorkloadObject]
  BY DEF Typed, TypeOK
<1>2. CASE WritesWorkload
  <2>1. PICK v \in Workloads, obj \in WorkloadObject : WriteWorkload(v, obj)
    BY <1>2 DEF WritesWorkload
  <2> QED BY <1>1, <2>1, NextWorkloadVersion DEF WriteWorkload
<1> QED BY <1>1, <1>2, WorkloadSteps DEF wlVars, DeliverWorkload, CrashRestart

(* Each watch keeps ending in the stored version.                          *)
LEMMA IRWatchesStep ==
  ASSUME Typed, IRWatchesInv, [Next]_vars
  PROVE  IRWatchesInv'
<1> SUFFICES ASSUME NEW i \in IRs
             PROVE  WatchOf(ir'[i], irWatch'[i], irCache'[i])
  BY DEF IRWatchesInv
<1>1. /\ ir \in [IRs -> IRObject] /\ irCache \in [IRs -> IRObject]
      /\ irWatch \in [IRs -> Seq(IRObject)]
      /\ WatchOf(ir[i], irWatch[i], irCache[i])
      /\ \A x \in IRObject : x.rv \in Nat
  BY DEF Typed, TypeOK, IRWatchesInv, IRObject
<1>2. CASE UNCHANGED irVars
  BY <1>1, <1>2 DEF irVars
<1>3. CASE WritesIR
  <2>1. PICK j \in IRs, obj \in IRObject : WriteIR(j, obj)
    BY <1>3 DEF WritesIR
  <2> DEFINE new == NextVersion(ir[j], obj)
  <2>2. CASE i # j \/ new = ir[i]
    BY <1>1, <2>1, <2>2 DEF WriteIR
  <2>3. CASE i = j /\ new # ir[i]
    <3>1. new \in IRObject /\ new.rv = ir[i].rv + 1
      BY <1>1, <2>1, <2>3, NextIRType, NextIRVersion
    <3>2. ir'[i] = new /\ irWatch'[i] = Append(irWatch[i], new) /\ irCache'[i] = irCache[i]
      BY <1>1, <2>1, <2>3 DEF WriteIR
    <3> QED BY <1>1, <3>1, <3>2, WatchAppend
  <2> QED BY <2>2, <2>3
<1>4. ASSUME NEW j \in IRs, DeliverIR(j)
      PROVE  WatchOf(ir'[i], irWatch'[i], irCache'[i])
  <2>1. CASE i = j
    <3>1. /\ irWatch[i] # <<>> /\ ir'[i] = ir[i]
          /\ irWatch'[i] = Tail(irWatch[i]) /\ irCache'[i] = Head(irWatch[i])
      BY <1>1, <1>4, <2>1 DEF DeliverIR
    <3> QED BY <1>1, <3>1, WatchDeliver
  <2>2. CASE i # j
    BY <1>1, <1>4, <2>2 DEF DeliverIR
  <2> QED BY <2>1, <2>2
<1>5. CASE CrashRestart
  BY <1>1, <1>5, WatchListed DEF CrashRestart
<1> QED BY <1>2, <1>3, <1>4, <1>5, IRSteps

(* Every step keeps the watches of the workloads in order.                 *)
LEMMA WorkloadWatchesStep ==
  ASSUME Typed, WorkloadWatchesInv, [Next]_vars
  PROVE  WorkloadWatchesInv'
<1> SUFFICES ASSUME NEW w \in Workloads
             PROVE  WatchOf(wl'[w], wlWatch'[w], wlCache'[w])
  BY DEF WorkloadWatchesInv
<1>1. /\ wl \in [Workloads -> WorkloadObject] /\ wlCache \in [Workloads -> WorkloadObject]
      /\ wlWatch \in [Workloads -> Seq(WorkloadObject)]
      /\ WatchOf(wl[w], wlWatch[w], wlCache[w])
      /\ \A x \in WorkloadObject : x.rv \in Nat
  BY DEF Typed, TypeOK, WorkloadWatchesInv, WorkloadObject
<1>2. CASE UNCHANGED wlVars
  BY <1>1, <1>2 DEF wlVars
<1>3. CASE WritesWorkload
  <2>1. PICK v \in Workloads, obj \in WorkloadObject : WriteWorkload(v, obj)
    BY <1>3 DEF WritesWorkload
  <2> DEFINE new == NextVersion(wl[v], obj)
  <2>2. CASE w # v \/ new = wl[w]
    BY <1>1, <2>1, <2>2 DEF WriteWorkload
  <2>3. CASE w = v /\ new # wl[w]
    <3>1. new \in WorkloadObject /\ new.rv = wl[w].rv + 1
      BY <1>1, <2>1, <2>3, NextWorkloadType, NextWorkloadVersion
    <3>2. wl'[w] = new /\ wlWatch'[w] = Append(wlWatch[w], new) /\ wlCache'[w] = wlCache[w]
      BY <1>1, <2>1, <2>3 DEF WriteWorkload
    <3> QED BY <1>1, <3>1, <3>2, WatchAppend
  <2> QED BY <2>2, <2>3
<1>4. ASSUME NEW v \in Workloads, DeliverWorkload(v)
      PROVE  WatchOf(wl'[w], wlWatch'[w], wlCache'[w])
  <2>1. CASE w = v
    <3>1. /\ wlWatch[w] # <<>> /\ wl'[w] = wl[w]
          /\ wlWatch'[w] = Tail(wlWatch[w]) /\ wlCache'[w] = Head(wlWatch[w])
      BY <1>1, <1>4, <2>1 DEF DeliverWorkload
    <3> QED BY <1>1, <3>1, WatchDeliver
  <2>2. CASE w # v
    BY <1>1, <1>4, <2>2 DEF DeliverWorkload
  <2> QED BY <2>1, <2>2
<1>5. CASE CrashRestart
  BY <1>1, <1>5, WatchListed DEF CrashRestart
<1> QED BY <1>2, <1>3, <1>4, <1>5, WorkloadSteps

-----------------------------------------------------------------------------
(* The worker.                                                             *)

(* The worker goes on with the same copy of the IdlingResource.            *)
Proceeds ==
    /\ wk.call \notin {"Free", "GetIdlingResource", "Ok", "RequeueAfter", "Err"}
    /\ wk'.call # "Free" /\ wk'.phase = "get"
    /\ wk'.key = wk.key /\ wk'.ir = wk.ir

(* It gives up.                                                            *)
GivesUp == wk.call # "Free" /\ wk' = Jump("Err", wk.ir)

(* It takes a copy of the workload from the cache.                         *)
CopiesWorkload ==
    /\ wk.call \in RetryCalls
    /\ wk' = [wk EXCEPT !.phase = "put", !.wl = wlCache[wk.ir.ref]]

(* It has written the finalizer.                                           *)
WritesFinalizer ==
    /\ AddFinalizer /\ wk.call = "AddFinalizer" /\ CanUpdate(ir[wk.key], wk.ir)
    /\ wk' = Jump("ReconcileCronStrategies", ir'[wk.key])

Returns == ReturnOk \/ ReturnRequeueAfter \/ ReturnErr

(* A continuation proceeds.                                                *)
LEMMA ContinuesProceeds ==
  ASSUME Continues(wk'),
         wk.call \notin {"Free", "GetIdlingResource", "Ok", "RequeueAfter", "Err"}
  PROVE  Proceeds
  BY DEF Continues, Proceeds

(* The two steps of a RetryOnConflict loop, each as a move the worker      *)
(* makes.                                                                  *)
LEMMA RetryMoves ==
  ASSUME Typed, SetReference \/ Wakeup \/ Idle \/ RemoveAnnotations
  PROVE  Proceeds \/ GivesUp \/ CopiesWorkload
<1>1. /\ wk.call \in RetryCalls /\ Kind \in SupportedKinds /\ TypeOK
      /\ wk.call # "Free" /\ wk.ir \in IRObject /\ wk.ir.ref \in Workloads
      /\ wk.wl \in WorkloadObject /\ wk.target \in Nat /\ wk.key \in IRs
      /\ wk \in Worker
  BY WorkerFacts DEF Typed, TypeOK, CallInv, SetReference, Wakeup, Idle, RemoveAnnotations,
                     RetryGet, RetryPut, RetryCalls
<1>2. wk.call \notin {"Free", "GetIdlingResource", "Ok", "RequeueAfter", "Err"}
  BY <1>1 DEF RetryCalls
<1>3. ASSUME NEW call \in RetryCalls, RetryGet(call)
      PROVE  GivesUp \/ CopiesWorkload
  BY <1>1, <1>3 DEF RetryGet, GivesUp, CopiesWorkload
<1>4. ASSUME wk' = [wk EXCEPT !.phase = "get", !.wl = NoWorkload, !.tries = wk.tries + 1]
      PROVE  Proceeds
  BY <1>1, <1>2, <1>4 DEF Worker, Proceeds
<1>5. \A obj \in WorkloadObject :
        LET o == NextVersion(wl[wk.ir.ref], obj)
        IN  /\ Continues(AfterSetReference(o)) /\ Continues(AfterWakeup(o))
            /\ Continues(AfterIdle(o))
            /\ wk.ir.deleting => Continues(AfterRemoveAnnotations(o))
  <2> TAKE obj \in WorkloadObject
  <2>1. NextVersion(wl[wk.ir.ref], obj) \in WorkloadObject
    BY <1>1, NextWorkloadType DEF TypeOK
  <2> QED BY <1>1, <2>1, ContinuationTypes
<1>6. /\ SetReferenceEdit(wk.wl, wk.key) \in WorkloadObject
      /\ WakeupEdit(wk.wl, wk.target) \in WorkloadObject
      /\ IdleEdit(Kind, wk.wl) \in WorkloadObject
      /\ RemoveAnnotationsEdit(wk.wl) \in WorkloadObject
  BY <1>1, EditTypes
<1>7. RemoveAnnotations => wk.ir.deleting
  BY DEF Typed, CallInv, RemoveAnnotations, RetryGet, RetryPut
<1>8. ASSUME SetReference, ~RetryGet("SetReference")
      PROVE  Proceeds \/ GivesUp
  BY <1>1, <1>2, <1>4, <1>5, <1>6, <1>8, ContinuesProceeds DEF SetReference, RetryPut, GivesUp
<1>9. ASSUME Wakeup, ~RetryGet("Wakeup")
      PROVE  Proceeds \/ GivesUp
  BY <1>1, <1>2, <1>4, <1>5, <1>6, <1>9, ContinuesProceeds DEF Wakeup, RetryPut, GivesUp
<1>10. ASSUME Idle, ~RetryGet("Idle")
       PROVE  Proceeds \/ GivesUp
  BY <1>1, <1>2, <1>4, <1>5, <1>6, <1>10, ContinuesProceeds DEF Idle, RetryPut, GivesUp
<1>11. ASSUME RemoveAnnotations, ~RetryGet("RemoveAnnotations")
       PROVE  Proceeds \/ GivesUp
  BY <1>1, <1>2, <1>4, <1>5, <1>6, <1>7, <1>11, ContinuesProceeds
     DEF RemoveAnnotations, RetryPut, GivesUp
<1> QED BY <1>3, <1>8, <1>9, <1>10, <1>11 DEF RetryCalls

(* What a step may do to the worker.                                       *)
LEMMA WorkerMoves ==
  ASSUME Typed, [Next]_vars
  PROVE  \/ UNCHANGED wk \/ Proceeds \/ GivesUp \/ CopiesWorkload \/ WritesFinalizer
         \/ GetIdlingResource \/ Returns \/ CrashRestart \/ \E i \in IRs : Take(i)
<1>1. /\ TypeOK /\ wk.ir \in IRObject /\ wk.ir.ref \in Workloads
  BY WorkerFacts DEF Typed
<1>2. ASSUME ReconcileCronStrategies PROVE Proceeds
  <2>1. {"Ok", "GetWorkload"} \subseteq Calls
    BY DEF Calls
  <2> QED BY <1>1, <1>2, <2>1, JumpType DEF ReconcileCronStrategies, Proceeds
<1>3. ASSUME GetWorkload PROVE Proceeds
  <2>1. wk.call = "GetWorkload" /\ Kind \in SupportedKinds
    BY <1>3 DEF GetWorkload, Typed, CallInv
  <2>2. Continues(wk')
    BY <1>1, <1>3, <2>1, ContinuationTypes DEF GetWorkload, TypeOK
  <2> QED BY <2>1, <2>2, ContinuesProceeds
<1>4. ASSUME AddFinalizer PROVE WritesFinalizer \/ GivesUp
  <2>1. wk.call = "AddFinalizer" /\ wk.key \in IRs /\ ir \in [IRs -> IRObject]
    BY <1>1, <1>4 DEF AddFinalizer, TypeOK
  <2> QED BY <1>4, <2>1 DEF AddFinalizer, WritesFinalizer, GivesUp, WriteIR
<1>5. ASSUME RemoveFinalizer PROVE Proceeds \/ GivesUp
  <2>1. "Ok" \in Calls
    BY DEF Calls
  <2> QED BY <1>1, <1>5, <2>1, JumpType DEF RemoveFinalizer, Proceeds, GivesUp
<1>6. CASE WorkerStep
  BY <1>2, <1>3, <1>4, <1>5, <1>6, RetryMoves DEF WorkerStep, Returns
<1>7. ASSUME Environment PROVE UNCHANGED wk
  BY <1>1, <1>7, UserTypes DEF Environment, Resync, UserWritesIR, UserWritesWorkload
<1>8. CASE \/ \E i \in IRs : Take(i) \/ TimerFires(i) \/ DeliverIR(i)
           \/ \E w \in Workloads : DeliverWorkload(w)
           \/ CrashRestart \/ Fault
  BY <1>8 DEF TimerFires, DeliverIR, DeliverWorkload, Fault, GivesUp
<1> QED BY <1>6, <1>7, <1>8 DEF Next, vars

(* What the caches and the worker hold keeps being a version of what is    *)
(* stored.                                                                 *)
LEMMA CopiesKept ==
  ASSUME Typed, [Next]_vars
  PROVE  /\ \A i \in IRs, v \in IRObject : VersionOf(v, ir[i]) => VersionOf(v, ir'[i])
         /\ \A w \in Workloads, v \in WorkloadObject :
               VersionOf(v, wl[w]) => VersionOf(v, wl'[w])
<1>1. ASSUME NEW i \in IRs, NEW v \in IRObject, VersionOf(v, ir[i])
      PROVE  VersionOf(v, ir'[i])
  <2>1. v.rv \in Nat /\ ir[i].rv \in Nat
    BY DEF Typed, TypeOK, IRObject
  <2> QED BY <1>1, <2>1, IRVersions, VersionKept
<1>2. ASSUME NEW w \in Workloads, NEW v \in WorkloadObject, VersionOf(v, wl[w])
      PROVE  VersionOf(v, wl'[w])
  <2>1. v.rv \in Nat /\ wl[w].rv \in Nat
    BY DEF Typed, TypeOK, WorkloadObject
  <2> QED BY <1>2, <2>1, WorkloadVersions, VersionKept
<1> QED BY <1>1, <1>2

(* Every step keeps the copies in the worker's memory versions that were   *)
(* stored.                                                                 *)
LEMMA WorkerStepInv ==
  ASSUME Typed, IRWatchesInv, WorkloadWatchesInv, WorkerInv, [Next]_vars
  PROVE  WorkerInv'
<1>1. /\ TypeOK /\ wk \in Worker /\ wk.ir \in IRObject /\ wk.ir.ref \in Workloads
      /\ wk.wl \in WorkloadObject
  BY WorkerFacts DEF Typed, TypeOK
<1>2. wk.call # "Free" => wk.key \in IRs
  BY <1>1 DEF TypeOK
<1>3. CASE UNCHANGED wk
  BY <1>1, <1>2, <1>3, CopiesKept DEF WorkerInv
<1>4. CASE Proceeds
  BY <1>1, <1>2, <1>4, CopiesKept DEF WorkerInv, Proceeds
<1>5. CASE GivesUp
  <2>1. "Err" \in Calls
    BY DEF Calls
  <2> QED BY <1>1, <1>5, <2>1, JumpType DEF WorkerInv, GivesUp
<1>6. CASE CopiesWorkload
  <2>1. /\ wk'.call = wk.call /\ wk'.key = wk.key /\ wk'.ir = wk.ir
        /\ wk'.phase = "put" /\ wk'.wl = wlCache[wk.ir.ref]
    BY <1>1, <1>6 DEF CopiesWorkload, Worker
  <2>2. wk.call \notin {"Free", "GetIdlingResource", "Ok", "Err"}
    BY <1>6 DEF CopiesWorkload, RetryCalls
  <2>3. VersionOf(wlCache[wk.ir.ref], wl[wk.ir.ref]) /\ wlCache[wk.ir.ref] \in WorkloadObject
    BY <1>1 DEF WorkloadWatchesInv, WatchOf, TypeOK
  <2> QED BY <1>1, <1>2, <2>1, <2>2, <2>3, CopiesKept DEF WorkerInv
<1>7. CASE WritesFinalizer
  <2>1. /\ ir' \in [IRs -> IRObject] /\ wk.key \in IRs
        /\ "ReconcileCronStrategies" \in Calls
    BY <1>2, <1>7, TypedStep DEF Typed, TypeOK, WritesFinalizer, Calls
  <2>2. /\ wk'.key = wk.key /\ wk'.ir = ir'[wk.key] /\ wk'.phase = "get"
    BY <1>1, <1>7, <2>1, JumpType DEF WritesFinalizer
  <2>3. ir'[wk.key].rv \in Nat
    BY <2>1 DEF IRObject
  <2> QED BY <2>1, <2>2, <2>3 DEF WorkerInv, VersionOf
<1>8. CASE GetIdlingResource
  <2>1. /\ wk.key \in IRs /\ UNCHANGED ir /\ wk.call # "Free"
        /\ irCache[wk.key] \in IRObject /\ VersionOf(irCache[wk.key], ir[wk.key])
    BY <1>1, <1>2, <1>8 DEF GetIdlingResource, irVars, TypeOK, IRWatchesInv, WatchOf
  <2>2. {"Ok", "AddFinalizer", "ReconcileCronStrategies"} \subseteq Calls
    BY DEF Calls
  <2>3. \/ wk' = Jump("Ok", NoIR)
        \/ wk' = Jump("AddFinalizer", irCache[wk.key])
        \/ wk' = Jump("ReconcileCronStrategies", irCache[wk.key])
    BY <1>8 DEF GetIdlingResource
  <2> QED BY <1>1, <2>1, <2>2, <2>3, JumpType, NullObjects DEF WorkerInv
<1>9. CASE Returns \/ CrashRestart
  <2>1. wk' = FreeWorker
    BY <1>9 DEF Returns, ReturnOk, ReturnRequeueAfter, ReturnErr, CrashRestart
  <2> QED BY <2>1 DEF WorkerInv, FreeWorker
<1>10. CASE \E i \in IRs : Take(i)
  <2>1. wk'.call = "GetIdlingResource" /\ wk'.phase = "get"
    BY <1>10 DEF Take, FreeWorker
  <2> QED BY <2>1 DEF WorkerInv
<1> QED BY <1>3, <1>4, <1>5, <1>6, <1>7, <1>8, <1>9, <1>10, WorkerMoves

-----------------------------------------------------------------------------
(* Requests.                                                               *)

(* Requests leave the queue only for the worker, and timers for the queue. *)
LEMMA RequestSteps ==
  ASSUME Typed, [Next]_vars, NEW i \in IRs, i \in queue \cup timers
  PROVE  i \in queue' \cup timers' \/ Take(i) \/ CrashRestart
<1>1. ASSUME Environment PROVE queue \subseteq queue' /\ timers' = timers
  BY <1>1, UserTypes DEF Typed, Environment, Resync, UserWritesIR, UserWritesWorkload, runVars
<1>2. ASSUME SetReference \/ Wakeup \/ Idle \/ RemoveAnnotations
      PROVE  UNCHANGED runVars
  BY <1>2 DEF SetReference, Wakeup, Idle, RemoveAnnotations, RetryGet, RetryPut
<1>3. CASE WorkerStep
  BY <1>2, <1>3 DEF WorkerStep, GetIdlingResource, AddFinalizer, ReconcileCronStrategies,
     GetWorkload, RemoveFinalizer, ReturnOk, ReturnRequeueAfter, ReturnErr, runVars
<1>4. CASE \/ \E j \in IRs : Take(j) \/ TimerFires(j) \/ DeliverIR(j)
           \/ \E w \in Workloads : DeliverWorkload(w)
           \/ CrashRestart \/ Fault
  BY <1>4 DEF Take, TimerFires, DeliverIR, DeliverWorkload, Fault, runVars
<1>5. CASE UNCHANGED vars
  BY <1>5 DEF vars, runVars
<1> QED BY <1>1, <1>3, <1>4, <1>5 DEF Next

(* Only a return notes what was acted on.                                  *)
LEMMA ActedSteps ==
  ASSUME Typed, [Next]_vars
  PROVE  UNCHANGED acted \/ ReturnOk
<1>1. ASSUME Environment PROVE UNCHANGED acted
  BY <1>1, UserTypes DEF Typed, Environment, Resync, UserWritesIR, UserWritesWorkload
<1>2. ASSUME SetReference \/ Wakeup \/ Idle \/ RemoveAnnotations
      PROVE  UNCHANGED acted
  BY <1>2 DEF SetReference, Wakeup, Idle, RemoveAnnotations, RetryGet, RetryPut
<1>3. CASE WorkerStep
  BY <1>2, <1>3 DEF WorkerStep, GetIdlingResource, AddFinalizer, ReconcileCronStrategies,
     GetWorkload, RemoveFinalizer, ReturnRequeueAfter, ReturnErr
<1>4. CASE \/ \E j \in IRs : Take(j) \/ TimerFires(j) \/ DeliverIR(j)
           \/ \E w \in Workloads : DeliverWorkload(w)
           \/ CrashRestart \/ Fault
  BY <1>4 DEF Take, TimerFires, DeliverIR, DeliverWorkload, Fault, CrashRestart
<1> QED BY <1>1, <1>3, <1>4 DEF Next, vars

(* No live IdlingResource is lost sight of.                                *)
LEMMA RequestStepInv ==
  ASSUME Typed, IRWatchesInv, RequestInv, [Next]_vars
  PROVE  RequestInv'
<1> DEFINE OnIt(i)      == wk.call # "Free" /\ wk.key = i
           Accounted(i) == IF OnIt(i) THEN UpToDate ELSE acted[i] = ir[i].rv
<1> SUFFICES ASSUME NEW i \in IRs, ir'[i].live,
                    irWatch'[i] = <<>>, i \notin queue' \cup timers'
             PROVE  Accounted(i)'
  BY DEF RequestInv, IRSynced
<1>1. /\ TypeOK /\ ir \in [IRs -> IRObject] /\ acted \in [IRs -> Nat]
      /\ wk.ir \in IRObject
  BY WorkerFacts DEF Typed, TypeOK
<1>2. ~CrashRestart /\ ~DeliverIR(i)
  BY DEF CrashRestart, LiveIRs, DeliverIR
<1>3. /\ ir'[i] = ir[i] /\ irWatch[i] = <<>> /\ irCache[i] = ir[i]
      /\ i \in queue \cup timers => Take(i)
  BY <1>2, IRVersions, RequestSteps DEF IRWatchesInv, WatchOf
<1>4. CASE Take(i)
  BY <1>4 DEF Take, FreeWorker, UpToDate
<1> SUFFICES ASSUME ~Take(i) PROVE Accounted(i)'
  BY <1>4
<1>5. Accounted(i)
  BY <1>3 DEF RequestInv, IRSynced
<1>6. CASE UNCHANGED wk
  <2>1. UNCHANGED acted
    BY <1>6, ActedSteps DEF ReturnOk, FreeWorker
  <2> QED BY <1>3, <1>5, <1>6, <2>1 DEF UpToDate
<1>7. CASE Proceeds
  <2>1. UNCHANGED acted
    BY <1>7, ActedSteps DEF ReturnOk, Proceeds
  <2> QED BY <1>3, <1>5, <1>7, <2>1 DEF Proceeds, UpToDate
<1>8. CASE GivesUp
  <2>1. "Err" \in Calls
    BY DEF Calls
  <2>2. wk'.call = "Err" /\ wk'.key = wk.key /\ wk.call # "Free"
    BY <1>1, <1>8, <2>1, JumpType DEF GivesUp
  <2>3. UNCHANGED acted
    BY <2>2, ActedSteps DEF ReturnOk, FreeWorker
  <2> QED BY <1>3, <1>5, <2>2, <2>3 DEF UpToDate
<1>9. CASE CopiesWorkload
  <2>1. /\ wk'.call = wk.call /\ wk'.key = wk.key /\ wk'.ir = wk.ir
        /\ wk.call \in RetryCalls
    BY <1>1, <1>9 DEF CopiesWorkload, TypeOK, Worker
  <2>2. UNCHANGED acted
    BY <2>1, ActedSteps DEF ReturnOk, RetryCalls
  <2> QED BY <1>3, <1>5, <2>1, <2>2 DEF UpToDate
<1>10. CASE WritesFinalizer
  <2>1. "ReconcileCronStrategies" \in Calls /\ ir' \in [IRs -> IRObject] /\ wk.key \in IRs
    BY <1>1, <1>10, TypedStep DEF Calls, Typed, TypeOK, WritesFinalizer
  <2>2. /\ wk'.call # "Free" /\ wk'.key = wk.key /\ wk'.ir = ir'[wk.key]
        /\ wk.call # "Free"
    BY <1>1, <1>10, <2>1, JumpType DEF WritesFinalizer
  <2>3. UNCHANGED acted
    BY <1>10, ActedSteps DEF ReturnOk, WritesFinalizer
  <2> QED BY <1>3, <1>5, <2>1, <2>2, <2>3 DEF UpToDate
<1>11. CASE GetIdlingResource
  <2>1. /\ wk.key \in IRs /\ wk.call # "Free" /\ irCache[wk.key] \in IRObject
        /\ {"Ok", "AddFinalizer", "ReconcileCronStrategies"} \subseteq Calls
        /\ UNCHANGED acted
    BY <1>1, <1>11 DEF GetIdlingResource, TypeOK, Calls
  <2>2. \/ ~irCache[wk.key].live /\ wk' = Jump("Ok", NoIR)
        \/ wk' = Jump("AddFinalizer", irCache[wk.key])
        \/ wk' = Jump("ReconcileCronStrategies", irCache[wk.key])
    BY <1>11 DEF GetIdlingResource
  <2>3. /\ wk'.key = wk.key /\ wk'.call # "Free"
        /\ ~irCache[wk.key].live \/ wk'.ir = irCache[wk.key]
    BY <1>1, <2>1, <2>2, JumpType, NullObjects
  <2> QED BY <1>3, <1>5, <2>1, <2>3 DEF UpToDate
<1>12. CASE Returns
  <2>1. wk.key \in IRs /\ wk'.call = "Free" /\ wk.call # "Free"
    BY <1>1, <1>12 DEF TypeOK, Returns, ReturnOk, ReturnRequeueAfter, ReturnErr, FreeWorker
  <2>2. wk.key # i \/ wk.call = "Ok"
    BY <1>12 DEF Returns, ReturnOk, ReturnRequeueAfter, ReturnErr
  <2>3. CASE wk.key # i
    <3>1. acted'[i] = acted[i]
      BY <1>1, <1>12, <2>1, <2>3 DEF Returns, ReturnOk, ReturnRequeueAfter, ReturnErr
    <3> QED BY <1>3, <1>5, <2>1, <2>3, <3>1
  <2>4. CASE wk.key = i /\ wk.call = "Ok"
    <3>1. wk.ir.rv = ir[i].rv
      BY <1>5, <2>4 DEF UpToDate
    <3>2. acted'[i] = wk.ir.rv
      BY <1>1, <1>12, <2>1, <2>4 DEF Returns, ReturnOk, ReturnRequeueAfter, ReturnErr
    <3> QED BY <1>3, <2>1, <3>1, <3>2
  <2> QED BY <2>2, <2>3, <2>4
<1>13. ASSUME NEW j \in IRs, Take(j)
       PROVE  Accounted(i)'
  <2>1. j # i /\ wk.call = "Free" /\ wk'.key = j /\ UNCHANGED acted
    BY <1>13 DEF Take, FreeWorker
  <2> QED BY <1>3, <1>5, <2>1
<1> QED BY <1>2, <1>6, <1>7, <1>8, <1>9, <1>10, <1>11, <1>12, <1>13, WorkerMoves

-----------------------------------------------------------------------------
(* The inductive invariant and its consequences.                           *)

(* The inductive invariant holds when the operator first starts.           *)
LEMMA IInvInit == Init => IInv
<1> SUFFICES ASSUME Init PROVE IInv
  OBVIOUS
<1>1. Typed
  BY TypedInit
<1>2. IRWatchesInv
  <2>1. \A i \in IRs : irWatch[i] = <<>> /\ irCache[i] = ir[i] /\ ir[i].rv \in Nat
    BY <1>1 DEF Init, Typed, TypeOK, IRObject
  <2> QED BY <2>1, WatchListed DEF IRWatchesInv
<1>3. WorkloadWatchesInv
  <2>1. \A w \in Workloads : wlWatch[w] = <<>> /\ wlCache[w] = wl[w] /\ wl[w].rv \in Nat
    BY <1>1 DEF Init, Typed, TypeOK, WorkloadObject
  <2> QED BY <2>1, WatchListed DEF WorkloadWatchesInv
<1>4. wk = FreeWorker /\ queue = LiveIRs(ir)
  BY DEF Init
<1>5. WorkerInv /\ RequestInv
  BY <1>4 DEF WorkerInv, RequestInv, FreeWorker, LiveIRs
<1> QED BY <1>1, <1>2, <1>3, <1>5 DEF IInv, Typed

(* Every step of the system preserves the inductive invariant.             *)
LEMMA IInvStep == IInv /\ [Next]_vars => IInv'
<1> SUFFICES ASSUME IInv, [Next]_vars PROVE IInv'
  OBVIOUS
<1>1. Typed
  BY DEF IInv, Typed
<1>2. TypeOK' /\ CallInv'
  BY <1>1, TypedStep DEF Typed
<1>3. IRWatchesInv' /\ WorkloadWatchesInv'
  BY <1>1, IRWatchesStep, WorkloadWatchesStep DEF IInv
<1>4. WorkerInv' /\ RequestInv'
  BY <1>1, WorkerStepInv, RequestStepInv DEF IInv
<1> QED BY <1>2, <1>3, <1>4 DEF IInv

(* The inductive invariant holds in every reachable state.                 *)
THEOREM Invariance == Spec => []IInv
  BY IInvInit, IInvStep, PTL DEF Spec

(* The operator never comes to rest with a version of an IdlingResource it *)
(* has not reconciled.                                                     *)
THEOREM NoLostRequestHolds == Spec => []NoLostRequest
<1>1. IInv => NoLostRequest
  BY DEF IInv, RequestInv, NoLostRequest, AtRest, AllSynced, IRSynced
<1> QED BY <1>1, Invariance, PTL

(* Optimistic concurrency: a copy that the API server accepts is the       *)
(* stored version itself.                                                  *)
LEMMA AcceptedIsStored ==
  ASSUME NEW stored, NEW copy, VersionOf(copy, stored), CanUpdate(stored, copy)
  PROVE  copy = stored
  BY DEF VersionOf, CanUpdate

(* The operator writes an IdlingResource in two places.                    *)
LEMMA OperatorWritesIR ==
  ASSUME Typed, [Next]_vars, wk' # wk
  PROVE  \/ UNCHANGED ir
         \/ /\ wk.call \in {"AddFinalizer", "RemoveFinalizer"}
            /\ CanUpdate(ir[wk.key], wk.ir)
            /\ \/ WriteIR(wk.key, [wk.ir EXCEPT !.fin = TRUE])
               \/ wk.call = "RemoveFinalizer" /\ WriteIR(wk.key, Removed(wk.ir))
<1>1. ASSUME Environment PROVE UNCHANGED wk
  BY <1>1, UserTypes DEF Typed, Environment, Resync, UserWritesIR, UserWritesWorkload
<1>2. ASSUME SetReference \/ Wakeup \/ Idle \/ RemoveAnnotations
      PROVE  UNCHANGED ir
  BY <1>2 DEF SetReference, Wakeup, Idle, RemoveAnnotations, RetryGet, RetryPut, irVars
<1>3. CASE WorkerStep
  BY <1>2, <1>3 DEF WorkerStep, GetIdlingResource, AddFinalizer, ReconcileCronStrategies,
     GetWorkload, RemoveFinalizer, ReturnOk, ReturnRequeueAfter, ReturnErr, irVars
<1>4. CASE \/ \E i \in IRs : Take(i) \/ TimerFires(i) \/ DeliverIR(i)
           \/ \E w \in Workloads : DeliverWorkload(w)
           \/ CrashRestart \/ Fault
  BY <1>4 DEF Take, TimerFires, DeliverIR, DeliverWorkload, CrashRestart, Fault, irVars
<1>5. CASE UNCHANGED vars
  BY <1>5 DEF vars
<1> QED BY <1>1, <1>3, <1>4, <1>5 DEF Next

(* The operator's Updates of an IdlingResource never undo what a user      *)
(* wrote to its spec, and remove none that no user deleted.                *)
THEOREM KeepsIntentHolds == Spec => OperatorKeepsIntent
<1>1. ASSUME IInv, [Next]_vars PROVE KeepsIntent
  <2> SUFFICES ASSUME wk' # wk, NEW i \in IRs
               PROVE  /\ ir[i].live /\ ir'[i].live => /\ ir'[i].idle = ir[i].idle
                                                      /\ ir'[i].ref = ir[i].ref
                      /\ ir[i].live /\ ~ir'[i].live => ir[i].deleting
    BY DEF KeepsIntent
  <2>1. Typed /\ ir \in [IRs -> IRObject] /\ WorkerInv /\ wk.ir \in IRObject
    BY <1>1, WorkerFacts DEF IInv, Typed, TypeOK
  <2>2. CASE UNCHANGED ir
    BY <2>2
  <2>3. CASE /\ wk.call \in {"AddFinalizer", "RemoveFinalizer"}
             /\ CanUpdate(ir[wk.key], wk.ir)
             /\ \/ WriteIR(wk.key, [wk.ir EXCEPT !.fin = TRUE])
                \/ wk.call = "RemoveFinalizer" /\ WriteIR(wk.key, Removed(wk.ir))
    <3>1. wk.key \in IRs /\ wk.ir = ir[wk.key]
      BY <2>1, <2>3, AcceptedIsStored DEF Typed, TypeOK, WorkerInv
    <3>2. CASE WriteIR(wk.key, [wk.ir EXCEPT !.fin = TRUE])
      <4>1. CASE i = wk.key
        <5>1. ir'[i] = NextVersion(ir[i], [ir[i] EXCEPT !.fin = TRUE])
          BY <2>1, <3>1, <3>2, <4>1 DEF WriteIR
        <5> QED BY <2>1, <5>1 DEF NextVersion, IRObject
      <4>2. CASE i # wk.key
        BY <2>1, <3>1, <3>2, <4>2 DEF WriteIR
      <4> QED BY <4>1, <4>2
    <3>3. CASE wk.call = "RemoveFinalizer" /\ WriteIR(wk.key, Removed(wk.ir))
      <4>1. CASE i = wk.key
        <5>1. ir'[i] = NextVersion(ir[i], Removed(ir[i])) /\ ir[i].deleting
          BY <2>1, <3>1, <3>3, <4>1 DEF WriteIR, Typed, CallInv
        <5> QED BY <2>1, <5>1 DEF NextVersion, Removed, IRObject
      <4>2. CASE i # wk.key
        BY <2>1, <3>1, <3>3, <4>2 DEF WriteIR
      <4> QED BY <4>1, <4>2
    <3> QED BY <2>3, <3>2, <3>3
  <2> QED BY <1>1, <2>1, <2>2, <2>3, OperatorWritesIR
<1>2. IInv /\ [Next]_vars => [KeepsIntent]_vars
  BY <1>1
<1> QED BY <1>2, Invariance, PTL DEF Spec, OperatorKeepsIntent

(* The write by which Idle scales a workload to zero saves the number of   *)
(* replicas it takes away.                                                 *)
THEOREM SavesReplicasHolds == Spec => IdleSavesReplicas
<1>1. ASSUME IInv, [Next]_vars PROVE SavesReplicas
  <2> SUFFICES ASSUME wk' # wk, wk.call = "Idle", NEW w \in Workloads,
                      Scaled(w), wl[w].level > 0, wl'[w].level = 0
               PROVE  wl'[w].prev = wl[w].level
    BY DEF SavesReplicas
  <2>1. /\ Typed /\ WorkerInv /\ wl \in [Workloads -> WorkloadObject]
        /\ wk.ir.ref \in Workloads
    BY <1>1, WorkerFacts DEF IInv, Typed, TypeOK
  <2>2. Idle
    <3>1. ~Environment
      BY <2>1, UserTypes DEF Typed, Environment, Resync, UserWritesIR, UserWritesWorkload
    <3>2. UNCHANGED wl => FALSE
      BY <2>1 DEF WorkloadObject
    <3>3. WorkerStep
      BY <1>1, <3>1, <3>2 DEF Next, vars, Take, TimerFires, DeliverIR, DeliverWorkload,
         CrashRestart, Fault, wlVars
    <3> QED BY <3>3 DEF WorkerStep, GetIdlingResource, AddFinalizer, ReconcileCronStrategies,
            GetWorkload, SetReference, Wakeup, RemoveAnnotations, RetryGet, RetryPut,
            RemoveFinalizer, ReturnOk, ReturnRequeueAfter, ReturnErr
  <2>3. /\ wk.phase = "put" /\ CanUpdate(wl[wk.ir.ref], wk.wl)
        /\ WriteWorkload(wk.ir.ref, IdleEdit(Kind, wk.wl))
    <3>1. ~UNCHANGED wl
      BY <2>1 DEF WorkloadObject
    <3> QED BY <2>2, <3>1 DEF Idle, RetryGet, RetryPut, wlVars
  <2>4. wk.wl = wl[wk.ir.ref]
    BY <2>1, <2>3, AcceptedIsStored DEF WorkerInv
  <2>5. w = wk.ir.ref
    BY <2>1, <2>3 DEF WriteWorkload, WorkloadObject
  <2>6. IdleEdit(Kind, wk.wl) = DeploymentIdle(wl[w])
    BY <2>4, <2>5 DEF IdleEdit, StatefulSetIdle, Kind, Scaled
  <2>7. wl'[w] = NextVersion(wl[w], DeploymentIdle(wl[w]))
    BY <2>1, <2>3, <2>5, <2>6 DEF WriteWorkload
  <2> QED BY <2>1, <2>7 DEF NextVersion, DeploymentIdle, WorkloadObject
<1>2. IInv /\ [Next]_vars => [SavesReplicas]_vars
  BY <1>1
<1> QED BY <1>2, Invariance, PTL DEF Spec, IdleSavesReplicas

(* The operator writes workloads in its four retry loops, and what it      *)
(* writes is an edit of the stored version.                                *)
EditOf(call) ==
    LET o == wl[wk.ir.ref] IN
    CASE call = "SetReference"      -> SetReferenceEdit(o, wk.key)
      [] call = "Wakeup"            -> WakeupEdit(o, wk.target)
      [] call = "Idle"              -> IdleEdit(Kind, o)
      [] call = "RemoveAnnotations" -> RemoveAnnotationsEdit(o)

LEMMA OperatorWritesWorkload ==
  ASSUME Typed, WorkerInv, [Next]_vars, ~Environment, wl' # wl
  PROVE  /\ wk.ir.ref \in Workloads /\ wk.key \in IRs /\ Kind \in SupportedKinds
         /\ wk.call \in RetryCalls /\ wl[wk.ir.ref].live
         /\ WriteWorkload(wk.ir.ref, EditOf(wk.call)) /\ EditOf(wk.call) \in WorkloadObject
<1>1. WorkerStep
  BY DEF Next, vars, Take, TimerFires, DeliverIR, DeliverWorkload,
     CrashRestart, Fault, wlVars
<1>2. SetReference \/ Wakeup \/ Idle \/ RemoveAnnotations
  BY <1>1 DEF WorkerStep, GetIdlingResource, AddFinalizer, ReconcileCronStrategies,
     GetWorkload, RemoveFinalizer, ReturnOk, ReturnRequeueAfter, ReturnErr, wlVars
<1>3. /\ wk.ir.ref \in Workloads /\ wk.key \in IRs /\ Kind \in SupportedKinds
      /\ wk.call \in RetryCalls
  BY <1>2, WorkerFacts DEF Typed, TypeOK, CallInv, SetReference, Wakeup, Idle,
     RemoveAnnotations, RetryGet, RetryPut, RetryCalls
<1>4. wk.phase = "put" /\ CanUpdate(wl[wk.ir.ref], wk.wl)
  BY <1>2 DEF SetReference, Wakeup, Idle, RemoveAnnotations, RetryGet, RetryPut, wlVars
<1>5. wk.wl = wl[wk.ir.ref] /\ wl[wk.ir.ref].live
  BY <1>4, AcceptedIsStored DEF WorkerInv, CanUpdate
<1>6. WriteWorkload(wk.ir.ref, EditOf(wk.call))
  BY <1>2, <1>4, <1>5
     DEF SetReference, Wakeup, Idle, RemoveAnnotations, RetryGet, RetryPut, EditOf
<1>7. EditOf(wk.call) \in WorkloadObject
  <2>1. wl[wk.ir.ref] \in WorkloadObject /\ wk.target \in Nat
    BY <1>3, WorkerFacts DEF Typed, TypeOK
  <2> QED BY <1>3, <2>1, EditTypes DEF EditOf, RetryCalls
<1> QED BY <1>3, <1>5, <1>6, <1>7

(* A write passes the operator's own event filter only where SetReference  *)
(* takes a workload over from another IdlingResource.                      *)
LEMMA QuietStep ==
  ASSUME IInv, [Next]_vars, NEW w \in Workloads,
         wk.call = "SetReference" /\ wk.ir.ref = w => wl[w].ref \in {None, wk.key}
  PROVE  wk' # wk => QuietAt(w)
<1> SUFFICES ASSUME wk' # wk, wl'[w] # wl[w], wl[w].ref # None
             PROVE  wl'[w].exp = None \/ wl'[w].level = wl'[w].exp
  BY DEF QuietAt, KidleChangedPredicate
<1>1. Typed /\ WorkerInv /\ wl \in [Workloads -> WorkloadObject]
  BY DEF IInv, Typed, TypeOK
<1>2. ~Environment
  BY <1>1, UserTypes DEF Typed, Environment, Resync, UserWritesIR, UserWritesWorkload
<1>3. /\ wk.key \in IRs /\ Kind \in SupportedKinds /\ wk.call \in RetryCalls
      /\ wk.ir.ref \in Workloads /\ WriteWorkload(wk.ir.ref, EditOf(wk.call))
      /\ EditOf(wk.call) \in WorkloadObject
  BY <1>1, <1>2, OperatorWritesWorkload
<1>4. w = wk.ir.ref /\ wl'[w] = NextVersion(wl[w], EditOf(wk.call))
  BY <1>1, <1>3 DEF WriteWorkload
<1>5. wl[w] \in WorkloadObject
  BY <1>1
<1>6. CASE wk.call = "SetReference"
  <2>1. EditOf(wk.call) = wl[w]
    BY <1>4, <1>5, <1>6 DEF EditOf, SetReferenceEdit, WorkloadObject
  <2> QED BY <1>4, <2>1 DEF NextVersion
<1>7. CASE wk.call = "Wakeup"
  <2>1. EditOf(wk.call) = WakeupEdit(wl[w], wk.target)
    BY <1>4, <1>7 DEF EditOf
  <2>2. EditOf(wk.call).exp = EditOf(wk.call).level
    BY <1>5, <2>1 DEF WakeupEdit, WorkloadObject
  <2> QED BY <1>3, <1>4, <1>5, <2>2, SentFields
<1>8. CASE wk.call = "Idle"
  <2>1. EditOf(wk.call) = IdleEdit(Kind, wl[w])
    BY <1>4, <1>8 DEF EditOf
  <2>2. EditOf(wk.call) \in {DeploymentIdle(wl[w]), CronJobIdle(wl[w])}
    BY <1>3, <2>1 DEF IdleEdit, StatefulSetIdle, SupportedKinds
  <2>3. EditOf(wk.call).exp = 0 /\ EditOf(wk.call).level = 0
    BY <1>5, <2>2 DEF DeploymentIdle, CronJobIdle, WorkloadObject
  <2> QED BY <1>3, <1>4, <1>5, <2>3, SentFields
<1>9. CASE wk.call = "RemoveAnnotations"
  <2>1. EditOf(wk.call) = RemoveAnnotationsEdit(wl[w])
    BY <1>4, <1>9 DEF EditOf
  <2>2. EditOf(wk.call).exp = None
    BY <1>5, <2>1 DEF RemoveAnnotationsEdit, WorkloadObject
  <2> QED BY <1>3, <1>4, <1>5, <2>2, SentFields
<1> QED BY <1>3, <1>6, <1>7, <1>8, <1>9 DEF RetryCalls

-----------------------------------------------------------------------------
(* Finalizers.                                                             *)

(* Only an IdlingResource with a finalizer is ever being deleted.          *)
FinalizedInv == \A i \in IRs : ir[i].live /\ ir[i].deleting => ir[i].fin

LEMMA FinalizedInit == Init => FinalizedInv
<1> SUFFICES ASSUME Init, NEW i \in IRs PROVE ~ir[i].deleting
  BY DEF FinalizedInv
<1>1. ir[i] \in InitialIRs
  BY DEF Init
<1>2. ~NoIR.deleting
  BY DEF NoIR
<1>3. \A idle \in BOOLEAN, w \in Workloads : ~[NewIR(idle, w) EXCEPT !.rv = 1].deleting
  <2> TAKE idle \in BOOLEAN, w \in Workloads
  <2>1. NewIR(idle, w) \in IRObject /\ ~NewIR(idle, w).deleting
    BY NewObjects DEF NewIR, NoIR
  <2> QED BY <2>1 DEF IRObject
<1>4. CASE \E idle \in BOOLEAN, w \in Workloads : ir[i] = [NewIR(idle, w) EXCEPT !.rv = 1]
  BY <1>3, <1>4
<1> QED BY <1>1, <1>2, <1>4 DEF InitialIRs

(* Who writes IdlingResources, and what.                                   *)
LEMMA FinalizedStep ==
  ASSUME Typed, WorkerInv, FinalizedInv, [Next]_vars
  PROVE  FinalizedInv'
<1> SUFFICES ASSUME NEW i \in IRs, ir'[i].live, ir'[i].deleting, ir'[i] # ir[i]
             PROVE  ir'[i].fin
  BY DEF FinalizedInv
<1>1. ir \in [IRs -> IRObject] /\ ir[i] \in IRObject
  BY DEF Typed, TypeOK
<1>2. ASSUME NEW j \in IRs, NEW obj \in IRObject, WriteIR(j, obj)
      PROVE  /\ j = i
             /\ ir'[i].live = obj.live /\ ir'[i].deleting = obj.deleting
             /\ ir'[i].fin = obj.fin
  BY <1>1, <1>2 DEF WriteIR, NextVersion, IRObject
<1>3. ASSUME NEW j \in IRs, CreateIR(j) \/ SetIdle(j) \/ EditRef(j) \/ DeleteIR(j)
      PROVE  ir'[i].fin
  <2>1. PICK obj \in IRObject :
           /\ WriteIR(j, obj)
           /\ obj.live /\ obj.deleting /\ ~obj.fin
                 => ir[j].live /\ ir[j].deleting /\ ~ir[j].fin
    <3>1. ir[j] \in IRObject
      BY <1>1
    <3>2. CASE CreateIR(j)
      <4>1. PICK idle \in BOOLEAN, w \in Workloads : WriteIR(j, NewIR(idle, w))
        BY <3>2 DEF CreateIR, UserWritesIR
      <4>2. NewIR(idle, w) \in IRObject /\ ~NewIR(idle, w).deleting
        BY NewObjects DEF NewIR, NoIR
      <4> QED BY <4>1, <4>2
    <3>3. CASE SetIdle(j)
      <4> DEFINE obj == [ir[j] EXCEPT !.idle = ~@]
      <4>1. obj \in IRObject /\ obj.deleting = ir[j].deleting /\ obj.fin = ir[j].fin
        BY <3>1 DEF IRObject
      <4>2. WriteIR(j, obj) /\ ir[j].live
        BY <3>3 DEF SetIdle, UserWritesIR
      <4> QED BY <3>1, <4>1, <4>2 DEF IRObject
    <3>4. CASE EditRef(j)
      <4>1. PICK w \in Workloads : WriteIR(j, [ir[j] EXCEPT !.ref = w])
        BY <3>4 DEF EditRef, UserWritesIR
      <4> DEFINE obj == [ir[j] EXCEPT !.ref = w]
      <4>2. obj \in IRObject /\ obj.deleting = ir[j].deleting /\ obj.fin = ir[j].fin
        BY <3>1 DEF IRObject
      <4> QED BY <3>1, <3>4, <4>1, <4>2 DEF IRObject, EditRef
    <3>5. CASE DeleteIR(j) /\ ir[j].fin
      <4> DEFINE obj == [ir[j] EXCEPT !.deleting = TRUE]
      <4>1. obj \in IRObject /\ obj.fin
        BY <3>1, <3>5 DEF IRObject
      <4> QED BY <3>5, <4>1 DEF DeleteIR, UserWritesIR
    <3>6. CASE DeleteIR(j) /\ ~ir[j].fin
      <4>1. Removed(ir[j]) \in IRObject /\ ~Removed(ir[j]).live
        BY <3>1 DEF Removed, IRObject
      <4> QED BY <3>6, <4>1 DEF DeleteIR, UserWritesIR
    <3> QED BY <1>3, <3>2, <3>3, <3>4, <3>5, <3>6
  <2> QED BY <1>2, <2>1 DEF FinalizedInv
<1>4. CASE AddFinalizer \/ RemoveFinalizer
  <2>1. wk.key \in IRs /\ wk.ir \in IRObject
    BY <1>4, WorkerFacts DEF Typed, TypeOK, AddFinalizer, RemoveFinalizer
  <2> DEFINE kept == [wk.ir EXCEPT !.fin = TRUE]
  <2>2. /\ kept \in IRObject /\ kept.fin
        /\ Removed(wk.ir) \in IRObject /\ ~Removed(wk.ir).live
    BY <2>1 DEF IRObject, Removed
  <2>3. WriteIR(wk.key, kept) \/ WriteIR(wk.key, Removed(wk.ir))
    BY <1>4 DEF AddFinalizer, RemoveFinalizer, irVars
  <2> QED BY <1>2, <2>1, <2>2, <2>3
<1>5. ASSUME NEW w \in Workloads,
             CreateWorkload(w) \/ ScaleWorkload(w) \/ TouchWorkload(w) \/ DeleteWorkload(w)
      PROVE  FALSE
  BY <1>5, UserTypes DEF Typed, UserWritesWorkload, irVars
<1>6. ASSUME SetReference \/ Wakeup \/ Idle \/ RemoveAnnotations
      PROVE  FALSE
  BY <1>6 DEF SetReference, Wakeup, Idle, RemoveAnnotations, RetryGet, RetryPut, irVars
<1>7. CASE WorkerStep
  BY <1>4, <1>6, <1>7 DEF WorkerStep, GetIdlingResource, ReconcileCronStrategies,
     GetWorkload, ReturnOk, ReturnRequeueAfter, ReturnErr, irVars
<1>8. CASE Environment
  BY <1>3, <1>5, <1>8 DEF Environment, Resync, irVars
<1>9. CASE \/ \E j \in IRs : Take(j) \/ TimerFires(j) \/ DeliverIR(j)
           \/ \E w \in Workloads : DeliverWorkload(w)
           \/ CrashRestart \/ Fault \/ UNCHANGED vars
  BY <1>9 DEF Take, TimerFires, DeliverIR, DeliverWorkload, CrashRestart, Fault, irVars, vars
<1> QED BY <1>7, <1>8, <1>9 DEF Next

(* The finalizer is there before a deletion can be asked for in any        *)
(* reachable state.                                                        *)
LEMMA FinalizedInvariance == Spec => []FinalizedInv
<1>1. IInv /\ FinalizedInv /\ [Next]_vars => FinalizedInv'
  BY FinalizedStep DEF IInv, Typed
<1> QED BY <1>1, FinalizedInit, Invariance, PTL DEF Spec

-----------------------------------------------------------------------------
(* Workloads of one's own.                                                 *)

(* Users never write a reference: it stays, or goes with the workload.     *)
LEMMA UserRefs ==
  ASSUME Typed, UNCHANGED wl \/ Environment, NEW w \in Workloads
  PROVE  wl'[w].ref \in {None, wl[w].ref}
<1>1. wl \in [Workloads -> WorkloadObject]
  BY DEF Typed, TypeOK
<1>2. ASSUME NEW v \in Workloads,
             \/ CreateWorkload(v) \/ ScaleWorkload(v) \/ TouchWorkload(v) \/ DeleteWorkload(v)
      PROVE  \E obj \in WorkloadObject : /\ WriteWorkload(v, obj)
                                        /\ obj.ref \in {None, wl[v].ref}
  <2>1. wl[v] \in WorkloadObject /\ LevelsOf(v) \subseteq Nat
    BY <1>1, LevelsAssumption DEF LevelsOf
  <2>2. /\ NoWorkload \in WorkloadObject /\ NoWorkload.ref = None
        /\ \A n \in LevelsOf(v) : NewWorkload(n) \in WorkloadObject /\ NewWorkload(n).ref = None
    BY <2>1, NewObjects, NullObjects DEF NewWorkload, NoWorkload
  <2>3. /\ \A n \in LevelsOf(v) : LET obj == [wl[v] EXCEPT !.level = n] IN
               obj \in WorkloadObject /\ obj.ref = wl[v].ref
        /\ LET obj == [wl[v] EXCEPT !.rv = @ + 1] IN
               obj \in WorkloadObject /\ obj.ref = wl[v].ref
    BY <2>1 DEF WorkloadObject
  <2>4. CASE CreateWorkload(v) \/ DeleteWorkload(v)
    BY <2>2, <2>4 DEF CreateWorkload, DeleteWorkload, UserWritesWorkload
  <2>5. CASE ScaleWorkload(v) \/ TouchWorkload(v)
    BY <2>3, <2>5 DEF ScaleWorkload, TouchWorkload, UserWritesWorkload
  <2> QED BY <1>2, <2>4, <2>5
<1>3. ASSUME NEW v \in Workloads, NEW obj \in WorkloadObject,
             WriteWorkload(v, obj), obj.ref \in {None, wl[v].ref}
      PROVE  wl'[w].ref \in {None, wl[w].ref}
  BY <1>1, <1>3, SentFields DEF WriteWorkload
<1>4. ASSUME NEW i \in IRs, CreateIR(i) \/ SetIdle(i) \/ EditRef(i) \/ DeleteIR(i)
      PROVE  UNCHANGED wl
  BY <1>4, UserTypes DEF Typed, UserWritesIR, wlVars
<1>5. Resync => UNCHANGED wl
  BY DEF Resync, wlVars
<1> QED BY <1>2, <1>3, <1>4, <1>5 DEF Environment

(* Every version of i that is still on its way refers to a workload i may  *)
(* refer to, and so does the copy a reconciliation works from; a workload  *)
(* refers to nobody that may not refer to it.                              *)
Owns(owner, i, o) == o.live => MayReferTo(owner, i, o.ref)

OwnedInv(owner) ==
    /\ \A i \in IRs : /\ Owns(owner, i, irCache[i])
                      /\ \A n \in 1 .. Len(irWatch[i]) : Owns(owner, i, irWatch[i][n])
    /\ wk.call \notin {"Free", "GetIdlingResource", "Ok", "Err"}
          => wk.ir.live /\ MayReferTo(owner, wk.key, wk.ir.ref)
    /\ \A w \in Workloads : wl[w].ref = None \/ MayReferTo(owner, wl[w].ref, w)

LEMMA OwnedInit ==
  ASSUME NEW owner
  PROVE  Init /\ Dedicated(owner) => OwnedInv(owner)
<1> SUFFICES ASSUME Init, Dedicated(owner) PROVE OwnedInv(owner)
  OBVIOUS
<1>1. \A i \in IRs : irWatch[i] = <<>> /\ irCache[i] = ir[i] /\ Owns(owner, i, ir[i])
  BY DEF Init, Dedicated, Owns
<1>2. ASSUME NEW w \in Workloads PROVE wl[w].ref = None
  <2>1. wl[w] \in InitialWorkloads(w)
    BY DEF Init
  <2>2. \A n \in LevelsOf(w) : NewWorkload(n).ref = None
    BY DEF NewWorkload, NoWorkload
  <2>3. NoWorkload.ref = None
    BY DEF NoWorkload
  <2> QED BY <2>1, <2>2, <2>3 DEF InitialWorkloads
<1>3. wk.call = "Free"
  BY DEF Init, FreeWorker
<1> QED BY <1>1, <1>2, <1>3 DEF OwnedInv

LEMMA OwnedStep ==
  ASSUME NEW owner, IInv, OwnedInv(owner), Dedicated(owner)', [Next]_vars
  PROVE  OwnedInv(owner)'
<1>1. /\ Typed /\ TypeOK /\ WorkerInv /\ ir' \in [IRs -> IRObject]
      /\ irWatch \in [IRs -> Seq(IRObject)] /\ ir \in [IRs -> IRObject]
      /\ wk \in Worker /\ wk.ir \in IRObject /\ wl \in [Workloads -> WorkloadObject]
      /\ (wk.call # "Free" => wk.key \in IRs)
  BY TypedStep, WorkerFacts DEF IInv, Typed, TypeOK
<1>2. ASSUME NEW i \in IRs
      PROVE  /\ Owns(owner, i, irCache'[i])
             /\ \A n \in 1 .. Len(irWatch'[i]) : Owns(owner, i, irWatch'[i][n])
  <2>1. /\ Owns(owner, i, irCache[i]) /\ Owns(owner, i, ir'[i])
        /\ \A n \in 1 .. Len(irWatch[i]) : Owns(owner, i, irWatch[i][n])
    BY DEF OwnedInv, Dedicated, Owns
  <2>2. CASE WritesIR
    <3>1. /\ irCache'[i] = irCache[i]
          /\ irWatch'[i] = irWatch[i] \/ irWatch'[i] = Append(irWatch[i], ir'[i])
      BY <1>1, <2>2 DEF WritesIR, WriteIR
    <3>2. CASE irWatch'[i] = Append(irWatch[i], ir'[i])
      <4>1. /\ Len(irWatch'[i]) = Len(irWatch[i]) + 1
            /\ irWatch'[i][Len(irWatch[i]) + 1] = ir'[i]
            /\ \A n \in 1 .. Len(irWatch[i]) : irWatch'[i][n] = irWatch[i][n]
        BY <1>1, <3>2, AppendProperties
      <4>2. \A n \in 1 .. Len(irWatch'[i]) :
               n \in 1 .. Len(irWatch[i]) \/ n = Len(irWatch[i]) + 1
        BY <1>1, <4>1
      <4> QED BY <2>1, <3>1, <4>1, <4>2
    <3> QED BY <2>1, <3>1, <3>2
  <2>3. ASSUME NEW j \in IRs, DeliverIR(j)
        PROVE  /\ Owns(owner, i, irCache'[i])
               /\ \A n \in 1 .. Len(irWatch'[i]) : Owns(owner, i, irWatch'[i][n])
    <3>1. CASE i = j
      <4>1. /\ irWatch[i] # <<>> /\ irWatch'[i] = Tail(irWatch[i])
            /\ irCache'[i] = Head(irWatch[i])
        BY <1>1, <2>3, <3>1 DEF DeliverIR, TypeOK
      <4>2. /\ 1 \in 1 .. Len(irWatch[i]) /\ irCache'[i] = irWatch[i][1]
            /\ \A n \in 1 .. Len(irWatch'[i]) :
                  n + 1 \in 1 .. Len(irWatch[i]) /\ irWatch'[i][n] = irWatch[i][n + 1]
        BY <1>1, <4>1
      <4> QED BY <2>1, <4>2
    <3>2. CASE i # j
      BY <1>1, <2>1, <2>3, <3>2 DEF DeliverIR, TypeOK
    <3> QED BY <3>1, <3>2
  <2>4. CASE CrashRestart
    BY <2>1, <2>4 DEF CrashRestart
  <2>5. CASE UNCHANGED irVars
    BY <2>1, <2>5 DEF irVars
  <2> QED BY <1>1, <2>2, <2>3, <2>4, <2>5, IRSteps
<1>3. ASSUME wk'.call \notin {"Free", "GetIdlingResource", "Ok", "Err"}
      PROVE  wk'.ir.live /\ MayReferTo(owner, wk'.key, wk'.ir.ref)
  <2>1. CASE UNCHANGED wk
    BY <1>3, <2>1 DEF OwnedInv
  <2>2. CASE Proceeds
    BY <2>2 DEF OwnedInv, Proceeds
  <2>3. CASE CopiesWorkload
    BY <1>1, <1>3, <2>3 DEF OwnedInv, CopiesWorkload, Worker
  <2>4. CASE WritesFinalizer
    <3>1. AddFinalizer /\ CanUpdate(ir[wk.key], wk.ir) /\ wk.key \in IRs
      BY <1>1, <2>4 DEF WritesFinalizer
    <3>2. WriteIR(wk.key, [wk.ir EXCEPT !.fin = TRUE]) /\ wk.ir.live
      BY <3>1 DEF AddFinalizer, OwnedInv
    <3>3. ir'[wk.key].live
      BY <1>1, <3>1, <3>2 DEF WriteIR, NextVersion, IRObject
    <3>4. wk'.key = wk.key /\ wk'.ir = ir'[wk.key]
      BY <2>4 DEF WritesFinalizer, Jump, FreeWorker
    <3> QED BY <3>1, <3>3, <3>4 DEF Dedicated
  <2>5. CASE GetIdlingResource
    <3>1. wk'.key = wk.key /\ wk'.ir = irCache[wk.key] /\ irCache[wk.key].live /\ wk.key \in IRs
      BY <1>1, <1>3, <2>5 DEF GetIdlingResource, Jump, FreeWorker
    <3> QED BY <3>1 DEF OwnedInv, Owns
  <2>6. ~GivesUp
    BY <1>3 DEF GivesUp, Jump, FreeWorker
  <2>7. ~Returns /\ ~CrashRestart
    BY <1>3 DEF Returns, ReturnOk, ReturnRequeueAfter, ReturnErr, CrashRestart, FreeWorker
  <2>8. \A i \in IRs : ~Take(i)
    BY <1>3 DEF Take, FreeWorker
  <2> QED BY <1>1, <2>1, <2>2, <2>3, <2>4, <2>5, <2>6, <2>7, <2>8, WorkerMoves
<1>4. ASSUME NEW w \in Workloads
      PROVE  wl'[w].ref = None \/ MayReferTo(owner, wl'[w].ref, w)
  <2>1. CASE UNCHANGED wl \/ Environment
    BY <1>1, <2>1, UserRefs DEF OwnedInv
  <2>2. CASE ~(UNCHANGED wl \/ Environment)
    <3> DEFINE u == wk.ir.ref
    <3>1. /\ u \in Workloads /\ wk.key \in IRs /\ Kind \in SupportedKinds
          /\ wk.call \in RetryCalls /\ WriteWorkload(u, EditOf(wk.call))
          /\ EditOf(wk.call) \in WorkloadObject
      BY <1>1, <2>2, OperatorWritesWorkload
    <3>2. /\ wl[u].ref = None \/ MayReferTo(owner, wl[u].ref, u)
          /\ MayReferTo(owner, wk.key, u) /\ wl[u] \in WorkloadObject
      BY <1>1, <3>1 DEF OwnedInv, RetryCalls
    <3>3. EditOf(wk.call).ref = None \/ MayReferTo(owner, EditOf(wk.call).ref, u)
      <4>1. IdleEdit(Kind, wl[u]) \in {DeploymentIdle(wl[u]), CronJobIdle(wl[u])}
        BY <3>1 DEF IdleEdit, StatefulSetIdle, SupportedKinds
      <4>2. /\ SetReferenceEdit(wl[u], wk.key).ref = wk.key
            /\ WakeupEdit(wl[u], wk.target).ref = wl[u].ref
            /\ IdleEdit(Kind, wl[u]).ref = wl[u].ref
            /\ RemoveAnnotationsEdit(wl[u]).ref = None
        BY <3>2, <4>1 DEF SetReferenceEdit, WakeupEdit, DeploymentIdle, CronJobIdle,
           RemoveAnnotationsEdit, WorkloadObject
      <4> QED BY <3>1, <3>2, <4>2 DEF EditOf, RetryCalls
    <3>4. wl'[u].ref = EditOf(wk.call).ref /\ (w # u => wl'[w] = wl[w])
      BY <1>1, <3>1, SentFields DEF WriteWorkload
    <3> QED BY <3>3, <3>4 DEF OwnedInv
  <2> QED BY <2>1, <2>2
<1> QED BY <1>2, <1>3, <1>4 DEF OwnedInv, Owns

(* While users give each IdlingResource workloads of its own, the copies   *)
(* and the references keep to them, however stale the copies are.          *)
LEMMA OwnedInvariance ==
  ASSUME NEW owner
  PROVE  Spec /\ []Dedicated(owner) => []OwnedInv(owner)
<1>1. IInv /\ OwnedInv(owner) /\ Dedicated(owner)' /\ [Next]_vars => OwnedInv(owner)'
  BY OwnedStep
<1> QED BY <1>1, OwnedInit, Invariance, PTL DEF Spec

(* No write of the operator to a workload that has an owner passes its own *)
(* event filter, whatever the IdlingResources that share others do.  With  *)
(* two that take turns at a workload a write may: the second takes the     *)
(* reference over with whatever level a user has set meanwhile.            *)
THEOREM OwnedWritesQuiet ==
  ASSUME NEW owner, NEW w \in Workloads, owner[w] \in IRs
  PROVE  Spec /\ []Dedicated(owner) => [][wk' # wk => QuietAt(w)]_vars
<1>1. ASSUME IInv, OwnedInv(owner), [Next]_vars PROVE wk' # wk => QuietAt(w)
  <2>1. wk.call = "SetReference" /\ wk.ir.ref = w => wl[w].ref \in {None, wk.key}
    BY <1>1 DEF OwnedInv, MayReferTo
  <2> QED BY <1>1, <2>1, QuietStep
<1>2. IInv /\ OwnedInv(owner) /\ [Next]_vars => [wk' # wk => QuietAt(w)]_vars
  BY <1>1
<1> QED BY <1>2, OwnedInvariance, Invariance, PTL DEF Spec

(* If every workload has an owner, no write of the operator does.          *)
THEOREM QuietWritesHold ==
  ASSUME NEW owner, \A w \in Workloads : owner[w] \in IRs
  PROVE  Spec /\ []Dedicated(owner) => QuietWrites
<1> DEFINE Quiet == wk' # wk => \A w \in Workloads : QuietAt(w)
<1>1. ASSUME IInv, OwnedInv(owner), [Next]_vars, NEW w \in Workloads PROVE wk' # wk => QuietAt(w)
  <2>1. wk.call = "SetReference" /\ wk.ir.ref = w => wl[w].ref \in {None, wk.key}
    BY <1>1 DEF OwnedInv, MayReferTo
  <2> QED BY <1>1, <2>1, QuietStep
<1>2. IInv /\ OwnedInv(owner) /\ [Next]_vars => [Quiet]_vars
  BY <1>1
<1> QED BY <1>2, OwnedInvariance, Invariance, PTL DEF Spec, QuietWrites

(* Nor does one if there is a single IdlingResource.                       *)
THEOREM QuietWritesOfOne ==
  ASSUME \A i, j \in IRs : i = j
  PROVE  Spec => QuietWrites
<1> DEFINE Quiet == wk' # wk => \A w \in Workloads : QuietAt(w)
<1>1. ASSUME IInv, [Next]_vars, NEW w \in Workloads PROVE wk' # wk => QuietAt(w)
  <2>1. wk.call = "SetReference" => wk.key \in IRs /\ wl[w].ref \in IRs \cup {None}
    BY <1>1 DEF IInv, TypeOK, WorkloadObject
  <2> QED BY <1>1, <2>1, QuietStep
<1>2. IInv /\ [Next]_vars => [Quiet]_vars
  BY <1>1
<1> QED BY <1>2, Invariance, PTL DEF Spec, QuietWrites
=============================================================================
