------------------------- MODULE KidleOperatorRelease -------------------------
(***************************************************************************)
(* Deletions, however far the caches lag behind.  The finalizer comes off  *)
(* last (ReleasedAtRemoval): what has to be shown is that a workload which *)
(* a stale cache says is gone carries nothing of the operator's, if        *)
(* another has taken its name by now.  And it does come off                *)
(* (NoDeletionForgotten): no reconciliation of a version that waits for it *)
(* ends in success.                                                        *)
(***************************************************************************)
EXTENDS KidleOperatorSafety

-----------------------------------------------------------------------------
(* What has to be added to the inductive invariant.                        *)

(* The versions on their way to the cache are newer than what it holds;    *)
(* only the last of them is the stored one.                                *)
StrictWatch(stored, watch, cache) ==
    /\ watch # <<>> => cache.rv < stored.rv
    /\ \A n \in 1 .. Len(watch) - 1 : watch[n].rv < stored.rv

(* A copy the API server will accept was read from a cache that has caught *)
(* up since.                                                               *)
AcceptedCopyInv ==
    wk.phase = "put" /\ wk.wl.rv = wl[wk.ir.ref].rv => WorkloadSynced(wk.ir.ref)

Marked(o) == o.live /\ HasAnnotationsToRemove(o)

(* Where a cache still shows that a workload is gone, or is about to, the  *)
(* operator has not written to the one that took its name.                 *)
NewWorkloadInv ==
    \A w \in Workloads :
        \/ ~Marked(wl[w])
        \/ wlCache[w].live /\ \A n \in 1 .. Len(wlWatch[w]) : wlWatch[w][n].live

(* The workload is released before the finalizer is removed.               *)
RemovalInv == wk.call = "RemoveFinalizer" => ~Marked(wl[wk.ir.ref])

ReleaseInv ==
    /\ \A w \in Workloads : StrictWatch(wl[w], wlWatch[w], wlCache[w])
    /\ AcceptedCopyInv /\ NewWorkloadInv /\ RemovalInv

-----------------------------------------------------------------------------
(* Watches are in order.                                                   *)

(* A new version is newer than all that are on their way.                  *)
LEMMA StrictAppend ==
  ASSUME NEW S, \A x \in S : x.rv \in Nat,
         NEW stored \in S, NEW new \in S, NEW cache \in S, NEW watch \in Seq(S),
         WatchOf(stored, watch, cache), new.rv = stored.rv + 1
  PROVE  StrictWatch(new, Append(watch, new), cache)
<1> DEFINE longer == Append(watch, new)
<1>1. /\ Len(longer) - 1 = Len(watch)
      /\ \A n \in 1 .. Len(watch) : longer[n] = watch[n] /\ watch[n] \in S
  OBVIOUS
<1>2. cache.rv < new.rv
  BY DEF WatchOf, VersionOf
<1>3. \A n \in 1 .. Len(watch) : watch[n].rv < new.rv
  BY <1>1 DEF WatchOf, VersionOf
<1> HIDE DEF longer
<1>4. StrictWatch(new, longer, cache)
  BY <1>1, <1>2, <1>3 DEF StrictWatch
<1> QED BY <1>4 DEF longer

(* A watch whose first version goes to the cache stays in order.           *)
LEMMA StrictDeliver ==
  ASSUME NEW S, NEW stored \in S, NEW cache \in S, NEW watch \in Seq(S),
         watch # <<>>, StrictWatch(stored, watch, cache)
  PROVE  StrictWatch(stored, Tail(watch), Head(watch))
<1>1. /\ Len(watch) \in Nat \ {0} /\ Head(watch) = watch[1]
      /\ Tail(watch) \in Seq(S) /\ Len(Tail(watch)) = Len(watch) - 1
      /\ \A n \in 1 .. Len(Tail(watch)) : Tail(watch)[n] = watch[n + 1]
  OBVIOUS
<1>2. Tail(watch) # <<>> => Head(watch).rv < stored.rv
  <2>1. Tail(watch) # <<>> => 1 \in 1 .. Len(watch) - 1
    BY <1>1, EmptySeq
  <2> QED BY <1>1, <2>1 DEF StrictWatch
<1>3. \A n \in 1 .. Len(Tail(watch)) - 1 : Tail(watch)[n].rv < stored.rv
  BY <1>1 DEF StrictWatch
<1> QED BY <1>2, <1>3 DEF StrictWatch

(* Every step keeps the watches of the workloads in order.                 *)
LEMMA StrictStep ==
  ASSUME Typed, WorkloadWatchesInv, [Next]_vars, NEW w \in Workloads,
         StrictWatch(wl[w], wlWatch[w], wlCache[w])
  PROVE  StrictWatch(wl'[w], wlWatch'[w], wlCache'[w])
<1>1. /\ wl \in [Workloads -> WorkloadObject] /\ wlCache \in [Workloads -> WorkloadObject]
      /\ wlWatch \in [Workloads -> Seq(WorkloadObject)]
      /\ WatchOf(wl[w], wlWatch[w], wlCache[w])
      /\ \A x \in WorkloadObject : x.rv \in Nat
  BY DEF Typed, TypeOK, WorkloadWatchesInv, WorkloadObject
<1>2. CASE UNCHANGED wlVars
  BY <1>1, <1>2 DEF wlVars
<1>3. CASE WritesWorkload
  <2>1. PICK v \in Workloads, obj \in WorkloadObject : WriteWorkload(v, obj)
    BY <1>3 DEF WritesWorkload
  <2> DEFINE new == NextVersion(wl[v], obj)
  <2>2. CASE w # v \/ new = wl[w]
    BY <1>1, <2>1, <2>2 DEF WriteWorkload
  <2>3. CASE w = v /\ new # wl[w]
    <3>1. new \in WorkloadObject /\ new.rv = wl[w].rv + 1
      BY <1>1, <2>1, <2>3, NextWorkloadType, NextWorkloadVersion
    <3>2. wl'[w] = new /\ wlWatch'[w] = Append(wlWatch[w], new) /\ wlCache'[w] = wlCache[w]
      BY <1>1, <2>1, <2>3 DEF WriteWorkload
    <3> QED BY <1>1, <3>1, <3>2, StrictAppend
  <2> QED BY <2>2, <2>3
<1>4. ASSUME NEW v \in Workloads, DeliverWorkload(v)
      PROVE  StrictWatch(wl'[w], wlWatch'[w], wlCache'[w])
  <2>1. CASE w = v
    <3>1. /\ wlWatch[w] # <<>> /\ wl'[w] = wl[w]
          /\ wlWatch'[w] = Tail(wlWatch[w]) /\ wlCache'[w] = Head(wlWatch[w])
      BY <1>1, <1>4, <2>1 DEF DeliverWorkload
    <3> QED BY <1>1, <3>1, StrictDeliver
  <2>2. CASE w # v
    BY <1>1, <1>4, <2>2 DEF DeliverWorkload
  <2> QED BY <2>1, <2>2
<1>5. CASE CrashRestart
  <2>1. wlWatch'[w] = <<>>
    BY <1>5 DEF CrashRestart
  <2> QED BY <2>1 DEF StrictWatch
<1> QED BY <1>2, <1>3, <1>4, <1>5, WorkloadSteps

-----------------------------------------------------------------------------
(* Who writes workloads.                                                   *)

(* A user's write marks no workload.                                       *)
UserChangesWorkload ==
    /\ UNCHANGED wk
    /\ \E w \in Workloads, obj \in WorkloadObject :
          WriteWorkload(w, obj) /\ (Marked(obj) => Marked(wl[w]))

(* The operator's goes to a copy the API server accepts.                   *)
OperatorChangesWorkload ==
    /\ wk.call \in RetryCalls /\ wk.phase = "put"
    /\ CanUpdate(wl[wk.ir.ref], wk.wl)
    /\ \E obj \in WorkloadObject : WriteWorkload(wk.ir.ref, obj) /\ obj.live = wk.wl.live

(* What a step may do to a stored workload, and who does it.               *)
LEMMA WhoWritesWorkloads ==
  ASSUME Typed, [Next]_vars
  PROVE  UNCHANGED wl \/ UserChangesWorkload \/ OperatorChangesWorkload
<1>1. TypeOK /\ wl \in [Workloads -> WorkloadObject]
  BY DEF Typed, TypeOK
<1>2. ASSUME SetReference \/ Wakeup \/ Idle \/ RemoveAnnotations
      PROVE  UNCHANGED wl \/ OperatorChangesWorkload
  <2>1. /\ wk.ir.ref \in Workloads /\ wk.wl \in WorkloadObject /\ wk.target \in Nat
        /\ wk.call \in RetryCalls
    BY <1>2, WorkerFacts DEF Typed, SetReference, Wakeup, Idle, RemoveAnnotations,
       RetryGet, RetryPut, RetryCalls
  <2>2. wk.key \in IRs /\ Kind \in SupportedKinds
    BY <2>1 DEF Typed, TypeOK, CallInv, RetryCalls
  <2>3. \A obj \in {SetReferenceEdit(wk.wl, wk.key), WakeupEdit(wk.wl, wk.target),
                    IdleEdit(Kind, wk.wl), RemoveAnnotationsEdit(wk.wl)} :
           obj \in WorkloadObject /\ obj.live = wk.wl.live
    <3>1. \A obj \in {SetReferenceEdit(wk.wl, wk.key), WakeupEdit(wk.wl, wk.target),
                      IdleEdit(Kind, wk.wl), RemoveAnnotationsEdit(wk.wl)} :
             obj \in WorkloadObject
      BY <2>1, <2>2, EditTypes
    <3>2. IdleEdit(Kind, wk.wl) \in {DeploymentIdle(wk.wl), CronJobIdle(wk.wl)}
      BY <2>2 DEF IdleEdit, StatefulSetIdle, SupportedKinds
    <3> QED BY <2>1, <3>1, <3>2
        DEF SetReferenceEdit, WakeupEdit, DeploymentIdle, CronJobIdle, RemoveAnnotationsEdit,
            WorkloadObject
  <2> QED BY <1>2, <2>1, <2>3
      DEF SetReference, Wakeup, Idle, RemoveAnnotations, RetryGet, RetryPut, wlVars,
          OperatorChangesWorkload
<1>3. ASSUME NEW w \in Workloads,
             CreateWorkload(w) \/ ScaleWorkload(w) \/ TouchWorkload(w) \/ DeleteWorkload(w)
      PROVE  UserChangesWorkload
  <2>1. wl[w] \in WorkloadObject /\ LevelsOf(w) \subseteq Nat
    BY <1>1, LevelsAssumption DEF LevelsOf
  <2>2. ~Marked(NoWorkload) /\ NoWorkload \in WorkloadObject
    BY NullObjects DEF Marked, NoWorkload
  <2>3. \A n \in Nat : NewWorkload(n) \in WorkloadObject /\ ~Marked(NewWorkload(n))
    BY NewObjects DEF Marked, NewWorkload, NoWorkload, HasAnnotationsToRemove
  <2>4. /\ \A n \in Nat : [wl[w] EXCEPT !.level = n] \in WorkloadObject
                          /\ (Marked([wl[w] EXCEPT !.level = n]) => Marked(wl[w]))
        /\ [wl[w] EXCEPT !.rv = @ + 1] \in WorkloadObject
        /\ Marked([wl[w] EXCEPT !.rv = @ + 1]) => Marked(wl[w])
    BY <2>1 DEF Marked, HasAnnotationsToRemove, WorkloadObject
  <2>5. CASE CreateWorkload(w)
    BY <2>1, <2>3, <2>5 DEF CreateWorkload, UserWritesWorkload, UserChangesWorkload
  <2>6. CASE ScaleWorkload(w)
    BY <2>1, <2>4, <2>6 DEF ScaleWorkload, UserWritesWorkload, UserChangesWorkload
  <2>7. CASE TouchWorkload(w)
    BY <2>4, <2>7 DEF TouchWorkload, UserWritesWorkload, UserChangesWorkload
  <2>8. CASE DeleteWorkload(w)
    BY <2>2, <2>8 DEF DeleteWorkload, UserWritesWorkload, UserChangesWorkload
  <2> QED BY <1>3, <2>5, <2>6, <2>7, <2>8
<1>4. ASSUME NEW i \in IRs, CreateIR(i) \/ SetIdle(i) \/ EditRef(i) \/ DeleteIR(i)
      PROVE  UNCHANGED wl
  BY <1>1, <1>4, UserTypes DEF UserWritesIR, wlVars
<1>5. CASE WorkerStep
  BY <1>2, <1>5 DEF WorkerStep, GetIdlingResource, AddFinalizer, ReconcileCronStrategies,
     GetWorkload, RemoveFinalizer, ReturnOk, ReturnRequeueAfter, ReturnErr, wlVars
<1>6. CASE Environment
  BY <1>3, <1>4, <1>6 DEF Environment, Resync, wlVars
<1>7. CASE \/ \E i \in IRs : Take(i) \/ TimerFires(i) \/ DeliverIR(i)
           \/ \E w \in Workloads : DeliverWorkload(w)
           \/ CrashRestart \/ Fault
  BY <1>7 DEF Take, TimerFires, DeliverIR, DeliverWorkload, CrashRestart, Fault, wlVars
<1> QED BY <1>5, <1>6, <1>7 DEF Next, vars, wlVars

-----------------------------------------------------------------------------
(* Accepted copies.                                                        *)

(* Only the read of a retry loop makes the worker ready to write.          *)
LEMMA PutPhase ==
  ASSUME Typed, [Next]_vars, wk'.phase = "put"
  PROVE  \/ UNCHANGED wk
         \/ /\ UNCHANGED wlVars
            /\ wk'.ir = wk.ir /\ wk'.wl = wlCache[wk.ir.ref]
<1>1. TypeOK /\ wk \in Worker
  BY DEF Typed, TypeOK
<1>2. FreeWorker.phase = "get" /\ \A call, inst : Jump(call, inst).phase = "get"
  BY DEF Jump, FreeWorker
<1>3. ASSUME NEW call, RetryGet(call)
      PROVE  UNCHANGED wlVars /\ wk'.ir = wk.ir /\ wk'.wl = wlCache[wk.ir.ref]
  BY <1>1, <1>2, <1>3 DEF RetryGet, Worker
<1>4. ~(Proceeds \/ GivesUp \/ WritesFinalizer)
  BY <1>2 DEF Proceeds, GivesUp, WritesFinalizer
<1>5. ~(GetIdlingResource \/ Returns \/ CrashRestart)
  BY <1>2 DEF GetIdlingResource, Returns, ReturnOk, ReturnRequeueAfter, ReturnErr, CrashRestart
<1>6. \A i \in IRs : ~Take(i)
  BY DEF Take, FreeWorker
<1>7. CASE CopiesWorkload /\ ~UNCHANGED wk
  <2>1. ~Environment
    BY <1>1, <1>7, UserTypes DEF Environment, Resync, UserWritesIR, UserWritesWorkload
  <2>2. WorkerStep
    BY <1>2, <1>5, <1>6, <1>7, <2>1 DEF Next, vars, TimerFires, DeliverIR, DeliverWorkload, Fault
  <2>3. SetReference \/ Wakeup \/ Idle \/ RemoveAnnotations
    BY <1>5, <1>7, <2>2 DEF WorkerStep, CopiesWorkload, RetryCalls, Returns, AddFinalizer,
       ReconcileCronStrategies, GetWorkload, RemoveFinalizer
  <2>4. ASSUME NEW call, NEW edited, NEW next, next.phase = "get"
        PROVE  ~RetryPut(call, edited, next)
    <3> DEFINE again == [wk EXCEPT !.phase = "get", !.wl = NoWorkload, !.tries = wk.tries + 1]
    <3>1. again.phase = "get"
      BY <1>1 DEF Worker
    <3>2. RetryPut(call, edited, next) => wk' \in {next, again, Jump("Err", wk.ir)}
      BY DEF RetryPut
    <3> QED BY <1>2, <2>4, <3>1, <3>2
  <2>5. \A o : /\ AfterRemoveAnnotations(o).phase = "get" /\ AfterWakeup(o).phase = "get"
               /\ AfterIdle(o).phase = "get" /\ StartWakeup(o).phase = "get"
    BY <1>2 DEF AfterRemoveAnnotations, AfterWakeup, AfterIdle, StartWakeup, Jump, FreeWorker
  <2>6. \A o : AfterSetReference(o).phase = "get"
    BY <1>2, <2>5 DEF AfterSetReference
  <2>7. CASE SetReference
    BY <1>3, <2>4, <2>6, <2>7 DEF SetReference
  <2>8. CASE Wakeup
    BY <1>3, <2>4, <2>5, <2>8 DEF Wakeup
  <2>9. CASE Idle
    BY <1>3, <2>4, <2>5, <2>9 DEF Idle
  <2>10. CASE RemoveAnnotations
    BY <1>3, <2>4, <2>5, <2>10 DEF RemoveAnnotations
  <2> QED BY <2>3, <2>7, <2>8, <2>9, <2>10
<1> QED BY <1>4, <1>5, <1>6, <1>7, WorkerMoves

Strict == \A w \in Workloads : StrictWatch(wl[w], wlWatch[w], wlCache[w])

(* A write makes the copies read before it unacceptable; an event that is  *)
(* delivered was awaited by a copy that is not accepted anyway.            *)
LEMMA AcceptedCopyStep ==
  ASSUME Typed, WorkloadWatchesInv, WorkerInv, Strict, AcceptedCopyInv, [Next]_vars
  PROVE  AcceptedCopyInv'
<1> SUFFICES ASSUME wk'.phase = "put", wk'.wl.rv = wl'[wk'.ir.ref].rv
             PROVE  wlWatch'[wk'.ir.ref] = <<>>
  BY DEF AcceptedCopyInv, WorkloadSynced
<1>1. /\ TypeOK /\ wk.ir.ref \in Workloads
      /\ wl \in [Workloads -> WorkloadObject] /\ wlWatch \in [Workloads -> Seq(WorkloadObject)]
      /\ wk.wl.rv \in Nat /\ \A w \in Workloads : wl[w].rv \in Nat
  BY WorkerFacts DEF Typed, TypeOK, WorkloadObject
<1>2. CASE UNCHANGED wlVars /\ wk'.ir = wk.ir /\ wk'.wl = wlCache[wk.ir.ref]
  <2>1. wlCache[wk.ir.ref].rv = wl[wk.ir.ref].rv
    BY <1>2 DEF wlVars
  <2> QED BY <1>1, <1>2, <2>1 DEF wlVars, Strict, StrictWatch
<1>3. CASE UNCHANGED wk
  <2> DEFINE w == wk.ir.ref
  <2>1. wk.phase = "put" /\ wk.wl.rv <= wl[w].rv /\ w \in Workloads
    BY <1>1, <1>3 DEF WorkerInv, VersionOf
  <2>2. wk.wl.rv = wl'[w].rv
    BY <1>3
  <2>3. wl'[w] = wl[w]
    BY <1>1, <2>1, <2>2, WorkloadVersions
  <2>4. wlWatch[w] = <<>>
    BY <2>1, <2>2, <2>3 DEF AcceptedCopyInv, WorkloadSynced
  <2>5. CASE UNCHANGED wlVars
    BY <1>3, <2>4, <2>5 DEF wlVars
  <2>6. CASE WritesWorkload
    <3>1. PICK v \in Workloads, obj \in WorkloadObject : WriteWorkload(v, obj)
      BY <2>6 DEF WritesWorkload
    <3>2. wlWatch'[w] = wlWatch[w]
      BY <1>1, <2>1, <2>3, <3>1 DEF WriteWorkload
    <3> QED BY <1>3, <2>4, <3>2
  <2>7. ASSUME NEW v \in Workloads, DeliverWorkload(v)
        PROVE  wlWatch'[w] = <<>>
    BY <1>1, <2>1, <2>4, <2>7 DEF DeliverWorkload
  <2>8. CASE CrashRestart
    BY <1>3, <2>1, <2>8 DEF CrashRestart
  <2> QED BY <1>3, <2>5, <2>6, <2>7, <2>8, WorkloadSteps
<1> QED BY <1>2, <1>3, PutPhase

(* What the operator may write it has read from a cache that shows it.     *)
LEMMA AcceptedIsShown ==
  ASSUME Typed, WorkloadWatchesInv, WorkerInv, AcceptedCopyInv, OperatorChangesWorkload
  PROVE  /\ wk.wl = wl[wk.ir.ref] /\ wl[wk.ir.ref].live
         /\ wlWatch[wk.ir.ref] = <<>> /\ wlCache[wk.ir.ref] = wl[wk.ir.ref]
<1>1. wk.ir.ref \in Workloads
  BY WorkerFacts DEF Typed
<1>2. wk.wl = wl[wk.ir.ref] /\ wl[wk.ir.ref].live
  BY AcceptedIsStored DEF OperatorChangesWorkload, WorkerInv, CanUpdate
<1>3. wlWatch[wk.ir.ref] = <<>>
  BY <1>2 DEF AcceptedCopyInv, OperatorChangesWorkload, WorkloadSynced
<1> QED BY <1>1, <1>2, <1>3 DEF WorkloadWatchesInv, WatchOf

Shown(w) == wlCache[w].live /\ \A n \in 1 .. Len(wlWatch[w]) : wlWatch[w][n].live

(* A cache that has shown only live versions goes on to do so when a live  *)
(* one is written, or an event delivered.                                  *)
LEMMA ShownStep ==
  ASSUME Typed, WorkloadWatchesInv, [Next]_vars, NEW w \in Workloads,
         Shown(w), wl'[w].live
  PROVE  Shown(w)'
<1>1. /\ wl \in [Workloads -> WorkloadObject] /\ wlCache \in [Workloads -> WorkloadObject]
      /\ wlWatch \in [Workloads -> Seq(WorkloadObject)]
  BY DEF Typed, TypeOK
<1>2. CASE UNCHANGED wlVars
  BY <1>2 DEF wlVars, Shown
<1>3. CASE WritesWorkload
  <2>1. PICK v \in Workloads, obj \in WorkloadObject : WriteWorkload(v, obj)
    BY <1>3 DEF WritesWorkload
  <2>2. CASE UNCHANGED <<wlWatch[w], wlCache[w]>>
    BY <2>2 DEF Shown
  <2>3. CASE wlWatch'[w] = Append(wlWatch[w], wl'[w]) /\ wlCache' = wlCache
    <3> DEFINE watch == wlWatch[w] longer == Append(watch, wl'[w])
    <3>1. Len(longer) = Len(watch) + 1 /\ longer[Len(watch) + 1] = wl'[w]
          /\ \A n \in 1 .. Len(watch) : longer[n] = watch[n]
      BY <1>1
    <3>2. ASSUME NEW n \in 1 .. Len(longer) PROVE longer[n].live
      <4>1. n \in 1 .. Len(watch) \/ n = Len(watch) + 1
        BY <1>1, <3>1
      <4> QED BY <3>1, <4>1 DEF Shown
    <3> QED BY <2>3, <3>2 DEF Shown
  <2> QED BY <1>1, <2>1, <2>2, <2>3 DEF WriteWorkload
<1>4. ASSUME NEW v \in Workloads, DeliverWorkload(v)
      PROVE  Shown(w)'
  <2>1. CASE w = v
    <3> DEFINE watch == wlWatch[w]
    <3>1. /\ watch # <<>> /\ wlWatch'[w] = Tail(watch) /\ wlCache'[w] = Head(watch)
      BY <1>1, <1>4, <2>1 DEF DeliverWorkload
    <3>2. /\ Len(watch) \in Nat \ {0} /\ Head(watch) = watch[1]
          /\ Len(Tail(watch)) = Len(watch) - 1
          /\ \A n \in 1 .. Len(Tail(watch)) : Tail(watch)[n] = watch[n + 1]
      BY <1>1, <3>1
    <3> HIDE DEF watch
    <3>3. /\ \A n \in 1 .. Len(watch) : watch[n].live
      BY DEF Shown, watch
    <3>4. Head(watch).live /\ \A n \in 1 .. Len(Tail(watch)) : Tail(watch)[n].live
      BY <3>2, <3>3
    <3> QED BY <3>1, <3>4 DEF Shown
  <2>2. CASE w # v
    BY <1>1, <1>4, <2>2 DEF DeliverWorkload, Shown
  <2> QED BY <2>1, <2>2
<1>5. CASE CrashRestart
  <2>1. wlWatch'[w] = <<>> /\ wlCache'[w] = wl'[w]
    BY <1>5 DEF CrashRestart
  <2> QED BY <2>1 DEF Shown
<1> QED BY <1>2, <1>3, <1>4, <1>5, WorkloadSteps

-----------------------------------------------------------------------------
(* Marks.                                                                  *)

(* A new version carries the marks that were written.                      *)
LEMMA MarksWritten ==
  ASSUME NEW stored \in WorkloadObject, NEW obj \in WorkloadObject
  PROVE  /\ Marked(NextVersion(stored, obj)) <=> Marked(obj)
         /\ NextVersion(stored, obj).live = obj.live
  BY DEF NextVersion, Marked, HasAnnotationsToRemove, WorkloadObject

(* Who marks a workload.                                                   *)
LEMMA WhoMarks ==
  ASSUME Typed, [Next]_vars, NEW w \in Workloads, Marked(wl'[w])
  PROVE  Marked(wl[w]) \/ (OperatorChangesWorkload /\ w = wk.ir.ref)
<1>1. wl \in [Workloads -> WorkloadObject]
  BY DEF Typed, TypeOK
<1>2. CASE UserChangesWorkload
  <2>1. PICK v \in Workloads, obj \in WorkloadObject :
               WriteWorkload(v, obj) /\ (Marked(obj) => Marked(wl[v]))
    BY <1>2 DEF UserChangesWorkload
  <2>2. CASE w = v
    <3>1. wl'[w] = NextVersion(wl[w], obj)
      BY <1>1, <2>1, <2>2 DEF WriteWorkload
    <3> QED BY <1>1, <2>1, <2>2, <3>1, MarksWritten
  <2>3. CASE w # v
    BY <1>1, <2>1, <2>3 DEF WriteWorkload
  <2> QED BY <2>2, <2>3
<1>3. CASE OperatorChangesWorkload /\ w # wk.ir.ref
  BY <1>1, <1>3 DEF OperatorChangesWorkload, WriteWorkload
<1> QED BY <1>2, <1>3, WhoWritesWorkloads

(* Only a workload the cache shows is marked.                              *)
LEMMA NewWorkloadStep ==
  ASSUME Typed, WorkloadWatchesInv, WorkerInv, AcceptedCopyInv, NewWorkloadInv, [Next]_vars
  PROVE  NewWorkloadInv'
<1> SUFFICES ASSUME NEW w \in Workloads, Marked(wl'[w])
             PROVE  Shown(w)'
  BY DEF NewWorkloadInv, Shown, Marked
<1>1. Shown(w)
  <2>1. CASE Marked(wl[w])
    BY <2>1 DEF NewWorkloadInv, Shown
  <2>2. CASE OperatorChangesWorkload /\ w = wk.ir.ref
    BY <2>2, AcceptedIsShown DEF Shown
  <2> QED BY <2>1, <2>2, WhoMarks
<1>2. wl'[w].live
  BY DEF Marked
<1> QED BY <1>1, <1>2, ShownStep

(* The operator is about to remove the finalizer only after it has removed *)
(* the marks, or found none.                                               *)
LEMMA RemovalStep ==
  ASSUME Typed, WorkloadWatchesInv, NewWorkloadInv, RemovalInv, [Next]_vars
  PROVE  RemovalInv'
<1> SUFFICES ASSUME wk'.call = "RemoveFinalizer" PROVE ~Marked(wl'[wk'.ir.ref])
  BY DEF RemovalInv
<1>1. /\ TypeOK /\ wk \in Worker /\ wk.ir.ref \in Workloads /\ wk.ir \in IRObject
      /\ wk.wl \in WorkloadObject /\ wk.target \in Nat
      /\ wl \in [Workloads -> WorkloadObject]
  BY WorkerFacts DEF Typed, TypeOK
<1>2. /\ \A call, inst : Jump(call, inst).call = call /\ Jump(call, inst).ir = inst
      /\ \A o : AfterIdle(o).call = "Ok"
      /\ FreeWorker.call = "Free"
  BY DEF Jump, FreeWorker, AfterIdle
<1>3. CASE UNCHANGED wk
  <2>1. wk.call = "RemoveFinalizer" /\ ~Marked(wl[wk.ir.ref])
    BY <1>3 DEF RemovalInv
  <2>2. ~OperatorChangesWorkload
    BY <2>1 DEF OperatorChangesWorkload, RetryCalls
  <2> QED BY <1>1, <1>3, <2>1, <2>2, WhoMarks
<1>4. \A o : HasAnnotationsToRemove(o)
               => /\ AfterWakeup(o).call # "RemoveFinalizer"
                  /\ StartWakeup(o).call # "RemoveFinalizer"
                  /\ AfterSetReference(o).call # "RemoveFinalizer"
  <2> TAKE o
  <2> HAVE HasAnnotationsToRemove(o)
  <2>1. AfterWakeup(o).call # "RemoveFinalizer"
    BY <1>2 DEF AfterWakeup
  <2>2. StartWakeup(o).call # "RemoveFinalizer"
    BY <1>2, <2>1 DEF StartWakeup, Jump, FreeWorker
  <2> QED BY <1>2, <2>1, <2>2 DEF AfterSetReference
<1>5. CASE GetWorkload
  <2> DEFINE o == wlCache[wk.ir.ref]
  <2>1. o.live => ReconcileWithIdler(o).call # "RemoveFinalizer"
    BY <1>2, <1>4 DEF ReconcileWithIdler, HasAnnotationsToRemove
  <2>2. ~o.live
    BY <1>5, <2>1 DEF GetWorkload
  <2>3. ~Marked(wl[wk.ir.ref])
    BY <1>1, <2>2 DEF NewWorkloadInv
  <2>4. wk'.ir = wk.ir
    BY <1>2, <1>5, <2>2 DEF GetWorkload, reconcileResourceNotFound, AfterRemoveAnnotations
  <2> QED BY <1>5, <2>3, <2>4 DEF GetWorkload, wlVars
<1>6. ASSUME NEW call \in RetryCalls, NEW edited, NEW next, RetryPut(call, edited, next)
      PROVE  WriteWorkload(wk.ir.ref, edited) /\ wk' = next
  <2>1. [wk EXCEPT !.phase = "get", !.wl = NoWorkload, !.tries = wk.tries + 1].call = wk.call
    BY <1>1 DEF Worker
  <2>2. wk.call # "RemoveFinalizer"
    BY <1>6 DEF RetryPut, RetryCalls
  <2>3. wk' # [wk EXCEPT !.phase = "get", !.wl = NoWorkload, !.tries = wk.tries + 1]
    BY <2>1, <2>2
  <2>4. wk' # Jump("Err", wk.ir)
    BY <1>2
  <2> QED BY <1>6, <2>3, <2>4 DEF RetryPut
<1>7. ASSUME NEW call \in RetryCalls, RetryGet(call) PROVE FALSE
  BY <1>1, <1>2, <1>7 DEF RetryGet, Worker, RetryCalls
<1> DEFINE stored(edited) == NextVersion(wl[wk.ir.ref], edited)
<1>8. CASE SetReference \/ Wakeup \/ Idle \/ RemoveAnnotations
  <2>1. Kind \in SupportedKinds /\ wk.key \in IRs
    BY <1>8 DEF Typed, CallInv, TypeOK, SetReference, Wakeup, Idle, RemoveAnnotations,
       RetryGet, RetryPut, RetryCalls
  <2>2. \A edited : WriteWorkload(wk.ir.ref, edited) => wl'[wk.ir.ref] = stored(edited)
    BY <1>1 DEF WriteWorkload
  <2>3. CASE SetReference
    <3> DEFINE edited == SetReferenceEdit(wk.wl, wk.key)
    <3>1. wk' = AfterSetReference(stored(edited))
      BY <1>6, <1>7, <2>3 DEF SetReference, RetryCalls
    <3>2. HasAnnotationsToRemove(stored(edited))
      BY <1>1, <2>1, NoneAssumption DEF HasAnnotationsToRemove, SetReferenceEdit,
         NextVersion, WorkloadObject
    <3> QED BY <1>4, <3>1, <3>2
  <2>4. CASE Wakeup
    <3> DEFINE edited == WakeupEdit(wk.wl, wk.target)
    <3>1. wk' = AfterWakeup(stored(edited)) /\ WriteWorkload(wk.ir.ref, edited)
      BY <1>6, <1>7, <2>4 DEF Wakeup, RetryCalls
    <3>2. ~HasAnnotationsToRemove(stored(edited))
      BY <1>4, <3>1
    <3>3. wk'.ir = wk.ir
      BY <1>2, <3>1, <3>2 DEF AfterWakeup, AfterRemoveAnnotations
    <3> QED BY <2>2, <3>1, <3>2, <3>3 DEF Marked
  <2>5. CASE Idle
    BY <1>2, <1>6, <1>7, <2>5 DEF Idle, RetryCalls
  <2>6. CASE RemoveAnnotations
    <3> DEFINE edited == RemoveAnnotationsEdit(wk.wl)
    <3>1. wk' = AfterRemoveAnnotations(stored(edited)) /\ WriteWorkload(wk.ir.ref, edited)
      BY <1>6, <1>7, <2>6 DEF RemoveAnnotations, RetryCalls
    <3>2. wk'.ir = wk.ir
      BY <1>2, <3>1 DEF AfterRemoveAnnotations
    <3>3. edited \in WorkloadObject /\ ~Marked(edited)
      BY <1>1, <2>1, EditTypes DEF Marked, HasAnnotationsToRemove, RemoveAnnotationsEdit,
         WorkloadObject
    <3> QED BY <1>1, <2>2, <3>1, <3>2, <3>3, MarksWritten
  <2> QED BY <1>8, <2>3, <2>4, <2>5, <2>6
<1>9. CASE WorkerStep
  BY <1>2, <1>5, <1>8, <1>9 DEF WorkerStep, GetIdlingResource, AddFinalizer,
     ReconcileCronStrategies, RemoveFinalizer, ReturnOk, ReturnRequeueAfter, ReturnErr
<1>10. CASE Environment
  BY <1>1, <1>3, <1>10, UserTypes DEF Environment, Resync, UserWritesIR, UserWritesWorkload
<1>11. CASE \/ \E i \in IRs : Take(i) \/ TimerFires(i) \/ DeliverIR(i)
            \/ \E w \in Workloads : DeliverWorkload(w)
            \/ CrashRestart \/ Fault
  BY <1>2, <1>3, <1>11 DEF Take, TimerFires, DeliverIR, DeliverWorkload, CrashRestart, Fault,
     FreeWorker
<1> QED BY <1>3, <1>9, <1>10, <1>11 DEF Next, vars

-----------------------------------------------------------------------------
(* The finalizer comes off last.                                           *)

(* Nothing is marked before the operator first starts.                     *)
LEMMA ReleaseInit == Init => ReleaseInv
<1> SUFFICES ASSUME Init PROVE ReleaseInv
  OBVIOUS
<1>1. wk = FreeWorker /\ wk.phase = "get" /\ wk.call = "Free"
  BY DEF Init, FreeWorker
<1>2. \A w \in Workloads : wlWatch[w] = <<>> /\ wlCache[w] = wl[w]
  BY DEF Init
<1>3. NewWorkloadInv
  BY <1>2 DEF NewWorkloadInv, Marked
<1>4. \A w \in Workloads : StrictWatch(wl[w], wlWatch[w], wlCache[w])
  BY <1>2 DEF StrictWatch
<1> QED BY <1>1, <1>3, <1>4 DEF ReleaseInv, AcceptedCopyInv, RemovalInv

(* Every step keeps the invariant about marks.                             *)
LEMMA ReleaseStep == IInv /\ ReleaseInv /\ [Next]_vars => ReleaseInv'
<1> SUFFICES ASSUME IInv, ReleaseInv, [Next]_vars PROVE ReleaseInv'
  OBVIOUS
<1>1. Typed /\ WorkloadWatchesInv /\ WorkerInv /\ Strict
  BY DEF IInv, Typed, ReleaseInv, Strict
<1>2. AcceptedCopyInv' /\ NewWorkloadInv' /\ RemovalInv'
  BY <1>1, AcceptedCopyStep, NewWorkloadStep, RemovalStep DEF ReleaseInv
<1>3. (\A w \in Workloads : StrictWatch(wl[w], wlWatch[w], wlCache[w]))'
  BY <1>1, StrictStep DEF Strict
<1> QED BY <1>2, <1>3 DEF ReleaseInv

(* The invariant about marks holds in every reachable state.               *)
THEOREM ReleaseInvariance == Spec => []ReleaseInv
  BY Invariance, ReleaseInit, ReleaseStep, PTL DEF Spec

(* When an IdlingResource goes, its workload carries neither a reference   *)
(* nor saved replicas: removeFinalizer is called after RemoveAnnotations,  *)
(* and a workload that is not found is one that was never marked.          *)
THEOREM ReleasedAtRemovalHolds == Spec => ReleasedAtRemoval
<1> DEFINE Released ==
      wk' # wk => \A i \in IRs : ir[i].live /\ ~ir'[i].live
          => LET o == wl[ir[i].ref] IN o.live => o.ref = None /\ o.prev = None
<1>1. ASSUME IInv, ReleaseInv, [Next]_vars PROVE Released
  <2> SUFFICES ASSUME wk' # wk, NEW i \in IRs, ir[i].live, ~ir'[i].live
               PROVE  ~Marked(wl[ir[i].ref])
    BY DEF Marked, HasAnnotationsToRemove
  <2>1. /\ Typed /\ WorkerInv /\ RemovalInv
        /\ ir \in [IRs -> IRObject] /\ wk.ir \in IRObject
    BY <1>1, WorkerFacts DEF IInv, ReleaseInv, Typed, TypeOK
  <2>2. /\ wk.call \in {"AddFinalizer", "RemoveFinalizer"}
        /\ CanUpdate(ir[wk.key], wk.ir)
        /\ \/ WriteIR(wk.key, [wk.ir EXCEPT !.fin = TRUE])
           \/ wk.call = "RemoveFinalizer" /\ WriteIR(wk.key, Removed(wk.ir))
    BY <1>1, <2>1, OperatorWritesIR
  <2>3. wk.key \in IRs /\ wk.ir = ir[wk.key]
    BY <2>1, <2>2, AcceptedIsStored DEF Typed, TypeOK, WorkerInv
  <2>4. i = wk.key
    BY <2>1, <2>2, <2>3 DEF WriteIR
  <2>5. wk.call = "RemoveFinalizer"
    <3>1. ~WriteIR(wk.key, [wk.ir EXCEPT !.fin = TRUE])
      BY <2>1, <2>3, <2>4 DEF WriteIR, NextVersion, IRObject
    <3> QED BY <2>2, <3>1
  <2> QED BY <2>1, <2>3, <2>4, <2>5 DEF RemovalInv
<1>2. IInv /\ ReleaseInv /\ [Next]_vars => [Released]_vars
  BY <1>1
<1> QED BY <1>2, Invariance, ReleaseInvariance, PTL DEF Spec, ReleasedAtRemoval

-----------------------------------------------------------------------------
(* No deletion is forgotten.                                               *)

(* The operator has to let it go.                                          *)
Doomed(o) == o.live /\ o.deleting /\ KindOf[o.ref] \in SupportedKinds

(* A reconciliation may end in success on version n: another is stored by  *)
(* now, or it is not one the operator has to let go.                       *)
Past(n, stored) == n <= stored.rv /\ (n = stored.rv => ~Doomed(stored))

PastInv == /\ \A i \in IRs : Past(acted[i], ir[i])
           /\ wk.call = "Ok" => Past(wk.ir.rv, ir[wk.key])

(* What is past stays past.                                                *)
LEMMA PastKept ==
  ASSUME Typed, [Next]_vars, NEW i \in IRs, NEW n, n \in Nat, Past(n, ir[i])
  PROVE  Past(n, ir'[i])
<1>1. ir[i].rv \in Nat /\ (ir'[i] = ir[i] \/ ir'[i].rv = ir[i].rv + 1)
  BY IRVersions DEF Typed, TypeOK, IRObject
<1> QED BY <1>1 DEF Past, Doomed

(* A decision to end a reconciliation well means that there is no deletion *)
(* to go on with.                                                          *)
LEMMA OkMeans ==
  ASSUME NEW o
  PROVE  /\ AfterRemoveAnnotations(o).call = "Ok" => ~wk.ir.fin
         /\ AfterWakeup(o).call = "Ok" => ~wk.ir.deleting \/ ~wk.ir.fin
         /\ AfterSetReference(o).call = "Ok" => ~wk.ir.deleting \/ ~wk.ir.fin
         /\ ReconcileWithIdler(o).call = "Ok" => ~wk.ir.deleting \/ ~wk.ir.fin
         /\ reconcileResourceNotFound(o).call = "Ok" => ~wk.ir.deleting \/ ~wk.ir.fin
<1>1. \A call, inst : Jump(call, inst).call = call
  BY DEF Jump, FreeWorker
<1>2. AfterRemoveAnnotations(o).call = "Ok" => ~wk.ir.fin
  BY <1>1 DEF AfterRemoveAnnotations
<1>3. AfterWakeup(o).call = "Ok" => ~wk.ir.deleting \/ ~wk.ir.fin
  BY <1>1, <1>2 DEF AfterWakeup
<1>4. reconcileResourceNotFound(o).call = "Ok" => ~wk.ir.deleting \/ ~wk.ir.fin
  BY <1>1, <1>2 DEF reconcileResourceNotFound
<1>5. StartWakeup(o).call = "Ok" => ~wk.ir.deleting \/ ~wk.ir.fin
  BY <1>3 DEF StartWakeup, Jump, FreeWorker
<1>6. AfterSetReference(o).call = "Ok" => ~wk.ir.deleting \/ ~wk.ir.fin
  BY <1>5 DEF AfterSetReference
<1> QED BY <1>1, <1>2, <1>3, <1>4, <1>6 DEF ReconcileWithIdler

(* How a reconciliation comes to its end: without an IdlingResource, with  *)
(* the finalizer removed, with one no idler is for, or with nothing to     *)
(* delete.                                                                 *)
LEMMA WhoEnds ==
  ASSUME Typed, [Next]_vars, wk'.call = "Ok", wk' # wk
  PROVE  \/ GetIdlingResource /\ ~irCache[wk.key].live /\ wk' = Jump("Ok", NoIR)
         \/ /\ wk.call \notin {"Free", "GetIdlingResource", "Ok", "Err"}
            /\ wk'.key = wk.key /\ wk'.ir = wk.ir
            /\ \/ RemoveFinalizer /\ WriteIR(wk.key, Removed(wk.ir))
               \/ Kind \notin SupportedKinds
               \/ ~wk.ir.deleting \/ ~wk.ir.fin
<1>1. /\ TypeOK /\ wk \in Worker
      /\ \A call, inst : Jump(call, inst).call = call
      /\ FreeWorker.call = "Free"
  BY DEF Typed, TypeOK, Jump, FreeWorker
<1>2. CASE GetIdlingResource
  BY <1>1, <1>2 DEF GetIdlingResource
<1>3. ASSUME NEW call \in RetryCalls, RetryGet(call) PROVE FALSE
  BY <1>1, <1>3 DEF RetryGet, Worker, RetryCalls
<1>4. ASSUME NEW call \in RetryCalls, NEW edited, NEW next, RetryPut(call, edited, next)
      PROVE  wk' = next
  <2>1. [wk EXCEPT !.phase = "get", !.wl = NoWorkload, !.tries = wk.tries + 1].call = wk.call
    BY <1>1 DEF Worker
  <2>2. wk.call # "Ok"
    BY <1>4 DEF RetryPut, RetryCalls
  <2>3. wk' # Jump("Err", wk.ir)
    BY <1>1
  <2> QED BY <1>4, <2>1, <2>2, <2>3 DEF RetryPut
<1>5. CASE Proceeds
  <2>1. /\ wk.call \notin {"Free", "GetIdlingResource", "Ok", "Err"}
        /\ wk'.key = wk.key /\ wk'.ir = wk.ir
    BY <1>5 DEF Proceeds
  <2>2. WorkerStep
    <3>1. ~Environment
      BY <1>1, UserTypes DEF Environment, Resync, UserWritesIR, UserWritesWorkload
    <3> QED BY <1>1, <2>1, <3>1 DEF Next, vars, Take, TimerFires, DeliverIR, DeliverWorkload,
            CrashRestart, Fault
  <2>3. CASE SetReference
    BY <1>3, <1>4, <2>1, <2>3, OkMeans DEF SetReference, RetryCalls
  <2>4. CASE Wakeup
    BY <1>3, <1>4, <2>1, <2>4, OkMeans DEF Wakeup, RetryCalls
  <2>5. CASE Idle
    <3>1. ~wk.ir.deleting
      BY <2>5 DEF Typed, CallInv, Idle, RetryGet, RetryPut
    <3> QED BY <2>1, <3>1
  <2>6. CASE RemoveAnnotations
    BY <1>3, <1>4, <2>1, <2>6, OkMeans DEF RemoveAnnotations, RetryCalls
  <2>7. CASE GetWorkload
    BY <2>1, <2>7, OkMeans DEF GetWorkload
  <2>8. CASE ReconcileCronStrategies
    BY <1>1, <2>1, <2>8 DEF ReconcileCronStrategies
  <2>9. CASE RemoveFinalizer
    BY <1>1, <2>1, <2>9 DEF RemoveFinalizer
  <2>10. ~AddFinalizer
    BY <1>1 DEF AddFinalizer
  <2>11. ~ReturnOk /\ ~ReturnRequeueAfter /\ ~ReturnErr
    BY <1>1 DEF ReturnOk, ReturnRequeueAfter, ReturnErr
  <2> QED BY <1>2, <2>2, <2>3, <2>4, <2>5, <2>6, <2>7, <2>8, <2>9, <2>10, <2>11 DEF WorkerStep
<1>6. ~GivesUp /\ ~CopiesWorkload /\ ~WritesFinalizer
  <2>1. ~GivesUp /\ ~WritesFinalizer
    BY <1>1 DEF GivesUp, WritesFinalizer
  <2>2. CopiesWorkload => wk'.call = wk.call
    BY <1>1 DEF CopiesWorkload, Worker
  <2>3. CopiesWorkload => wk.call # "Ok"
    BY DEF CopiesWorkload, RetryCalls
  <2> QED BY <2>1, <2>2, <2>3
<1>7. ~Returns /\ ~CrashRestart /\ \A i \in IRs : ~Take(i)
  <2>1. ~Returns
    BY <1>1 DEF Returns, ReturnOk, ReturnRequeueAfter, ReturnErr
  <2>2. ~CrashRestart
    BY <1>1 DEF CrashRestart
  <2>3. ASSUME NEW i \in IRs, Take(i) PROVE FALSE
    BY <2>3 DEF Take, FreeWorker
  <2> QED BY <2>1, <2>2, <2>3
<1> QED BY <1>2, <1>5, <1>6, <1>7, WorkerMoves

(* A reconciliation ends well only on a version that is past.              *)
LEMMA EndsPast ==
  ASSUME IInv, FinalizedInv, [Next]_vars, wk'.call = "Ok", wk' # wk
  PROVE  Past(wk'.ir.rv, ir'[wk.key]) /\ wk'.key = wk.key /\ wk.key \in IRs
<1>1. /\ Typed /\ TypeOK /\ wk \in Worker /\ wk.ir \in IRObject /\ WorkerInv
      /\ ir \in [IRs -> IRObject] /\ (wk.call # "Free" => wk.key \in IRs)
  BY WorkerFacts DEF IInv, Typed, TypeOK
<1>2. CASE GetIdlingResource /\ ~irCache[wk.key].live /\ wk' = Jump("Ok", NoIR)
  <2>1. wk.key \in IRs /\ UNCHANGED ir
    BY <1>1, <1>2 DEF GetIdlingResource, irVars
  <2>2. wk'.ir = NoIR /\ wk'.key = wk.key /\ NoIR.rv = 0
    BY <1>2 DEF Jump, FreeWorker, NoIR
  <2>3. ir[wk.key].rv = 0 => irCache[wk.key] = ir[wk.key]
    BY <2>1 DEF IInv, IRWatchesInv, WatchOf, VersionOf, TypeOK, IRObject
  <2>4. Past(0, ir[wk.key])
    BY <1>1, <1>2, <2>1, <2>3 DEF Past, Doomed, IRObject
  <2> QED BY <2>1, <2>2, <2>4
<1>3. CASE /\ wk.call \notin {"Free", "GetIdlingResource", "Ok", "Err"}
           /\ wk'.key = wk.key /\ wk'.ir = wk.ir
           /\ \/ RemoveFinalizer /\ WriteIR(wk.key, Removed(wk.ir))
              \/ Kind \notin SupportedKinds
              \/ ~wk.ir.deleting \/ ~wk.ir.fin
  <2>1. wk.key \in IRs /\ VersionOf(wk.ir, ir[wk.key])
    BY <1>1, <1>3 DEF WorkerInv
  <2>2. CASE WriteIR(wk.key, Removed(wk.ir))
    <3>1. ir'[wk.key] = NextVersion(ir[wk.key], Removed(wk.ir))
      BY <1>1, <2>1, <2>2 DEF WriteIR
    <3>2. ~ir'[wk.key].live
      BY <1>1, <3>1 DEF NextVersion, Removed, IRObject
    <3>3. VersionOf(wk.ir, ir'[wk.key])
      BY <1>1, <2>1, CopiesKept
    <3> QED BY <1>3, <2>1, <3>2, <3>3 DEF Past, Doomed, VersionOf
  <2>3. CASE Kind \notin SupportedKinds \/ ~wk.ir.deleting \/ ~wk.ir.fin
    <3>1. Past(wk.ir.rv, ir[wk.key])
      BY <2>1, <2>3 DEF Past, Doomed, VersionOf, FinalizedInv, Kind
    <3>2. wk.ir.rv \in Nat
      BY <1>1 DEF IRObject
    <3> QED BY <1>1, <1>3, <2>1, <3>1, <3>2, PastKept
  <2> QED BY <1>3, <2>2, <2>3
<1> QED BY <1>1, <1>2, <1>3, WhoEnds

LEMMA PastInit == Init => PastInv
<1> SUFFICES ASSUME Init PROVE PastInv
  OBVIOUS
<1>1. \A i \in IRs : ir[i].rv \in Nat /\ acted[i] = 0
  BY TypedInit DEF Init, Typed, TypeOK, IRObject
<1>2. FinalizedInv /\ \A i \in IRs : ~ir[i].fin
  <2>1. ASSUME NEW i \in IRs PROVE ~ir[i].fin
    <3>1. ir[i] \in InitialIRs
      BY DEF Init
    <3>2. NoIR \in IRObject /\ ~NoIR.fin
      BY NullObjects DEF NoIR
    <3>3. \A idle \in BOOLEAN, w \in Workloads : ~[NewIR(idle, w) EXCEPT !.rv = 1].fin
      BY <3>2 DEF NewIR, IRObject
    <3>4. CASE \E idle \in BOOLEAN, w \in Workloads : ir[i] = [NewIR(idle, w) EXCEPT !.rv = 1]
      BY <3>3, <3>4
    <3> QED BY <3>1, <3>2, <3>4 DEF InitialIRs
  <2> QED BY <2>1, FinalizedInit
<1>3. wk.call = "Free"
  BY DEF Init, FreeWorker
<1> QED BY <1>1, <1>2, <1>3 DEF PastInv, Past, Doomed, FinalizedInv

LEMMA PastStep ==
  ASSUME IInv, FinalizedInv, PastInv, [Next]_vars
  PROVE  PastInv'
<1>1. /\ Typed /\ acted \in [IRs -> Nat] /\ wk.ir.rv \in Nat
      /\ (wk.call # "Free" => wk.key \in IRs)
  BY WorkerFacts DEF IInv, Typed, TypeOK, IRObject
<1>2. ASSUME NEW i \in IRs PROVE Past(acted'[i], ir'[i])
  <2>1. CASE acted'[i] = acted[i]
    BY <1>1, <2>1, PastKept DEF PastInv
  <2>2. CASE acted'[i] # acted[i]
    <3>1. ReturnOk /\ i = wk.key /\ acted'[i] = wk.ir.rv /\ UNCHANGED ir
      BY <1>1, <2>2, ActedSteps DEF ReturnOk, irVars
    <3> QED BY <3>1 DEF PastInv, ReturnOk
  <2> QED BY <2>1, <2>2
<1>3. ASSUME wk'.call = "Ok" PROVE Past(wk'.ir.rv, ir'[wk'.key])
  <2>1. CASE wk' = wk
    BY <1>1, <1>3, <2>1, PastKept DEF PastInv
  <2>2. CASE wk' # wk
    BY <1>3, <2>2, EndsPast
  <2> QED BY <2>1, <2>2
<1> QED BY <1>2, <1>3 DEF PastInv, Past, Doomed

(* The operator never comes to rest while an IdlingResource it has an      *)
(* idler for waits for its finalizer to be removed: an attempt that ended  *)
(* in anything but the removal was of an earlier version, or it is         *)
(* repeated.                                                               *)
THEOREM NoDeletionForgottenHolds == Spec => []NoDeletionForgotten
<1>1. IInv /\ FinalizedInv /\ PastInv /\ [Next]_vars => PastInv'
  BY PastStep
<1>2. NoLostRequest /\ PastInv => NoDeletionForgotten
  BY DEF NoLostRequest, PastInv, Past, Doomed, NoDeletionForgotten
<1> QED BY <1>1, <1>2, PastInit, NoLostRequestHolds, FinalizedInvariance, Invariance, PTL
        DEF Spec

-----------------------------------------------------------------------------
(* Deletions that never end.                                               *)

(* The API server does not let it go before its finalizer is removed.      *)
Held(i) == ir[i].live /\ ir[i].fin

(* Reconcile has no case for the workload it refers to.                    *)
KindUnknown(i) == KindOf[ir[i].ref] \notin SupportedKinds

LEMMA HeldKept ==
  ASSUME Typed, WorkerInv, [Next]_vars, NEW i \in IRs, Held(i), KindUnknown(i)
  PROVE  Held(i)'
<1>1. ir \in [IRs -> IRObject] /\ ir[i] \in IRObject
  BY DEF Typed, TypeOK
<1>2. ASSUME NEW obj \in IRObject, obj.live, obj.fin, WriteIR(i, obj)
      PROVE  Held(i)'
  BY <1>1, <1>2 DEF WriteIR, NextVersion, IRObject, Held
<1>3. ASSUME NEW j \in IRs, NEW obj, WriteIR(j, obj), j # i
      PROVE  Held(i)'
  BY <1>1, <1>3 DEF WriteIR, Held
<1>4. ASSUME NEW j \in IRs, CreateIR(j) \/ SetIdle(j) \/ EditRef(j) \/ DeleteIR(j)
      PROVE  Held(i)'
  <2>1. CASE j # i
    BY <1>3, <1>4, <2>1 DEF CreateIR, SetIdle, EditRef, DeleteIR, UserWritesIR
  <2>2. CASE j = i
    <3>1. \E obj \in IRObject : obj.live /\ obj.fin /\ WriteIR(i, obj)
      <4>1. CASE SetIdle(i)
        <5>1. LET obj == [ir[i] EXCEPT !.idle = ~@] IN
              obj \in IRObject /\ obj.live /\ obj.fin /\ WriteIR(i, obj)
          BY <1>1, <4>1 DEF SetIdle, UserWritesIR, IRObject, Held
        <5> QED BY <5>1
      <4>2. CASE EditRef(i)
        <5>1. PICK w \in Workloads : WriteIR(i, [ir[i] EXCEPT !.ref = w])
          BY <4>2 DEF EditRef, UserWritesIR
        <5>2. LET obj == [ir[i] EXCEPT !.ref = w] IN obj \in IRObject /\ obj.live /\ obj.fin
          BY <1>1 DEF IRObject, Held
        <5> QED BY <5>1, <5>2
      <4>3. CASE DeleteIR(i)
        <5>1. LET obj == [ir[i] EXCEPT !.deleting = TRUE] IN
              obj \in IRObject /\ obj.live /\ obj.fin /\ WriteIR(i, obj)
          BY <1>1, <4>3 DEF DeleteIR, UserWritesIR, IRObject, Held
        <5> QED BY <5>1
      <4> QED BY <1>4, <2>2, <4>1, <4>2, <4>3 DEF CreateIR, Held
    <3> QED BY <1>2, <3>1
  <2> QED BY <2>1, <2>2
<1>5. CASE wk' # wk
  <2>1. CASE UNCHANGED ir
    BY <2>1 DEF Held
  <2>2. CASE ~UNCHANGED ir
    <3>1. /\ wk.call \in {"AddFinalizer", "RemoveFinalizer"}
          /\ CanUpdate(ir[wk.key], wk.ir)
          /\ \/ WriteIR(wk.key, [wk.ir EXCEPT !.fin = TRUE])
             \/ wk.call = "RemoveFinalizer" /\ WriteIR(wk.key, Removed(wk.ir))
      BY <1>5, <2>2, OperatorWritesIR
    <3>2. wk.key \in IRs /\ wk.ir = ir[wk.key]
      BY <3>1, AcceptedIsStored DEF Typed, TypeOK, WorkerInv
    <3>3. CASE wk.key # i
      BY <1>3, <3>1, <3>2, <3>3
    <3>4. CASE wk.key = i
      <4>1. wk.call # "RemoveFinalizer"
        BY <3>2, <3>4 DEF Typed, CallInv, KindUnknown, Kind
      <4>2. LET obj == [ir[i] EXCEPT !.fin = TRUE] IN obj \in IRObject /\ obj.live /\ obj.fin
        BY <1>1 DEF IRObject, Held
      <4> QED BY <1>2, <3>1, <3>2, <3>4, <4>1, <4>2
    <3> QED BY <3>3, <3>4
  <2> QED BY <2>1, <2>2
<1>6. CASE wk' = wk
  <2>1. CASE \E j \in IRs : CreateIR(j) \/ SetIdle(j) \/ EditRef(j) \/ DeleteIR(j)
    BY <1>4, <2>1
  <2>2. CASE ~\E j \in IRs : CreateIR(j) \/ SetIdle(j) \/ EditRef(j) \/ DeleteIR(j)
    <3>1. Environment => UNCHANGED ir
      BY <2>2, UserTypes DEF Typed, Environment, Resync, UserWritesWorkload, irVars
    <3>2. ASSUME WorkerStep PROVE UNCHANGED ir
      <4>1. ~AddFinalizer /\ ~RemoveFinalizer
        BY <1>6 DEF AddFinalizer, RemoveFinalizer, Jump, FreeWorker
      <4>2. ASSUME SetReference \/ Wakeup \/ Idle \/ RemoveAnnotations PROVE UNCHANGED ir
        BY <4>2 DEF SetReference, Wakeup, Idle, RemoveAnnotations, RetryGet, RetryPut, irVars
      <4> QED BY <3>2, <4>1, <4>2 DEF WorkerStep, GetIdlingResource, ReconcileCronStrategies,
                 GetWorkload, ReturnOk, ReturnRequeueAfter, ReturnErr, irVars
    <3>3. CASE \/ \E j \in IRs : Take(j) \/ TimerFires(j) \/ DeliverIR(j)
               \/ \E w \in Workloads : DeliverWorkload(w)
               \/ CrashRestart \/ Fault \/ UNCHANGED vars
      BY <3>3 DEF Take, TimerFires, DeliverIR, DeliverWorkload, CrashRestart, Fault, irVars,
         vars, Held
    <3> QED BY <3>1, <3>2, <3>3 DEF Next, Held
  <2> QED BY <2>1, <2>2
<1> QED BY <1>5, <1>6

(* An IdlingResource that refers to a workload of a kind Reconcile has no  *)
(* case for, and that carries the finalizer, stays as long as it refers to *)
(* it: Reconcile adds the finalizer before it looks at the kind, and takes *)
(* it off only behind the idler of a kind it knows.                        *)
THEOREM UnknownKindStays ==
  ASSUME NEW i \in IRs
  PROVE  Spec => [](Held(i) /\ []KindUnknown(i) => []ir[i].live)
<1>1. IInv /\ Held(i) /\ KindUnknown(i) /\ [Next]_vars => Held(i)'
  BY HeldKept DEF IInv, Typed
<1>2. Held(i) => ir[i].live
  BY DEF Held
<1> QED BY <1>1, <1>2, Invariance, PTL DEF Spec
=============================================================================
