-------------------------- MODULE KidleOperatorFresh --------------------------
(***************************************************************************)
(* What KidleOperator guarantees when its caches have caught up at each    *)
(* read and users scale workloads to positive numbers: a workload gets its *)
(* replicas back, is running when its IdlingResource goes, and follows its *)
(* flag.                                                                   *)
(***************************************************************************)
EXTENDS KidleOperatorSafety

-----------------------------------------------------------------------------
(* What users do to a workload.                                            *)

(* They create, delete, scale or touch one; only scaling keeps the         *)
(* annotations and changes the level.                                      *)
UserChange(old, new) ==
    \/ new = old
    \/ ~new.live /\ new.level = 0 /\ new.prev = None
    \/ /\ ~old.live /\ new.live /\ new.level # 0
       /\ new.ref = None /\ new.prev = None /\ new.exp = None
    \/ /\ old.live /\ new.live /\ (new.level = old.level \/ new.level # 0)
       /\ new.ref = old.ref /\ new.prev = old.prev /\ new.exp = old.exp

(* The level of a CronJob says whether it is suspended.                    *)
LevelFits(w, o) == KindOf[w] = "CronJob" => o.level <= 1

LEMMA UserWrites ==
  ASSUME Typed, 0 \notin UserLevels, NEW w \in Workloads,
         \/ CreateWorkload(w) \/ ScaleWorkload(w) \/ TouchWorkload(w) \/ DeleteWorkload(w)
  PROVE  /\ UserChange(wl[w], wl'[w])
         /\ LevelFits(w, wl[w]) => LevelFits(w, wl'[w])
         /\ \A v \in Workloads \ {w} : wl'[v] = wl[v]
<1>1. wl \in [Workloads -> WorkloadObject] /\ wl[w] \in WorkloadObject
  BY DEF Typed, TypeOK
<1>2. \A n \in LevelsOf(w) : n \in Nat \ {0} /\ (KindOf[w] = "CronJob" => n <= 1)
  BY LevelsAssumption DEF LevelsOf
<1>3. PICK obj \in WorkloadObject :
         /\ UserWritesWorkload(w, obj)
         /\ \/ obj.live /\ obj.ref = None /\ obj.prev = None /\ obj.exp = None
               /\ obj.level # 0 /\ ~wl[w].live
            \/ /\ obj.live /\ wl[w].live /\ (obj.level = wl[w].level \/ obj.level # 0)
               /\ obj.ref = wl[w].ref /\ obj.prev = wl[w].prev /\ obj.exp = wl[w].exp
            \/ ~obj.live /\ obj.level = 0 /\ obj.prev = None
         /\ LevelFits(w, wl[w]) => LevelFits(w, obj)
  <2>1. CASE CreateWorkload(w)
    <3>1. PICK n \in LevelsOf(w) : UserWritesWorkload(w, NewWorkload(n))
      BY <2>1 DEF CreateWorkload
    <3>2. NewWorkload(n) \in WorkloadObject /\ n \in Nat
      BY <1>2, NewObjects
    <3>3. LET obj == NewWorkload(n) IN
          obj.live /\ obj.ref = None /\ obj.prev = None /\ obj.exp = None /\ obj.level = n
      BY DEF NewWorkload, NoWorkload
    <3> QED BY <1>2, <2>1, <3>1, <3>2, <3>3 DEF CreateWorkload, LevelFits
  <2>2. CASE ScaleWorkload(w)
    <3>1. PICK n \in LevelsOf(w) : UserWritesWorkload(w, [wl[w] EXCEPT !.level = n])
      BY <2>2 DEF ScaleWorkload
    <3>2. LET obj == [wl[w] EXCEPT !.level = n] IN
          /\ obj \in WorkloadObject /\ obj.live = wl[w].live /\ obj.ref = wl[w].ref
          /\ obj.prev = wl[w].prev /\ obj.exp = wl[w].exp /\ obj.level = n
      BY <1>1, <1>2 DEF WorkloadObject
    <3> QED BY <1>2, <2>2, <3>1, <3>2 DEF ScaleWorkload, LevelFits
  <2>3. CASE TouchWorkload(w)
    <3>1. LET obj == [wl[w] EXCEPT !.rv = @ + 1] IN
          /\ obj \in WorkloadObject /\ obj.live = wl[w].live /\ obj.ref = wl[w].ref
          /\ obj.prev = wl[w].prev /\ obj.exp = wl[w].exp /\ obj.level = wl[w].level
      BY <1>1 DEF WorkloadObject
    <3> QED BY <2>3, <3>1 DEF TouchWorkload, LevelFits
  <2>4. CASE DeleteWorkload(w)
    <3>1. /\ NoWorkload \in WorkloadObject /\ ~NoWorkload.live
          /\ NoWorkload.level = 0 /\ NoWorkload.prev = None
      BY NullObjects DEF NoWorkload
    <3> QED BY <2>4, <3>1 DEF DeleteWorkload, LevelFits
  <2> QED BY <2>1, <2>2, <2>3, <2>4
<1>4. /\ wl'[w] = NextVersion(wl[w], obj)
      /\ \A v \in Workloads \ {w} : wl'[v] = wl[v]
  BY <1>1, <1>3 DEF UserWritesWorkload, WriteWorkload
<1>5. LET new == wl'[w] IN
      /\ new.live = obj.live /\ new.level = obj.level /\ new.ref = obj.ref
      /\ new.prev = obj.prev /\ new.exp = obj.exp
  BY <1>1, <1>4, SentFields
<1>6. UserChange(wl[w], wl'[w])
  BY <1>3, <1>5 DEF UserChange
<1> QED BY <1>3, <1>4, <1>5, <1>6 DEF LevelFits

(* Every step of users and resyncs does one of these, or nothing.          *)
LEMMA UserChanges ==
  ASSUME Typed, 0 \notin UserLevels, UNCHANGED wl \/ Environment, NEW w \in Workloads
  PROVE  /\ UserChange(wl[w], wl'[w])
         /\ LevelFits(w, wl[w]) => LevelFits(w, wl'[w])
<1>1. CASE UNCHANGED wl
  BY <1>1 DEF UserChange
<1>2. ASSUME NEW v \in Workloads,
             \/ CreateWorkload(v) \/ ScaleWorkload(v) \/ TouchWorkload(v) \/ DeleteWorkload(v)
      PROVE  /\ UserChange(wl[w], wl'[w])
             /\ LevelFits(w, wl[w]) => LevelFits(w, wl'[w])
  <2>1. CASE w = v
    BY <1>2, <2>1, UserWrites
  <2>2. CASE w # v
    <3>1. wl'[w] = wl[w]
      BY <1>2, <2>2, UserWrites
    <3> QED BY <3>1 DEF UserChange
  <2> QED BY <2>1, <2>2
<1>3. ASSUME NEW i \in IRs, CreateIR(i) \/ SetIdle(i) \/ EditRef(i) \/ DeleteIR(i)
      PROVE  UNCHANGED wl
  BY <1>3, UserTypes DEF Typed, UserWritesIR, wlVars
<1>4. Resync => UNCHANGED wl
  BY DEF Resync, wlVars
<1> QED BY <1>1, <1>2, <1>3, <1>4 DEF Environment

-----------------------------------------------------------------------------
(* The moves of the worker.                                                *)

(* It stays at its call, with what it knows.                               *)
Stays ==
    /\ wk'.call = wk.call /\ wk'.key = wk.key
    /\ wk'.ir = wk.ir /\ wk'.target = wk.target

(* It gives up.                                                            *)
Fails == wk.call # "Free" /\ wk' = Jump("Err", wk.ir)

(* It looks at the workload, and sees the one that is stored.              *)
Looks ==
    LET o == wl[wk.ir.ref] IN
    /\ wk.call = "GetWorkload"
    /\ wk' = IF o.live THEN ReconcileWithIdler(o) ELSE reconcileResourceNotFound(o)

(* Where it goes after a write.                                            *)
After(call, o) ==
    CASE call = "SetReference"      -> AfterSetReference(o)
      [] call = "Wakeup"            -> AfterWakeup(o)
      [] call = "Idle"              -> AfterIdle(o)
      [] call = "RemoveAnnotations" -> AfterRemoveAnnotations(o)

(* It writes the workload.                                                 *)
Writes ==
    LET w == wk.ir.ref IN
    /\ wk.call \in RetryCalls /\ wl[w].live
    /\ WriteWorkload(w, EditOf(wk.call))
    /\ wk' = After(wk.call, wl'[w])

(* It does what has nothing to do with workloads.                          *)
Elsewhere ==
    \/ GetIdlingResource \/ AddFinalizer \/ ReconcileCronStrategies \/ RemoveFinalizer
    \/ ReturnOk \/ ReturnRequeueAfter \/ ReturnErr \/ CrashRestart
    \/ \E i \in IRs : Take(i)

(* The moves of a retry loop.                                              *)
LEMMA RetryStep ==
  ASSUME Typed, WorkerInv, SetReference \/ Wakeup \/ Idle \/ RemoveAnnotations
  PROVE  (UNCHANGED wl /\ (Stays \/ Fails)) \/ Writes
<1>1. /\ wl \in [Workloads -> WorkloadObject] /\ wk \in Worker /\ wk.ir.ref \in Workloads
  BY WorkerFacts DEF Typed, TypeOK
<1>2. ASSUME NEW call \in RetryCalls, RetryGet(call)
      PROVE  UNCHANGED wl /\ (Stays \/ Fails)
  <2>1. CASE wlCache[wk.ir.ref].live
    <3>1. wk' = [wk EXCEPT !.phase = "put", !.wl = wlCache[wk.ir.ref]]
      BY <1>2, <2>1 DEF RetryGet
    <3> QED BY <1>1, <1>2, <3>1 DEF RetryGet, Stays, Worker, wlVars
  <2>2. CASE ~wlCache[wk.ir.ref].live
    BY <1>2, <2>2 DEF RetryGet, Fails, RetryCalls, wlVars
  <2> QED BY <2>1, <2>2
<1>3. ASSUME NEW call \in RetryCalls, NEW edited, NEW next, RetryPut(call, edited, next)
      PROVE  \/ Stays /\ UNCHANGED wl
             \/ Fails /\ UNCHANGED wl
             \/ /\ wk.wl = wl[wk.ir.ref] /\ wl[wk.ir.ref].live
                /\ WriteWorkload(wk.ir.ref, edited) /\ wk' = next
                /\ wl'[wk.ir.ref] = NextVersion(wl[wk.ir.ref], edited)
  <2>1. CASE CanUpdate(wl[wk.ir.ref], wk.wl)
    <3>1. wk.wl = wl[wk.ir.ref] /\ wl[wk.ir.ref].live
      BY <1>3, <2>1, AcceptedIsStored DEF WorkerInv, CanUpdate, RetryPut
    <3> QED BY <1>1, <1>3, <2>1, <3>1 DEF RetryPut, WriteWorkload
  <2>2. CASE ~CanUpdate(wl[wk.ir.ref], wk.wl)
    <3>1. UNCHANGED wl
      BY <1>3, <2>2 DEF RetryPut, wlVars
    <3>2. CASE wk' = Jump("Err", wk.ir)
      BY <1>3, <3>1, <3>2 DEF RetryPut, Fails, RetryCalls
    <3>3. CASE wk' = [wk EXCEPT !.phase = "get", !.wl = NoWorkload, !.tries = wk.tries + 1]
      BY <1>1, <3>1, <3>3 DEF Stays, Worker
    <3> QED BY <1>3, <2>2, <3>2, <3>3 DEF RetryPut
  <2> QED BY <2>1, <2>2
<1>4. CASE SetReference
  <2>1. wk.call = "SetReference"
    BY <1>4 DEF SetReference, RetryGet, RetryPut
  <2> QED BY <1>2, <1>3, <1>4, <2>1 DEF SetReference, Writes, EditOf, After, RetryCalls
<1>5. CASE Wakeup
  <2>1. wk.call = "Wakeup"
    BY <1>5 DEF Wakeup, RetryGet, RetryPut
  <2> QED BY <1>2, <1>3, <1>5, <2>1 DEF Wakeup, Writes, EditOf, After, RetryCalls
<1>6. CASE Idle
  <2>1. wk.call = "Idle"
    BY <1>6 DEF Idle, RetryGet, RetryPut
  <2> QED BY <1>2, <1>3, <1>6, <2>1 DEF Idle, Writes, EditOf, After, RetryCalls
<1>7. CASE RemoveAnnotations
  <2>1. wk.call = "RemoveAnnotations"
    BY <1>7 DEF RemoveAnnotations, RetryGet, RetryPut
  <2> QED BY <1>2, <1>3, <1>7, <2>1 DEF RemoveAnnotations, Writes, EditOf, After, RetryCalls
<1> QED BY <1>4, <1>5, <1>6, <1>7

(* With fresh reads these are all.                                         *)
LEMMA FreshMoves ==
  ASSUME Typed, WorkerInv, WorkloadWatchesInv, FreshReads, [Next]_vars
  PROVE  \/ Stays /\ (UNCHANGED wl \/ Environment)
         \/ UNCHANGED wl /\ (Fails \/ Looks \/ Elsewhere)
         \/ Writes
<1>1. CASE Environment
  <2>1. UNCHANGED wk
    BY <1>1, UserTypes DEF Typed, Environment, Resync, UserWritesIR, UserWritesWorkload
  <2> QED BY <1>1, <2>1 DEF Stays
<1>2. CASE GetWorkload
  <2>1. wk.ir.ref \in Workloads
    BY WorkerFacts DEF Typed
  <2>2. wl[wk.ir.ref] = wlCache[wk.ir.ref]
    BY <1>2, <2>1 DEF GetWorkload, WorkloadSynced, WorkloadWatchesInv, WatchOf
  <2> QED BY <1>2, <2>2 DEF GetWorkload, Looks, wlVars
<1>3. CASE SetReference \/ Wakeup \/ Idle \/ RemoveAnnotations
  BY <1>3, RetryStep
<1>4. CASE Elsewhere
  BY <1>4 DEF Elsewhere, GetIdlingResource, AddFinalizer, ReconcileCronStrategies,
     RemoveFinalizer, ReturnOk, ReturnRequeueAfter, ReturnErr, CrashRestart, Take, wlVars
<1>5. CASE Fault
  BY <1>5 DEF Fault, Fails, wlVars
<1>6. CASE \/ \E i \in IRs : TimerFires(i) \/ DeliverIR(i)
           \/ \E w \in Workloads : DeliverWorkload(w)
           \/ UNCHANGED vars
  BY <1>6 DEF TimerFires, DeliverIR, DeliverWorkload, vars, wlVars, Stays
<1> QED BY <1>1, <1>2, <1>3, <1>4, <1>5, <1>6 DEF Next, WorkerStep, Elsewhere

-----------------------------------------------------------------------------
(* Decisions.                                                              *)

(* Where AfterWakeup goes: on with a deletion, or to the end.              *)
AfterWakeupTo(next) ==
    /\ next.key = wk.key /\ next.ir = wk.ir
    /\ next.call \in {"Ok", "RemoveAnnotations", "RemoveFinalizer"}
    /\ next.call = "Ok" => ~wk.ir.deleting \/ ~wk.ir.fin
    /\ next.call # "Ok" => wk.ir.deleting

LEMMA AfterWakeupCases ==
  ASSUME Typed, wk.call # "Free", NEW o
  PROVE  /\ AfterWakeupTo(AfterWakeup(o))
         /\ wk.ir.deleting => AfterWakeupTo(AfterRemoveAnnotations(o))
<1>1. {"Ok", "RemoveAnnotations", "RemoveFinalizer"} \subseteq Calls /\ wk.ir \in IRObject /\ TypeOK
  BY WorkerFacts DEF Calls, RetryCalls, Typed
<1>2. \A call \in {"Ok", "RemoveAnnotations", "RemoveFinalizer"} :
         LET next == Jump(call, wk.ir) IN
         next.call = call /\ next.key = wk.key /\ next.ir = wk.ir
  BY <1>1, JumpType
<1>3. wk.ir.deleting => AfterWakeupTo(AfterRemoveAnnotations(o))
  BY <1>2 DEF AfterRemoveAnnotations, AfterWakeupTo
<1>4. wk.ir.deleting => AfterWakeupTo(Jump("RemoveAnnotations", wk.ir))
  BY <1>2 DEF AfterWakeupTo
<1>5. ~wk.ir.deleting => AfterWakeupTo(Jump("Ok", wk.ir))
  BY <1>2 DEF AfterWakeupTo
<1> QED BY <1>3, <1>4, <1>5 DEF AfterWakeup

(* Where the decision about a workload leads: to Wakeup with the level to  *)
(* restore, to Idle for one that is up, on with a deletion for one that    *)
(* is up, or to the end when it is as the flag says.                       *)
DecisionTo(next, o) ==
    /\ next.key = wk.key /\ next.ir = wk.ir
    /\ next.call \in {"Wakeup", "Idle", "RemoveAnnotations", "RemoveFinalizer", "Ok"}
    /\ next.call = "Wakeup" => next.target = WakeupLevel(Kind, o)
    /\ next.call = "Idle" => wk.ir.idle /\ ~wk.ir.deleting /\ o.level # 0
    /\ next.call \in {"RemoveAnnotations", "RemoveFinalizer"} => wk.ir.deleting /\ o.level # 0
    /\ next.call = "Ok" => \/ wk.ir.deleting /\ ~wk.ir.fin
                           \/ ~wk.ir.deleting /\ (wk.ir.idle <=> o.level = 0)

LEMMA Decision ==
  ASSUME Typed, wk.call # "Free", Kind \in SupportedKinds, NEW o \in WorkloadObject,
         LevelFits(wk.ir.ref, o)
  PROVE  DecisionTo(AfterSetReference(o), o)
<1> DEFINE woken == [Jump("Wakeup", wk.ir) EXCEPT !.target = WakeupLevel(Kind, o)]
<1>1. /\ {"Ok", "Idle", "Wakeup"} \subseteq Calls /\ wk.ir \in IRObject /\ TypeOK
      /\ wk.ir.idle \in BOOLEAN /\ wk.ir.deleting \in BOOLEAN /\ o.level \in Nat
  BY WorkerFacts DEF Calls, RetryCalls, Typed, IRObject, WorkloadObject
<1>2. \A call \in {"Ok", "Idle", "Wakeup"} :
         LET next == Jump(call, wk.ir) IN
         next \in Worker /\ next.call = call /\ next.key = wk.key /\ next.ir = wk.ir
  BY <1>1, JumpType
<1>3. /\ woken.call = "Wakeup" /\ woken.key = wk.key /\ woken.ir = wk.ir
      /\ woken.target = WakeupLevel(Kind, o)
  BY <1>2 DEF Worker
<1>4. NeedWakeup(Kind, wk.ir, o) <=> ~wk.ir.idle /\ o.level = 0
  BY DEF NeedWakeup, SupportedKinds, DeploymentNeedWakeup, StatefulSetNeedWakeup,
         CronJobNeedWakeup
<1>5. NeedIdle(Kind, wk.ir, o) <=> wk.ir.idle /\ o.level # 0
  <2>1. CASE Kind = "CronJob"
    <3>1. NeedIdle(Kind, wk.ir, o) <=> wk.ir.idle /\ o.level = 1
      BY <2>1 DEF NeedIdle, CronJobNeedIdle
    <3>2. o.level <= 1
      BY <2>1 DEF LevelFits, Kind
    <3> QED BY <1>1, <3>1, <3>2
  <2>2. CASE Kind \in {"Deployment", "StatefulSet"}
    <3>1. NeedIdle(Kind, wk.ir, o) <=> wk.ir.idle /\ o.level > 0
      BY <2>2 DEF NeedIdle, DeploymentNeedIdle, StatefulSetNeedIdle
    <3> QED BY <1>1, <3>1
  <2> QED BY <2>1, <2>2 DEF SupportedKinds
<1>6. WakeupSkips(Kind, o) => o.level # 0
  BY <1>1 DEF WakeupSkips, CronJobWakeupSkips
<1>7. CASE wk.ir.deleting
  <2>1. CASE WakeupSkips(Kind, o)
    <3>1. AfterSetReference(o) = AfterWakeup(o)
      BY <1>7, <2>1 DEF AfterSetReference, StartWakeup
    <3> QED BY <1>6, <1>7, <2>1, <3>1, AfterWakeupCases DEF AfterWakeupTo, DecisionTo
  <2>2. CASE ~WakeupSkips(Kind, o)
    BY <1>3, <1>7, <2>2 DEF AfterSetReference, StartWakeup, DecisionTo
  <2> QED BY <2>1, <2>2
<1>8. CASE ~wk.ir.deleting
  <2>1. CASE NeedWakeup(Kind, wk.ir, o)
    BY <1>3, <1>4, <1>6, <1>8, <2>1 DEF AfterSetReference, StartWakeup, DecisionTo
  <2>2. CASE ~NeedWakeup(Kind, wk.ir, o) /\ NeedIdle(Kind, wk.ir, o)
    BY <1>2, <1>5, <1>8, <2>2 DEF AfterSetReference, DecisionTo
  <2>3. CASE ~NeedWakeup(Kind, wk.ir, o) /\ ~NeedIdle(Kind, wk.ir, o)
    <3>1. AfterSetReference(o) = Jump("Ok", wk.ir)
      BY <1>8, <2>3 DEF AfterSetReference
    <3> QED BY <1>1, <1>2, <1>4, <1>5, <1>8, <2>3, <3>1 DEF DecisionTo
  <2> QED BY <2>1, <2>2, <2>3
<1> QED BY <1>1, <1>7, <1>8

-----------------------------------------------------------------------------
(* Levels and saved replicas.                                              *)

(* The level a workload is to have again.                                  *)
Restored(o) == IF o.prev = None THEN 1 ELSE o.prev

(* The saved replicas are positive, a CronJob has none, and its level is 0 *)
(* or 1; a workload that is down is expected to be.                        *)
Sound(w, o) ==
    /\ o.prev # 0
    /\ KindOf[w] = "CronJob" => o.prev = None
    /\ LevelFits(w, o)
    /\ o.live /\ o.level = 0 => o.exp = 0

LevelInv == \A w \in Workloads : Sound(w, wl[w])

(* At each call of k the workload, if it is there, is as the call takes it *)
(* to be: Wakeup has its level in hand, the others find it up.             *)
StageOf(k, o) ==
    /\ k.call = "Wakeup" =>
          /\ k.target # 0
          /\ KindOf[k.ir.ref] = "CronJob" => k.target <= 1
          /\ o.live /\ o.level = 0 => k.target = Restored(o)
    /\ k.call \in {"Idle", "RemoveAnnotations", "RemoveFinalizer"} /\ o.live
          => o.level # 0

StageInv == StageOf(wk, wl[wk.ir.ref])

(* The four edits.                                                         *)
LEMMA EditFields ==
  ASSUME Typed, Kind \in SupportedKinds, wk.key \in IRs, wk.call \in RetryCalls
  PROVE  LET o == wl[wk.ir.ref] new == EditOf(wk.call) IN
         /\ new \in WorkloadObject /\ new.live = o.live
         /\ wk.call = "SetReference" => /\ new.level = o.level /\ new.ref = wk.key
                                        /\ new.prev = o.prev /\ new.exp = o.exp
         /\ wk.call = "Wakeup" => /\ new.level = wk.target /\ new.ref = o.ref
                                  /\ new.prev = o.prev /\ new.exp = wk.target
         /\ wk.call = "Idle" => /\ new.level = 0 /\ new.ref = o.ref /\ new.exp = 0
                                /\ new.prev = IF Kind = "CronJob" THEN o.prev ELSE o.level
         /\ wk.call = "RemoveAnnotations" => /\ new.level = o.level /\ new.ref = None
                                             /\ new.prev = None /\ new.exp = None
<1> DEFINE o == wl[wk.ir.ref]
<1>1. o \in WorkloadObject /\ wk.target \in Nat
  BY WorkerFacts DEF Typed, TypeOK
<1> HIDE DEF o
<1>2. CASE wk.call = "SetReference"
  <2>1. EditOf(wk.call) = SetReferenceEdit(o, wk.key)
    BY <1>2 DEF EditOf, o
  <2> QED BY <1>1, <1>2, <2>1, EditTypes DEF SetReferenceEdit, WorkloadObject, o
<1>3. CASE wk.call = "Wakeup"
  <2> DEFINE edited == WakeupEdit(o, wk.target)
  <2>1. EditOf(wk.call) = edited
    BY <1>3 DEF EditOf, o
  <2>2. edited \in WorkloadObject
    BY <1>1, EditTypes
  <2>3. /\ edited.live = o.live /\ edited.level = wk.target /\ edited.ref = o.ref
        /\ edited.prev = o.prev /\ edited.exp = wk.target
    BY <1>1 DEF WakeupEdit, WorkloadObject
  <2> HIDE DEF edited
  <2> QED BY <1>3, <2>1, <2>2, <2>3 DEF o
<1>4. CASE wk.call = "RemoveAnnotations"
  <2>1. EditOf(wk.call) = RemoveAnnotationsEdit(o)
    BY <1>4 DEF EditOf, o
  <2>2. EditOf(wk.call) \in WorkloadObject
    BY <1>1, <2>1, EditTypes
  <2>3. LET new == EditOf(wk.call) IN
        /\ new.live = o.live /\ new.level = o.level
        /\ new.ref = None /\ new.prev = None /\ new.exp = None
    BY <1>1, <2>1 DEF RemoveAnnotationsEdit, WorkloadObject
  <2> QED BY <1>4, <2>2, <2>3 DEF o
<1>5. CASE wk.call = "Idle"
  <2>1. EditOf(wk.call) = IdleEdit(Kind, o)
    BY <1>5 DEF EditOf, o
  <2>2. EditOf(wk.call) \in WorkloadObject
    BY <1>1, <2>1, EditTypes
  <2>3. CASE Kind = "CronJob"
    <3>1. EditOf(wk.call) = CronJobIdle(o)
      BY <2>1, <2>3 DEF IdleEdit
    <3> QED BY <1>1, <1>5, <2>2, <2>3, <3>1 DEF CronJobIdle, WorkloadObject, o
  <2>4. CASE Kind # "CronJob"
    <3>1. EditOf(wk.call) = DeploymentIdle(o)
      BY <2>1, <2>4 DEF IdleEdit, StatefulSetIdle, SupportedKinds
    <3> QED BY <1>1, <1>5, <2>2, <2>4, <3>1 DEF DeploymentIdle, WorkloadObject, o
  <2> QED BY <2>3, <2>4
<1> QED BY <1>2, <1>3, <1>4, <1>5 DEF RetryCalls, o

(* A write of the worker, field by field.                                  *)
LEMMA WrittenFields ==
  ASSUME Typed, Writes
  PROVE  LET w == wk.ir.ref o == wl[w] new == wl'[w] IN
         /\ w \in Workloads /\ wk.key \in IRs /\ Kind \in SupportedKinds /\ wk.call # "Free"
         /\ new \in WorkloadObject /\ o.live /\ new.live
         /\ \A v \in Workloads \ {w} : wl'[v] = wl[v]
         /\ wk.call = "SetReference" => /\ new.level = o.level /\ new.ref = wk.key
                                        /\ new.prev = o.prev /\ new.exp = o.exp
         /\ wk.call = "Wakeup" => /\ new.level = wk.target /\ new.ref = o.ref
                                  /\ new.prev = o.prev /\ new.exp = wk.target
         /\ wk.call = "Idle" => /\ new.level = 0 /\ new.ref = o.ref /\ new.exp = 0
                                /\ new.prev = IF Kind = "CronJob" THEN o.prev ELSE o.level
         /\ wk.call = "RemoveAnnotations" => /\ new.level = o.level /\ new.ref = None
                                             /\ new.prev = None /\ new.exp = None
<1> DEFINE w == wk.ir.ref
<1>1. /\ wl \in [Workloads -> WorkloadObject] /\ w \in Workloads
      /\ wk.key \in IRs /\ Kind \in SupportedKinds /\ wk.call # "Free" /\ wk.call \in RetryCalls
  BY WorkerFacts DEF Typed, TypeOK, CallInv, Writes, RetryCalls
<1>2. /\ wl'[w] = NextVersion(wl[w], EditOf(wk.call)) /\ wl[w].live
      /\ \A v \in Workloads \ {w} : wl'[v] = wl[v]
  BY <1>1 DEF Writes, WriteWorkload
<1>3. EditOf(wk.call) \in WorkloadObject
  BY <1>1, EditFields
<1>4. LET new == wl'[w] obj == EditOf(wk.call) IN
      /\ new.live = obj.live /\ new.level = obj.level /\ new.ref = obj.ref
      /\ new.prev = obj.prev /\ new.exp = obj.exp /\ new \in WorkloadObject
  BY <1>1, <1>2, <1>3, SentFields
<1>5. EditOf(wk.call).live = wl[w].live
  BY <1>1, EditFields
<1>6. CASE wk.call = "SetReference"
  BY <1>1, <1>2, <1>4, <1>5, <1>6, EditFields
<1>7. CASE wk.call = "Wakeup"
  BY <1>1, <1>2, <1>4, <1>5, <1>7, EditFields
<1>8. CASE wk.call = "Idle"
  BY <1>1, <1>2, <1>4, <1>5, <1>8, EditFields
<1>9. CASE wk.call = "RemoveAnnotations"
  BY <1>1, <1>2, <1>4, <1>5, <1>9, EditFields
<1> QED BY <1>1, <1>6, <1>7, <1>8, <1>9 DEF RetryCalls

(* Both invariants are kept by users ...                                   *)
LEMMA SoundChange ==
  ASSUME NEW w \in Workloads, NEW old \in WorkloadObject, NEW new \in WorkloadObject,
         UserChange(old, new), Sound(w, old), LevelFits(w, new)
  PROVE  Sound(w, new)
  BY NoneAssumption DEF UserChange, Sound

LEMMA StageChange ==
  ASSUME NEW k, NEW old \in WorkloadObject, NEW new \in WorkloadObject,
         UserChange(old, new), StageOf(k, old)
  PROVE  StageOf(k, new)
  BY DEF UserChange, StageOf, Restored

(* ... and by decisions.                                                   *)
LEMMA StageDecided ==
  ASSUME Typed, Kind \in SupportedKinds, NEW next, NEW o \in WorkloadObject,
         DecisionTo(next, o), Sound(wk.ir.ref, o)
  PROVE  StageOf(next, o)
<1>1. next.call = "Wakeup" => next.target = Restored(o)
  BY DEF DecisionTo, Sound, Kind, SupportedKinds, Restored, WakeupLevel,
     DeploymentWakeupLevel, StatefulSetWakeupLevel, CronJobWakeupLevel
<1>2. Restored(o) # 0 /\ (KindOf[wk.ir.ref] = "CronJob" => Restored(o) <= 1)
  BY DEF Sound, Restored
<1> QED BY <1>1, <1>2 DEF DecisionTo, StageOf

LEMMA StageWoken ==
  ASSUME NEW next, NEW o, AfterWakeupTo(next), o.level # 0
  PROVE  StageOf(next, o)
  BY DEF AfterWakeupTo, StageOf

LEMMA JumpCall ==
  ASSUME NEW call, NEW inst
  PROVE  Jump(call, inst).call = call
  BY DEF Jump, FreeWorker

(* Where the rest of the reconciliation leads.                             *)
LEMMA ElsewhereTo ==
  ASSUME Typed, Elsewhere
  PROVE  wk'.call \in {"Free", "GetIdlingResource", "AddFinalizer",
                       "ReconcileCronStrategies", "GetWorkload", "Ok", "Err"}
<1>1. CASE ReturnOk \/ ReturnRequeueAfter \/ ReturnErr \/ CrashRestart
  <2>1. wk' = FreeWorker
    BY <1>1 DEF ReturnOk, ReturnRequeueAfter, ReturnErr, CrashRestart
  <2> QED BY <2>1 DEF FreeWorker
<1>2. CASE GetIdlingResource \/ AddFinalizer \/ ReconcileCronStrategies \/ RemoveFinalizer
  BY <1>2, JumpCall DEF GetIdlingResource, AddFinalizer, ReconcileCronStrategies,
     RemoveFinalizer
<1>3. ASSUME NEW i \in IRs, Take(i) PROVE wk'.call = "GetIdlingResource"
  BY <1>3 DEF Take, FreeWorker
<1> QED BY <1>1, <1>2, <1>3 DEF Elsewhere

LEMMA LevelStep ==
  ASSUME Typed, WorkerInv, WorkloadWatchesInv, FreshReads, 0 \notin UserLevels,
         LevelInv, StageInv, [Next]_vars
  PROVE  LevelInv'
<1> SUFFICES ASSUME NEW w \in Workloads PROVE Sound(w, wl'[w])
  BY DEF LevelInv, Sound, LevelFits
<1>1. wl[w] \in WorkloadObject /\ wl'[w] \in WorkloadObject /\ Sound(w, wl[w])
  BY TypedStep DEF Typed, TypeOK, LevelInv
<1>2. CASE UNCHANGED wl \/ Environment
  BY <1>1, <1>2, UserChanges, SoundChange DEF Sound
<1>3. CASE Writes /\ w = wk.ir.ref
  <2>1. /\ wl[w].live /\ wk.call \in {"Idle", "RemoveAnnotations"} => wl[w].level # 0
        /\ wk.call = "Wakeup" => wk.target # 0 /\ (KindOf[w] = "CronJob" => wk.target <= 1)
    BY <1>3 DEF StageInv, StageOf
  <2> QED BY <1>1, <1>3, <2>1, WrittenFields, NoneAssumption
          DEF Writes, RetryCalls, Sound, LevelFits, Kind
<1>4. CASE Writes /\ w # wk.ir.ref
  BY <1>1, <1>4, WrittenFields
<1> QED BY <1>2, <1>3, <1>4, FreshMoves

LEMMA StageStep ==
  ASSUME Typed, WorkerInv, CallInv, WorkloadWatchesInv, FreshReads, 0 \notin UserLevels,
         LevelInv, StageInv, [Next]_vars
  PROVE  StageInv'
<1> DEFINE o == wl'[wk'.ir.ref]
<1> SUFFICES StageOf(wk', o)
  BY DEF StageInv, StageOf, Restored
<1>1. /\ TypeOK /\ wk.ir.ref \in Workloads /\ wl' \in [Workloads -> WorkloadObject]
      /\ wl \in [Workloads -> WorkloadObject] /\ wk.ir \in IRObject
      /\ \A w \in Workloads : Sound(w, wl'[w])
  BY WorkerFacts, TypedStep, LevelStep DEF Typed, TypeOK, LevelInv, Sound, LevelFits
<1>2. CASE Stays /\ (UNCHANGED wl \/ Environment)
  <2>1. StageOf(wk, o)
    BY <1>1, <1>2, UserChanges, StageChange DEF StageInv, Stays
  <2> QED BY <1>2, <2>1 DEF Stays, StageOf
<1>3. CASE Fails
  BY <1>3 DEF Fails, Jump, FreeWorker, StageOf
<1>4. CASE UNCHANGED wl /\ Looks
  <2> DEFINE p == wl[wk.ir.ref]
  <2>1. Kind \in SupportedKinds /\ wk.call # "Free"
    BY <1>4 DEF CallInv, Looks
  <2>2. CASE p.live /\ p.ref # None
    <3>1. wk' = AfterSetReference(p)
      BY <1>4, <2>2 DEF Looks, ReconcileWithIdler
    <3>2. DecisionTo(wk', p)
      BY <1>1, <1>4, <2>1, <3>1, Decision DEF Sound
    <3>3. p = o
      BY <1>4, <3>2 DEF DecisionTo
    <3> QED BY <1>1, <1>4, <2>1, <3>2, <3>3, StageDecided DEF DecisionTo
  <2>3. CASE p.live /\ p.ref = None
    <3>1. wk' = Jump("SetReference", wk.ir)
      BY <1>4, <2>3 DEF Looks, ReconcileWithIdler
    <3>2. wk'.call = "SetReference"
      BY <3>1, JumpCall
    <3> QED BY <3>2 DEF StageOf
  <2>4. CASE ~p.live
    <3>1. \/ wk' = Jump("RequeueAfter", wk.ir)
          \/ wk.ir.deleting /\ wk' = AfterRemoveAnnotations(p)
      BY <1>4, <2>4 DEF Looks, reconcileResourceNotFound
    <3>2. CASE wk' = Jump("RequeueAfter", wk.ir)
      BY <3>2 DEF Jump, FreeWorker, StageOf
    <3>3. CASE wk.ir.deleting /\ wk' = AfterRemoveAnnotations(p)
      <4>1. AfterWakeupTo(wk')
        BY <1>1, <2>1, <3>3, AfterWakeupCases
      <4>2. p = o
        BY <1>4, <4>1 DEF AfterWakeupTo
      <4> QED BY <2>4, <4>1, <4>2 DEF AfterWakeupTo, StageOf
    <3> QED BY <3>1, <3>2, <3>3
  <2> QED BY <2>2, <2>3, <2>4
<1>5. CASE Elsewhere
  <2> QED BY <1>5, ElsewhereTo DEF StageOf
<1>6. CASE Writes
  <2> DEFINE w == wk.ir.ref
  <2>1. /\ w \in Workloads /\ Kind \in SupportedKinds /\ wk.call # "Free"
        /\ wl'[w] \in WorkloadObject /\ wl[w].live
    BY <1>6, WrittenFields
  <2>2. CASE wk.call = "SetReference"
    <3>1. DecisionTo(wk', wl'[w])
      BY <1>1, <1>6, <2>1, <2>2, Decision DEF Writes, After, Sound
    <3> QED BY <1>1, <2>1, <3>1, StageDecided DEF DecisionTo
  <2>3. CASE wk.call = "Wakeup"
    <3>1. AfterWakeupTo(wk')
      BY <1>6, <2>1, <2>3, AfterWakeupCases DEF Writes, After
    <3>2. wl'[w].level # 0
      BY <1>6, <2>3, WrittenFields DEF StageInv, StageOf
    <3> QED BY <3>1, <3>2, StageWoken DEF AfterWakeupTo
  <2>4. CASE wk.call = "RemoveAnnotations"
    <3>1. AfterWakeupTo(wk')
      BY <1>6, <2>1, <2>4, AfterWakeupCases DEF Writes, After, CallInv
    <3>2. wl'[w].level # 0
      BY <1>6, <2>1, <2>4, WrittenFields DEF StageInv, StageOf
    <3> QED BY <3>1, <3>2, StageWoken DEF AfterWakeupTo
  <2>5. CASE wk.call = "Idle"
    BY <1>6, <2>5 DEF Writes, After, AfterIdle, Jump, FreeWorker, StageOf
  <2> QED BY <1>6, <2>2, <2>3, <2>4, <2>5 DEF Writes, RetryCalls
<1> QED BY <1>2, <1>3, <1>4, <1>5, <1>6, FreshMoves

(* Nothing is saved before the operator has started.                       *)
LEMMA FreshInit ==
  ASSUME 0 \notin UserLevels
  PROVE  Init => LevelInv /\ StageInv
<1> SUFFICES ASSUME Init PROVE LevelInv /\ StageInv
  OBVIOUS
<1>1. ASSUME NEW w \in Workloads PROVE Sound(w, wl[w])
  <2>1. wl[w] \in InitialWorkloads(w)
    BY DEF Init
  <2>2. CASE wl[w] = NoWorkload
    BY <2>2, NoneAssumption DEF NoWorkload, Sound, LevelFits
  <2>3. CASE \E n \in LevelsOf(w) : wl[w] = NewWorkload(n)
    <3>1. PICK n \in LevelsOf(w) : wl[w] = NewWorkload(n)
      BY <2>3
    <3>2. n \in Nat /\ n # 0 /\ (KindOf[w] = "CronJob" => n <= 1)
      BY LevelsAssumption DEF LevelsOf
    <3> QED BY <3>1, <3>2, NoneAssumption DEF NewWorkload, NoWorkload, Sound, LevelFits
  <2> QED BY <2>1, <2>2, <2>3 DEF InitialWorkloads
<1>2. wk.call = "Free"
  BY DEF Init, FreeWorker
<1> QED BY <1>1, <1>2 DEF LevelInv, StageInv, StageOf

LEMMA FreshStep ==
  ASSUME FreshReads, 0 \notin UserLevels, IInv, LevelInv, StageInv, [Next]_vars
  PROVE  LevelInv' /\ StageInv'
  BY LevelStep, StageStep DEF IInv, Typed

THEOREM FreshInvariance ==
  ASSUME FreshReads, 0 \notin UserLevels
  PROVE  Spec => [](LevelInv /\ StageInv)
<1>1. IInv /\ LevelInv /\ StageInv /\ [Next]_vars => LevelInv' /\ StageInv'
  BY FreshStep
<1> QED BY <1>1, FreshInit, Invariance, PTL DEF Spec

(* The saved replicas are never zero when reads are fresh and users scale  *)
(* to a positive number: every wakeup then starts something.  Both         *)
(* conditions are needed: a stale copy makes Idle save the zero it wrote.  *)
THEOREM SavedReplicasPositiveHolds ==
  ASSUME FreshReads, 0 \notin UserLevels
  PROVE  Spec => []SavedReplicasPositive
<1>1. LevelInv => SavedReplicasPositive
  BY DEF LevelInv, Sound, SavedReplicasPositive
<1> QED BY <1>1, FreshInvariance, PTL

(* With fresh reads and users who scale to a positive number, a wakeup     *)
(* gives a workload back the replicas taken from it: nothing that happens  *)
(* between the look at them and the write changes them.                    *)
THEOREM WakeRestoresHolds ==
  ASSUME FreshReads, 0 \notin UserLevels
  PROVE  Spec => WakeRestores
<1> DEFINE Restores == wk' # wk => \A w \in Workloads :
                         wl[w].level = 0 /\ wl'[w].level > 0
                            => wl'[w].level = IF wl[w].prev = None THEN 1 ELSE wl[w].prev
<1>1. ASSUME IInv, StageInv, [Next]_vars PROVE Restores
  <2> SUFFICES ASSUME wk' # wk, NEW w \in Workloads, wl[w].level = 0, wl'[w].level > 0
               PROVE  wl'[w].level = Restored(wl[w])
    BY DEF Restored
  <2>1. Typed /\ WorkerInv /\ WorkloadWatchesInv
    BY <1>1 DEF IInv, Typed
  <2>2. ~Environment /\ wl' # wl
    BY <2>1, UserTypes DEF Typed, Environment, Resync, UserWritesIR, UserWritesWorkload
  <2>3. Writes
    BY <1>1, <2>1, <2>2, FreshMoves
  <2>4. w = wk.ir.ref
    BY <2>1, <2>3, WrittenFields
  <2>5. wk.call = "Wakeup" /\ wl'[w].level = wk.target /\ wl[w].live
    BY <2>1, <2>3, <2>4, WrittenFields DEF Writes, RetryCalls
  <2> QED BY <1>1, <2>4, <2>5 DEF StageInv, StageOf
<1>2. IInv /\ StageInv /\ [Next]_vars => [Restores]_vars
  BY <1>1
<1> QED BY <1>2, FreshInvariance, Invariance, PTL DEF Spec, WakeRestores

(* The finalizer is removed when the workload runs again: whatever users   *)
(* did while the deletion went on, the operator has not left it at zero.   *)
THEOREM WokenAtRemovalHolds ==
  ASSUME FreshReads, 0 \notin UserLevels
  PROVE  Spec => WokenAtRemoval
<1> DEFINE Woken == wk' # wk => \A i \in IRs : ir[i].live /\ ~ir'[i].live
                      => LET o == wl[ir[i].ref] IN o.live => o.level > 0
<1>1. ASSUME IInv, StageInv, [Next]_vars PROVE Woken
  <2> SUFFICES ASSUME wk' # wk, NEW i \in IRs, ir[i].live, ~ir'[i].live, wl[ir[i].ref].live
               PROVE  wl[ir[i].ref].level > 0
    OBVIOUS
  <2>1. /\ Typed /\ WorkerInv /\ wl \in [Workloads -> WorkloadObject]
        /\ ir \in [IRs -> IRObject] /\ wk.ir \in IRObject
    BY <1>1, WorkerFacts DEF IInv, Typed, TypeOK
  <2>2. /\ wk.call \in {"AddFinalizer", "RemoveFinalizer"}
        /\ CanUpdate(ir[wk.key], wk.ir)
        /\ \/ WriteIR(wk.key, [wk.ir EXCEPT !.fin = TRUE])
           \/ wk.call = "RemoveFinalizer" /\ WriteIR(wk.key, Removed(wk.ir))
    BY <1>1, <2>1, OperatorWritesIR
  <2>3. wk.key \in IRs /\ wk.ir = ir[wk.key]
    BY <2>1, <2>2, AcceptedIsStored DEF Typed, TypeOK, WorkerInv
  <2>4. i = wk.key
    BY <2>1, <2>2, <2>3 DEF WriteIR
  <2>5. wk.call = "RemoveFinalizer"
    <3>1. ASSUME WriteIR(wk.key, [wk.ir EXCEPT !.fin = TRUE]) PROVE FALSE
      <4>1. ir'[i] = NextVersion(ir[i], [ir[i] EXCEPT !.fin = TRUE])
        BY <2>1, <2>3, <2>4, <3>1 DEF WriteIR
      <4> QED BY <2>1, <4>1 DEF NextVersion, IRObject
    <3> QED BY <2>2, <3>1
  <2>6. wl[ir[i].ref].level # 0
    BY <1>1, <2>3, <2>4, <2>5 DEF StageInv, StageOf
  <2>7. ir[i].ref \in Workloads /\ wl[ir[i].ref].level \in Nat
    BY <2>1 DEF IRObject, WorkloadObject
  <2> QED BY <2>6, <2>7
<1>2. IInv /\ StageInv /\ [Next]_vars => [Woken]_vars
  BY <1>1
<1> QED BY <1>2, FreshInvariance, Invariance, PTL DEF Spec, WokenAtRemoval

-----------------------------------------------------------------------------
(* References.                                                             *)

(* SetReference is on its way only to a workload that refers to nobody.    *)
UnclaimedInv == wk.call = "SetReference" => wl[wk.ir.ref].ref = None

(* No decision about a workload with a reference leads to SetReference.    *)
LEMMA NotSetReference ==
  ASSUME NEW o
  PROVE  /\ AfterSetReference(o).call # "SetReference"
         /\ AfterWakeup(o).call # "SetReference"
         /\ AfterIdle(o).call # "SetReference"
         /\ AfterRemoveAnnotations(o).call # "SetReference"
         /\ reconcileResourceNotFound(o).call # "SetReference"
<1>1. /\ AfterIdle(o).call # "SetReference"
      /\ AfterRemoveAnnotations(o).call # "SetReference"
  BY JumpCall DEF AfterIdle, AfterRemoveAnnotations
<1>2. /\ AfterWakeup(o).call # "SetReference"
      /\ reconcileResourceNotFound(o).call # "SetReference"
  BY <1>1, JumpCall DEF AfterWakeup, reconcileResourceNotFound
<1>3. [Jump("Wakeup", wk.ir) EXCEPT !.target = WakeupLevel(Kind, o)].call # "SetReference"
  BY DEF Jump, FreeWorker
<1>4. AfterSetReference(o).call # "SetReference"
  BY <1>2, <1>3, JumpCall DEF AfterSetReference, StartWakeup
<1> QED BY <1>1, <1>2, <1>4

LEMMA UnclaimedStep ==
  ASSUME IInv, UnclaimedInv, FreshReads, [Next]_vars
  PROVE  UnclaimedInv'
<1> SUFFICES ASSUME wk'.call = "SetReference" PROVE wl'[wk'.ir.ref].ref = None
  BY DEF UnclaimedInv
<1>1. Typed /\ WorkerInv /\ WorkloadWatchesInv /\ wk.ir.ref \in Workloads
  BY WorkerFacts DEF IInv, Typed
<1>2. CASE Stays /\ (UNCHANGED wl \/ Environment)
  BY <1>1, <1>2, UserRefs DEF UnclaimedInv, Stays
<1>3. ~Fails /\ ~Elsewhere
  BY <1>1, ElsewhereTo, JumpCall DEF Fails
<1>4. CASE UNCHANGED wl /\ Looks
  <2>1. wl[wk.ir.ref].ref = None /\ wk' = Jump("SetReference", wk.ir)
    BY <1>4, NotSetReference DEF Looks, ReconcileWithIdler
  <2>2. wk'.ir = wk.ir
    BY <2>1 DEF Jump, FreeWorker
  <2> QED BY <1>4, <2>1, <2>2
<1>5. ~Writes
  BY NotSetReference DEF Writes, After, RetryCalls
<1> QED BY <1>1, <1>2, <1>3, <1>4, <1>5, FreshMoves

(* With fresh reads no write of the operator passes its own event filter,  *)
(* whatever number of IdlingResources share a workload: between the look   *)
(* that found it without a reference and the write that sets one, nobody   *)
(* else sets one.                                                          *)
THEOREM QuietWritesFresh ==
  ASSUME FreshReads
  PROVE  Spec => QuietWrites
<1> DEFINE Quiet == wk' # wk => \A w \in Workloads : QuietAt(w)
<1>1. Init => UnclaimedInv
  BY DEF Init, UnclaimedInv, FreeWorker
<1>2. IInv /\ UnclaimedInv /\ [Next]_vars => UnclaimedInv'
  BY UnclaimedStep
<1>3. ASSUME IInv, UnclaimedInv, [Next]_vars, NEW w \in Workloads PROVE wk' # wk => QuietAt(w)
  BY <1>3, QuietStep DEF UnclaimedInv
<1>4. IInv /\ UnclaimedInv /\ [Next]_vars => [Quiet]_vars
  BY <1>3
<1> QED BY <1>1, <1>2, <1>4, Invariance, PTL DEF Spec, QuietWrites

-----------------------------------------------------------------------------
(* Requests that are on their way.                                         *)

(* The version a workload's cache holds before the n-th event on its way.  *)
Before(w, n) == IF n = 1 THEN wlCache[w] ELSE wlWatch[w][n - 1]

(* An event of a workload that is on its way will ask for i.               *)
Awaited(w, i) ==
    \E n \in 1 .. Len(wlWatch[w]) : i \in WorkloadRequests(Before(w, n), wlWatch[w][n])

(* A reconciliation of i is still to come.                                 *)
Requested(i) ==
    \/ ~IRSynced(i)
    \/ i \in queue \cup timers
    \/ Awaited(ir[i].ref, i)

(* A change of a workload that asks for i is on its way.                   *)
LEMMA AwaitedNew ==
  ASSUME Typed, WorkloadWatchesInv, [Next]_vars, NEW w \in Workloads, NEW i \in IRs,
         wl'[w] # wl[w], i \in WorkloadRequests(wl[w], wl'[w])
  PROVE  Awaited(w, i)'
<1>1. /\ wl \in [Workloads -> WorkloadObject] /\ wlWatch \in [Workloads -> Seq(WorkloadObject)]
      /\ wl' \in [Workloads -> WorkloadObject]
  BY TypedStep DEF Typed, TypeOK
<1>2. PICK v \in Workloads, obj \in WorkloadObject : WriteWorkload(v, obj)
  BY WorkloadSteps DEF WritesWorkload, wlVars, DeliverWorkload, CrashRestart
<1>3. /\ v = w
      /\ wlWatch'[w] = Append(wlWatch[w], wl'[w]) /\ wlCache' = wlCache
  BY <1>1, <1>2 DEF WriteWorkload
<1>4. PICK n \in Nat : n = Len(wlWatch[w]) + 1
  BY <1>1
<1>5. /\ n \in 1 .. Len(wlWatch'[w]) /\ wlWatch'[w][n] = wl'[w]
      /\ n > 1 => wlWatch'[w][n - 1] = wlWatch[w][Len(wlWatch[w])]
  BY <1>1, <1>3, <1>4
<1>6. Before(w, n)' = wl[w]
  <2>1. CASE wlWatch[w] = <<>>
    <3>1. wlCache[w] = wl[w] /\ n = 1
      BY <1>4, <2>1 DEF WorkloadWatchesInv, WatchOf
    <3> QED BY <1>3, <3>1 DEF Before
  <2>2. CASE wlWatch[w] # <<>>
    <3>1. wlWatch[w][Len(wlWatch[w])] = wl[w]
      BY <2>2 DEF WorkloadWatchesInv, WatchOf
    <3>2. n > 1
      BY <1>1, <1>4, <2>2
    <3> QED BY <1>5, <3>1, <3>2 DEF Before
  <2> QED BY <2>1, <2>2
<1> QED BY <1>5, <1>6 DEF Awaited

(* What is on its way arrives.                                             *)
LEMMA AwaitedKept ==
  ASSUME Typed, [Next]_vars, NEW w \in Workloads, NEW i \in IRs, Awaited(w, i)
  PROVE  Awaited(w, i)' \/ i \in queue' \/ CrashRestart
<1>1. wlWatch \in [Workloads -> Seq(WorkloadObject)]
  BY DEF Typed, TypeOK
<1>2. PICK n \in 1 .. Len(wlWatch[w]) : i \in WorkloadRequests(Before(w, n), wlWatch[w][n])
  BY DEF Awaited
<1>3. CASE /\ wlCache'[w] = wlCache[w]
           /\ wlWatch'[w] = wlWatch[w] \/ \E o : wlWatch'[w] = Append(wlWatch[w], o)
  <2>1. /\ n \in 1 .. Len(wlWatch'[w]) /\ wlWatch'[w][n] = wlWatch[w][n]
        /\ n > 1 => wlWatch'[w][n - 1] = wlWatch[w][n - 1]
    <3>1. CASE wlWatch'[w] = wlWatch[w]
      BY <3>1
    <3>2. ASSUME NEW o, wlWatch'[w] = Append(wlWatch[w], o)
          PROVE  /\ n \in 1 .. Len(wlWatch'[w]) /\ wlWatch'[w][n] = wlWatch[w][n]
                 /\ n > 1 => wlWatch'[w][n - 1] = wlWatch[w][n - 1]
      BY <1>1, <3>2, AppendProperties
    <3> QED BY <1>3, <3>1, <3>2
  <2>2. Before(w, n)' = Before(w, n)
    BY <1>3, <2>1 DEF Before
  <2> QED BY <1>2, <2>1, <2>2 DEF Awaited
<1>4. CASE DeliverWorkload(w)
  <2>1. /\ wlWatch'[w] = Tail(wlWatch[w]) /\ wlCache'[w] = Head(wlWatch[w])
        /\ WorkloadRequests(wlCache[w], Head(wlWatch[w])) \subseteq queue'
    <3>1. wlCache \in [Workloads -> WorkloadObject]
      BY DEF Typed, TypeOK
    <3> QED BY <1>1, <1>4, <3>1 DEF DeliverWorkload
  <2>2. CASE n = 1
    <3>1. wlWatch[w][n] = Head(wlWatch[w])
      BY <2>2
    <3> QED BY <1>2, <2>1, <2>2, <3>1 DEF Before
  <2>3. CASE n > 1
    <3>1. /\ n - 1 \in 1 .. Len(wlWatch'[w]) /\ wlWatch'[w][n - 1] = wlWatch[w][n]
          /\ n - 1 > 1 => wlWatch'[w][n - 1 - 1] = wlWatch[w][n - 1]
      BY <1>1, <2>1, <2>3
    <3>2. Before(w, n - 1)' = Before(w, n)
      BY <2>1, <2>3, <3>1 DEF Before
    <3> QED BY <1>2, <3>1, <3>2 DEF Awaited
  <2> QED BY <2>2, <2>3
<1>5. ASSUME NEW v \in Workloads, v # w, DeliverWorkload(v)
      PROVE  wlCache'[w] = wlCache[w] /\ wlWatch'[w] = wlWatch[w]
  BY <1>1, <1>5 DEF DeliverWorkload, Typed, TypeOK
<1>6. ASSUME WritesWorkload
      PROVE  /\ wlCache'[w] = wlCache[w]
             /\ wlWatch'[w] = wlWatch[w] \/ \E o : wlWatch'[w] = Append(wlWatch[w], o)
  BY <1>1, <1>6 DEF WritesWorkload, WriteWorkload
<1> QED BY <1>3, <1>4, <1>5, <1>6, WorkloadSteps DEF wlVars

(* A request is served by taking it.                                       *)
LEMMA RequestedKept ==
  ASSUME Typed, [Next]_vars, NEW i \in IRs, ir'[i].live, Requested(i)
  PROVE  Requested(i)' \/ Take(i)
<1>1. ir'[i] = ir[i] \/ irWatch'[i] # <<>> \/ CrashRestart
  <2>1. DeliverIR(i) => ir'[i] = ir[i]
    BY DEF DeliverIR
  <2> QED BY <2>1, IRVersions
<1>2. CASE CrashRestart
  BY <1>2 DEF CrashRestart, LiveIRs, Requested
<1>3. CASE irWatch'[i] # <<>>
  BY <1>3 DEF Requested, IRSynced
<1>4. CASE ir'[i] = ir[i] /\ irWatch'[i] = <<>> /\ ~CrashRestart
  <2>1. CASE irWatch[i] # <<>>
    <3>1. DeliverIR(i)
      BY <1>4, <2>1, IRVersions
    <3> QED BY <3>1 DEF DeliverIR, Requested
  <2>2. CASE i \in queue \cup timers
    BY <1>4, <2>2, RequestSteps DEF Requested
  <2>3. CASE Awaited(ir[i].ref, i)
    <3>1. ir[i].ref \in Workloads
      BY DEF Typed, TypeOK, IRObject
    <3> QED BY <1>4, <2>3, <3>1, AwaitedKept DEF Requested
  <2> QED BY <2>1, <2>2, <2>3 DEF Requested, IRSynced
<1> QED BY <1>1, <1>2, <1>3, <1>4

-----------------------------------------------------------------------------
(* Every IdlingResource is settled, in the worker's hands or asked for.    *)

(* The worker has it, and will not end before its workload agrees with it: *)
(* at the two calls that end a reconciliation the workload refers to it,   *)
(* so that whatever becomes of the workload is reported.                   *)
OnIt(i) ==
    /\ wk.key = i
    /\ \/ wk.call \in {"GetIdlingResource", "AddFinalizer", "ReconcileCronStrategies",
                       "GetWorkload", "SetReference", "RemoveAnnotations",
                       "RemoveFinalizer", "RequeueAfter", "Err"}
       \/ /\ wk.call \in {"Idle", "Wakeup"}
          /\ wl[ir[i].ref].live /\ wl[ir[i].ref].ref = i

(* The workload is there, refers to it and is as its flag says.            *)
Agrees(i) ==
    LET o == wl[ir[i].ref] IN
    ~ir[i].deleting /\ o.live /\ o.ref = i /\ (ir[i].idle <=> o.level = 0)

(* So it is with each IdlingResource that has the workload to itself, and  *)
(* refers to it by a kind the operator knows.                              *)
HasOwn(owner, i) ==
    ir[i].live /\ owner[ir[i].ref] = i /\ KindOf[ir[i].ref] \in SupportedKinds

SettledInv(owner) ==
    \A i \in IRs : HasOwn(owner, i) => Requested(i) \/ OnIt(i) \/ Agrees(i)

(* A copy that no request is to replace is the stored version.             *)
LEMMA CurrentCopy ==
  ASSUME Typed, WorkerInv, RequestInv, NEW i \in IRs, ir[i].live, ~Requested(i), wk.key = i,
         wk.call \notin {"Free", "GetIdlingResource", "Ok", "RequeueAfter", "Err"}
  PROVE  wk.ir = ir[i]
<1>1. IRSynced(i) /\ i \notin queue \cup timers
  BY DEF Requested
<1>2. UpToDate
  BY <1>1 DEF RequestInv
<1> QED BY <1>2 DEF UpToDate, WorkerInv, VersionOf

(* What users do unnoticed to a workload that refers to i, and that is     *)
(* expected down when it is: it stays, and is down or up as before.        *)
LEMMA Unnoticed ==
  ASSUME NEW i \in IRs, NEW old \in WorkloadObject, NEW new \in WorkloadObject,
         UserChange(old, new), new = old \/ i \notin WorkloadRequests(old, new),
         old.live, old.ref = i, old.level = 0 => old.exp = 0
  PROVE  new.live /\ new.ref = i /\ (new.level = 0 <=> old.level = 0)
<1>1. i # None /\ 0 # None
  BY NoneAssumption
<1>2. new.live
  BY <1>1 DEF WorkloadRequests, objectForIdlingResourceMapper
<1>3. new.ref = i /\ new.exp = old.exp /\ (new.level = old.level \/ new.level # 0)
  BY <1>2 DEF UserChange
<1>4. ASSUME old.level = 0, new.level # 0 PROVE FALSE
  <2>1. KidleChangedPredicate(old, new)
    BY <1>1, <1>3, <1>4 DEF KidleChangedPredicate
  <2> QED BY <1>1, <1>2, <1>4, <2>1 DEF WorkloadRequests, objectForIdlingResourceMapper
<1> QED BY <1>2, <1>3, <1>4

(* The same of the workload of an IdlingResource that nothing asks for.    *)
LEMMA UnnoticedStep ==
  ASSUME Typed, WorkloadWatchesInv, 0 \notin UserLevels, LevelInv, [Next]_vars,
         UNCHANGED wl \/ Environment, NEW i \in IRs, ir'[i] = ir[i], ~Requested(i)',
         wl[ir[i].ref].live, wl[ir[i].ref].ref = i
  PROVE  LET old == wl[ir[i].ref] new == wl'[ir[i].ref] IN
         new.live /\ new.ref = i /\ (new.level = 0 <=> old.level = 0)
<1> DEFINE w == ir[i].ref
<1>1. /\ w \in Workloads /\ wl[w] \in WorkloadObject /\ wl'[w] \in WorkloadObject
  BY TypedStep DEF Typed, TypeOK, IRObject
<1>2. wl'[w] = wl[w] \/ i \notin WorkloadRequests(wl[w], wl'[w])
  <2>1. ~Awaited(w, i)'
    BY DEF Requested
  <2> QED BY <1>1, <2>1, AwaitedNew
<1>3. UserChange(wl[w], wl'[w]) /\ (wl[w].level = 0 => wl[w].exp = 0)
  BY <1>1, UserChanges DEF LevelInv, Sound
<1> QED BY <1>1, <1>2, <1>3, Unnoticed

(* A settled IdlingResource stays so, or is asked for.                     *)
LEMMA AgreesKept ==
  ASSUME IInv, LevelInv, StageInv, FreshReads, 0 \notin UserLevels, [Next]_vars,
         NEW owner, OwnedInv(owner), NEW i \in IRs, HasOwn(owner, i), ir'[i] = ir[i],
         ~Requested(i), ~Requested(i)', Agrees(i)
  PROVE  Agrees(i)'
<1> DEFINE w == ir[i].ref
<1>1. Typed /\ WorkerInv /\ RequestInv /\ WorkloadWatchesInv /\ CallInv
  BY DEF IInv, Typed
<1>2. CASE UNCHANGED wl \/ Environment
  BY <1>1, <1>2, UnnoticedStep DEF Agrees
<1>3. CASE Writes
  <2> SUFFICES ASSUME wk.key = i PROVE Agrees(i)'
    <3>1. ASSUME wk.key # i PROVE wl'[w] = wl[w]
      <4>1. MayReferTo(owner, wk.key, wk.ir.ref) /\ owner[w] = i /\ w \in Workloads
        BY <1>1, <1>3 DEF Writes, RetryCalls, OwnedInv, HasOwn, Typed, TypeOK, IRObject
      <4> QED BY <1>1, <1>3, <3>1, <4>1, WrittenFields DEF MayReferTo
    <3> QED BY <3>1 DEF Agrees
  <2>1. wk.call \in RetryCalls
    BY <1>3 DEF Writes
  <2>2. wk.ir = ir[i]
    BY <1>1, <2>1, CurrentCopy DEF RetryCalls, HasOwn
  <2>3. wk.call # "RemoveAnnotations"
    BY <1>1, <2>2 DEF CallInv, Agrees
  <2>4. CASE wk.call = "SetReference"
    BY <1>1, <1>3, <2>1, <2>2, <2>4, WrittenFields DEF Agrees
  <2>5. CASE wk.call = "Wakeup"
    <3>1. wl'[w].live /\ wl'[w].ref = i /\ wl'[w].level # 0
      BY <1>1, <1>3, <2>2, <2>5, WrittenFields DEF Agrees, StageInv, StageOf
    <3>2. ~ir[i].idle
      BY <1>1, <2>2, <2>5 DEF CallInv, Agrees
    <3> QED BY <3>1, <3>2 DEF Agrees
  <2>6. CASE wk.call = "Idle"
    <3>1. wl'[w].live /\ wl'[w].ref = i /\ wl'[w].level = 0
      BY <1>1, <1>3, <2>2, <2>6, WrittenFields DEF Agrees
    <3>2. ir[i].idle
      BY <1>1, <2>2, <2>6 DEF CallInv
    <3> QED BY <3>1, <3>2 DEF Agrees
  <2> QED BY <2>1, <2>3, <2>4, <2>5, <2>6 DEF RetryCalls
<1> QED BY <1>1, <1>2, <1>3, FreshMoves

(* A decision, and the end of a wakeup, settle it or go on with it.        *)
LEMMA DecisionSettles ==
  ASSUME NEW i \in IRs, FinalizedInv, ir[i].live, ir'[i] = ir[i], wk.key = i, wk.ir = ir[i],
         DecisionTo(wk', wl'[ir[i].ref]), wl'[ir[i].ref].live, wl'[ir[i].ref].ref = i
  PROVE  OnIt(i)' \/ Agrees(i)'
  BY DEF FinalizedInv, DecisionTo, OnIt, Agrees

LEMMA WakeupSettles ==
  ASSUME NEW i \in IRs, FinalizedInv, ir[i].live, ir'[i] = ir[i], wk.key = i, wk.ir = ir[i],
         AfterWakeupTo(wk'),
         ~ir[i].deleting => /\ ~ir[i].idle /\ wl'[ir[i].ref].live /\ wl'[ir[i].ref].ref = i
                            /\ wl'[ir[i].ref].level # 0
  PROVE  OnIt(i)' \/ Agrees(i)'
  BY DEF FinalizedInv, AfterWakeupTo, OnIt, Agrees

(* The worker does not let go of one before it is settled.                 *)
LEMMA OnItKept ==
  ASSUME IInv, LevelInv, StageInv, FinalizedInv, FreshReads, 0 \notin UserLevels,
         NEW owner, OwnedInv(owner),
         [Next]_vars, NEW i \in IRs, HasOwn(owner, i), ir'[i] = ir[i],
         ~Requested(i), ~Requested(i)', OnIt(i)
  PROVE  OnIt(i)' \/ Agrees(i)'
<1> DEFINE w == ir[i].ref
<1>1. /\ Typed /\ WorkerInv /\ RequestInv /\ WorkloadWatchesInv /\ CallInv /\ IRWatchesInv
      /\ TypeOK /\ wk.key = i /\ wk.call # "Free" /\ wk.call # "Ok"
      /\ ir[i].live /\ owner[w] = i /\ KindOf[w] \in SupportedKinds
  BY DEF IInv, Typed, OnIt, HasOwn
<1>2. wk.call \notin {"GetIdlingResource", "RequeueAfter", "Err"} => wk.ir = ir[i]
  BY <1>1, CurrentCopy
<1>3. /\ w \in Workloads /\ wl \in [Workloads -> WorkloadObject]
      /\ wl' \in [Workloads -> WorkloadObject] /\ Sound(w, wl[w]) /\ Sound(w, wl'[w])
      /\ wk.ir \in IRObject
  BY <1>1, TypedStep, LevelStep, WorkerFacts DEF Typed, TypeOK, IRObject, LevelInv, Sound,
     LevelFits
<1>4. CASE Stays /\ (UNCHANGED wl \/ Environment)
  BY <1>1, <1>4, UnnoticedStep DEF OnIt, Stays
<1>5. CASE Fails
  BY <1>1, <1>5 DEF Fails, Jump, FreeWorker, OnIt
<1>6. CASE UNCHANGED wl /\ Looks
  <2>1. wk.ir = ir[i] /\ Kind \in SupportedKinds
    BY <1>1, <1>2, <1>6 DEF Looks, CallInv
  <2>2. CASE wl[w].live /\ wl[w].ref # None
    <3>1. wk' = AfterSetReference(wl[w]) /\ wl[w].ref = i
      BY <1>1, <1>3, <1>6, <2>1, <2>2 DEF Looks, ReconcileWithIdler, OwnedInv, MayReferTo
    <3>2. DecisionTo(wk', wl[w])
      BY <1>1, <1>3, <2>1, <3>1, Decision DEF Sound
    <3> QED BY <1>1, <1>6, <2>1, <2>2, <3>1, <3>2, DecisionSettles
  <2>3. CASE wl[w].live /\ wl[w].ref = None
    <3>1. wk' = Jump("SetReference", wk.ir)
      BY <1>6, <2>1, <2>3 DEF Looks, ReconcileWithIdler
    <3> QED BY <1>1, <3>1 DEF Jump, FreeWorker, OnIt
  <2>4. CASE ~wl[w].live /\ ~ir[i].deleting
    <3>1. wk' = Jump("RequeueAfter", wk.ir)
      BY <1>6, <2>1, <2>4 DEF Looks, reconcileResourceNotFound
    <3> QED BY <1>1, <3>1 DEF Jump, FreeWorker, OnIt
  <2>5. CASE ~wl[w].live /\ ir[i].deleting
    <3>1. wk' = AfterRemoveAnnotations(wl[w])
      BY <1>6, <2>1, <2>5 DEF Looks, reconcileResourceNotFound
    <3>2. AfterWakeupTo(wk')
      BY <1>1, <2>1, <2>5, <3>1, AfterWakeupCases
    <3> QED BY <1>1, <2>1, <2>5, <3>2, WakeupSettles
  <2> QED BY <2>2, <2>3, <2>4, <2>5
<1>7. CASE Elsewhere
  <2>1. CASE GetIdlingResource
    <3>1. irCache[i] = ir[i]
      BY <1>1, <2>1 DEF GetIdlingResource, IRSynced, IRWatchesInv, WatchOf
    <3>2. \E call \in {"AddFinalizer", "ReconcileCronStrategies"} : wk' = Jump(call, ir[i])
      BY <1>1, <2>1, <3>1 DEF GetIdlingResource
    <3> QED BY <1>1, <3>2 DEF Jump, FreeWorker, OnIt
  <2>2. CASE AddFinalizer \/ RemoveFinalizer
    <3>1. \/ \E inst : \/ wk' = Jump("ReconcileCronStrategies", inst)
                      \/ wk' = Jump("Err", inst)
          \/ RemoveFinalizer /\ CanUpdate(ir[i], wk.ir)
      BY <1>1, <2>2 DEF AddFinalizer, RemoveFinalizer
    <3>2. ~(RemoveFinalizer /\ CanUpdate(ir[i], wk.ir))
      <4> SUFFICES ASSUME RemoveFinalizer, CanUpdate(ir[i], wk.ir) PROVE FALSE
        OBVIOUS
      <4>1. ir'[i] = NextVersion(ir[i], Removed(wk.ir))
        BY <1>1 DEF RemoveFinalizer, WriteIR, TypeOK
      <4>2. ~Removed(wk.ir).live
        BY <1>3 DEF Removed, IRObject
      <4> QED BY <1>1, <1>3, <4>1, <4>2 DEF NextVersion, Removed, IRObject
    <3> QED BY <1>1, <3>1, <3>2 DEF Jump, FreeWorker, OnIt
  <2>3. CASE ReconcileCronStrategies
    <3>1. wk' = Jump("GetWorkload", wk.ir)
      BY <1>1, <1>2, <1>3, <2>3 DEF ReconcileCronStrategies, Kind
    <3> QED BY <1>1, <3>1 DEF Jump, FreeWorker, OnIt
  <2>4. CASE ReturnOk \/ \E j \in IRs : Take(j)
    BY <1>1, <2>4 DEF ReturnOk, Take
  <2>5. CASE ReturnRequeueAfter \/ ReturnErr
    BY <1>1, <2>5 DEF ReturnRequeueAfter, ReturnErr, Requested
  <2>6. CASE CrashRestart
    BY <1>1, <2>6 DEF CrashRestart, LiveIRs, Requested
  <2> QED BY <1>7, <2>1, <2>2, <2>3, <2>4, <2>5, <2>6 DEF Elsewhere
<1>8. CASE Writes
  <2>1. wk.ir = ir[i] /\ Kind \in SupportedKinds
    BY <1>1, <1>2, <1>8, WrittenFields DEF Writes, RetryCalls
  <2>2. CASE wk.call = "SetReference"
    <3>1. wl'[w].live /\ wl'[w].ref = i
      BY <1>1, <1>8, <2>1, <2>2, WrittenFields
    <3>2. DecisionTo(wk', wl'[w])
      BY <1>1, <1>3, <1>8, <2>1, <2>2, Decision DEF Writes, After, Sound
    <3> QED BY <1>1, <2>1, <3>1, <3>2, DecisionSettles
  <2>3. CASE wk.call = "Wakeup"
    <3>1. AfterWakeupTo(wk')
      BY <1>1, <1>8, <2>3, AfterWakeupCases DEF Writes, After
    <3>2. wl'[w].live /\ wl'[w].ref = i /\ wl'[w].level # 0
      BY <1>1, <1>8, <2>1, <2>3, WrittenFields DEF OnIt, StageInv, StageOf
    <3>3. ~ir[i].deleting => ~ir[i].idle
      BY <1>1, <2>1, <2>3 DEF CallInv
    <3> QED BY <1>1, <2>1, <3>1, <3>2, <3>3, WakeupSettles
  <2>4. CASE wk.call = "RemoveAnnotations"
    <3>1. ir[i].deleting
      BY <1>1, <2>1, <2>4 DEF CallInv
    <3>2. AfterWakeupTo(wk')
      BY <1>1, <1>8, <2>1, <2>4, <3>1, AfterWakeupCases DEF Writes, After
    <3> QED BY <1>1, <2>1, <3>1, <3>2, WakeupSettles
  <2>5. CASE wk.call = "Idle"
    <3>1. wl'[w].live /\ wl'[w].ref = i /\ wl'[w].level = 0
      BY <1>1, <1>8, <2>1, <2>5, WrittenFields DEF OnIt
    <3>2. ir[i].idle /\ ~ir[i].deleting
      BY <1>1, <2>1, <2>5 DEF CallInv
    <3> QED BY <3>1, <3>2 DEF Agrees
  <2> QED BY <1>8, <2>2, <2>3, <2>4, <2>5 DEF Writes, RetryCalls
<1> QED BY <1>1, <1>4, <1>5, <1>6, <1>7, <1>8, FreshMoves

LEMMA SettledStep ==
  ASSUME IInv, LevelInv, StageInv, FinalizedInv, FreshReads, 0 \notin UserLevels,
         NEW owner, OwnedInv(owner), SettledInv(owner), [Next]_vars
  PROVE  SettledInv(owner)'
<1> SUFFICES ASSUME NEW i \in IRs, HasOwn(owner, i)', ~Requested(i)'
             PROVE  OnIt(i)' \/ Agrees(i)'
  BY DEF SettledInv
<1>1. Typed
  BY DEF IInv, Typed
<1>2. ir'[i] = ir[i]
  <2>1. ~CrashRestart
    BY DEF CrashRestart, LiveIRs, Requested, HasOwn
  <2>2. irWatch'[i] = <<>>
    BY DEF Requested, IRSynced
  <2>3. DeliverIR(i) => ir'[i] = ir[i]
    BY DEF DeliverIR
  <2> QED BY <1>1, <2>1, <2>2, <2>3, IRVersions
<1>3. CASE Requested(i)
  <2>1. Take(i)
    BY <1>1, <1>3, RequestedKept DEF HasOwn
  <2> QED BY <2>1 DEF Take, FreeWorker, OnIt
<1>4. CASE ~Requested(i)
  <2>1. HasOwn(owner, i)
    BY <1>2 DEF HasOwn
  <2> QED BY <1>2, <1>4, <2>1, AgreesKept, OnItKept DEF SettledInv
<1> QED BY <1>3, <1>4

(* At rest nothing is on its way: what is settled agrees.                  *)
LEMMA SettledAtRest ==
  ASSUME NEW owner, IInv, SettledInv(owner), AtRest, NEW i \in IRs, HasOwn(owner, i)
  PROVE  Follows(i)
<1>1. ir[i].ref \in Workloads
  BY DEF IInv, TypeOK, IRObject
<1>2. ~Requested(i) /\ ~OnIt(i)
  BY <1>1 DEF AtRest, AllSynced, WorkloadSynced, Requested, Awaited, OnIt
<1> QED BY <1>2 DEF SettledInv, Agrees, Follows

LEMMA SettledInvariance ==
  ASSUME FreshReads, 0 \notin UserLevels, NEW owner
  PROVE  Spec /\ []Dedicated(owner) => [](IInv /\ SettledInv(owner))
<1>1. Init => SettledInv(owner)
  BY DEF Init, LiveIRs, SettledInv, Requested, HasOwn
<1>2. /\ IInv /\ LevelInv /\ StageInv /\ FinalizedInv
      /\ OwnedInv(owner) /\ SettledInv(owner) /\ [Next]_vars
      => SettledInv(owner)'
  BY SettledStep
<1> QED BY <1>1, <1>2, OwnedInvariance, FreshInvariance, FinalizedInvariance, Invariance, PTL
     DEF Spec

(* At rest a workload that has an owner is as its owner asks, whatever     *)
(* users did before, and whatever other IdlingResources fight over: with   *)
(* fresh reads, positive levels, and a kind the operator knows.            *)
THEOREM OwnedFollowAtRest ==
  ASSUME FreshReads, 0 \notin UserLevels, NEW owner,
         NEW w \in Workloads, owner[w] \in IRs, KindOf[w] \in SupportedKinds
  PROVE  Spec /\ []Dedicated(owner)
            => [](AtRest /\ ir[owner[w]].ref = w => Follows(owner[w]))
<1> DEFINE Agreed == AtRest /\ ir[owner[w]].ref = w => Follows(owner[w])
<1>1. IInv /\ SettledInv(owner) => Agreed
  <2> SUFFICES ASSUME IInv, SettledInv(owner), AtRest, ir[owner[w]].ref = w, ir[owner[w]].live
               PROVE  Follows(owner[w])
    BY DEF Follows
  <2>1. HasOwn(owner, owner[w])
    BY DEF HasOwn
  <2> QED BY <2>1, SettledAtRest
<1> HIDE DEF Agreed
<1>2. Spec /\ []Dedicated(owner) => []Agreed
  BY <1>1, SettledInvariance, PTL
<1> QED BY <1>2 DEF Agreed

(* If all workloads have owners and known kinds, all are.                  *)
THEOREM AtRestAgreesHolds ==
  ASSUME FreshReads, 0 \notin UserLevels, NEW owner,
         \A w \in Workloads : owner[w] \in IRs /\ KindOf[w] \in SupportedKinds
  PROVE  Spec /\ []Dedicated(owner) => []AtRestAgrees
<1>1. ASSUME IInv, SettledInv(owner), Dedicated(owner) PROVE AtRestAgrees
  <2> SUFFICES ASSUME AtRest, NEW i \in IRs, ir[i].live PROVE Follows(i)
    BY DEF AtRestAgrees, Follows
  <2>1. ir[i].ref \in Workloads
    BY <1>1 DEF IInv, TypeOK, IRObject
  <2>2. HasOwn(owner, i)
    BY <1>1, <2>1 DEF Dedicated, MayReferTo, HasOwn
  <2> QED BY <1>1, <2>2, SettledAtRest
<1>2. IInv /\ SettledInv(owner) /\ Dedicated(owner) => AtRestAgrees
  BY <1>1
<1> QED BY <1>2, SettledInvariance, PTL

(* A single IdlingResource has every workload to itself.                   *)
OnlyOwner == [w \in Workloads |-> CHOOSE i \in IRs : TRUE]

THEOREM AtRestAgreesOfOne ==
  ASSUME FreshReads, 0 \notin UserLevels,
         \A w \in Workloads : KindOf[w] \in SupportedKinds,
         \A i, j \in IRs : i = j
  PROVE  Spec => []AtRestAgrees
<1> DEFINE Alone   == Dedicated(OnlyOwner)
           Own     == OwnedInv(OnlyOwner)
           Settled == SettledInv(OnlyOwner)
<1>1. IInv => Alone
  BY DEF Dedicated, MayReferTo
<1>2. /\ Init /\ Alone => Own
      /\ IInv /\ Own /\ Alone' /\ [Next]_vars => Own'
  BY OwnedInit, OwnedStep
<1>3. Init => Settled
  BY DEF Init, LiveIRs, SettledInv, Requested, HasOwn
<1>4. IInv /\ LevelInv /\ StageInv /\ FinalizedInv /\ Own /\ Settled /\ [Next]_vars => Settled'
  BY SettledStep
<1>5. ASSUME IInv, Settled PROVE AtRestAgrees
  <2> SUFFICES ASSUME AtRest, NEW i \in IRs, ir[i].live PROVE Follows(i)
    BY DEF AtRestAgrees, Follows
  <2>1. ir[i].ref \in Workloads
    BY <1>5 DEF IInv, TypeOK, IRObject
  <2>2. HasOwn(OnlyOwner, i)
    BY <2>1 DEF HasOwn, OnlyOwner
  <2> QED BY <1>5, <2>2, SettledAtRest
<1>6. IInv /\ Settled => AtRestAgrees
  BY <1>5
<1> HIDE DEF Alone, Own, Settled
<1> QED BY <1>1, <1>2, <1>3, <1>4, <1>6, FreshInvariance, FinalizedInvariance, Invariance, PTL
     DEF Spec
=============================================================================
