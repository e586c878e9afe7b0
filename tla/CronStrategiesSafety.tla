------------------------ MODULE CronStrategiesSafety ------------------------
(***************************************************************************)
(* What the operator's caches and events guarantee about the objects it    *)
(* owns: every IdlingResource comes to have its service account, role and  *)
(* role binding, and the CronJobs of its strategies, as long as names are  *)
(* short enough to be told apart; no deletion is forgotten; and the        *)
(* contract of CronContract is kept.                                       *)
(***************************************************************************)
EXTENDS CronStrategiesTyping, CronStrategiesContract, SequenceTheorems

-----------------------------------------------------------------------------
(* The inductive invariant.                                                *)

(* An object that is there has the owner whose name its own was made from. *)
OwnedAt(k, o) == o.live => o.owner \in IRs /\ k = ToDNSName(o.owner, k[2])

(* The versions on their way to a cache end in the one that is stored.     *)
LastVersion(watch, cache) == IF watch = <<>> THEN cache ELSE watch[Len(watch)]

(* What the cache holds when the n-th of them arrives.                     *)
VersionBefore(watch, cache, n) == IF n = 1 THEN cache ELSE watch[n - 1]

(* An object at the API server, on its way and in the cache: each version  *)
(* has the right owner, and each event has an owner to be mapped to.       *)
SlotInv(k, o, watch, cache) ==
    /\ OwnedAt(k, o) /\ OwnedAt(k, cache)
    /\ \A n \in DOMAIN watch : /\ OwnedAt(k, watch[n])
                               /\ watch[n].live \/ VersionBefore(watch, cache, n).live
    /\ LastVersion(watch, cache) = o

SlotsInv == \A k \in Slots : SlotInv(k, obj[k], objWatch[k], objCache[k])

IRWatchInv == \A i \in IRs : LastVersion(irWatch[i], irCache[i]) = ir[i]

(* The copy to be written back is of an object of this IdlingResource or   *)
(* of one with the same name; CronJobs are written for a strategy that is  *)
(* set, and only CronJobs are deleted, for one that is not.                *)
WorkerInv ==
    /\ wk.call = "Update" => wk.obj.live /\ OwnedAt(Slot, wk.obj)
    /\ wk.call \in {"Create", "Update"} /\ wk.part \in Commands => wk.ir.want[wk.part] # None
    /\ wk.call = "Delete" => wk.part \in Commands /\ wk.ir.want[wk.part] = None

CacheInv == TypeOK /\ SlotsInv /\ IRWatchInv /\ WorkerInv

RBACParts == {"sa", "role", "rb"}

(* The object is as it should be, or an event about it is on its way or    *)
(* will be once the garbage collector has been there.                      *)
Settled(i, p) ==
    LET k == ToDNSName(i, p) IN
    \/ objWatch[k] # <<>> \/ Orphan(obj[k])
    \/ Owns(i, p) /\ (p = "role" => obj[k].names = i)

Requested(i) == irWatch[i] # <<>> \/ i \in queue \cup timers

(* The RBAC objects the worker will still look at, this time or the next.  *)
Ahead ==
    {p \in RBACParts :
        \/ wk.call \in {"GetIdlingResource", "AddFinalizer", "Err"}
        \/ /\ wk.call \in {"Get", "Create", "Update", "Delete"}
           /\ \/ wk.part = "sa" \/ wk.part = p
              \/ wk.part = "role" /\ p = "rb"}

Covered(i, p) == Settled(i, p) \/ Requested(i) \/ (wk.key = i /\ p \in Ahead)

RBACInv ==
    \A i \in IRs : NameApart(i) /\ ir[i].live => \A p \in RBACParts : Covered(i, p)

-----------------------------------------------------------------------------
(* One slot: the object, its versions on their way, and the cached one.    *)

LEMMA SlotListed ==
  ASSUME NEW k, NEW o, OwnedAt(k, o)
  PROVE  SlotInv(k, o, <<>>, o)
  BY DEF SlotInv, LastVersion

LEMMA SlotAppend ==
  ASSUME NEW k, NEW o, NEW next \in OwnedObject, NEW cache, NEW watch \in Seq(OwnedObject),
         SlotInv(k, o, watch, cache), OwnedAt(k, next), next.live \/ o.live
  PROVE  SlotInv(k, next, Append(watch, next), cache)
<1> DEFINE w == Append(watch, next)
<1>1. /\ w \in Seq(OwnedObject) /\ Len(w) = Len(watch) + 1 /\ w # <<>>
      /\ w[Len(w)] = next /\ \A n \in 1 .. Len(watch) : w[n] = watch[n]
      /\ DOMAIN w = 1 .. Len(watch) + 1 /\ DOMAIN watch = 1 .. Len(watch) /\ Len(watch) \in Nat
  OBVIOUS
<1> HIDE DEF w
<1>2. LastVersion(w, cache) = next
  BY <1>1 DEF LastVersion
<1>3. VersionBefore(w, cache, Len(w)) = o
  BY <1>1, EmptySeq DEF VersionBefore, SlotInv, LastVersion
<1>4. \A n \in 1 .. Len(watch) : VersionBefore(w, cache, n) = VersionBefore(watch, cache, n)
  BY <1>1 DEF VersionBefore
<1>5. \A n \in DOMAIN w : OwnedAt(k, w[n]) /\ (w[n].live \/ VersionBefore(w, cache, n).live)
  BY <1>1, <1>3, <1>4 DEF SlotInv
<1> QED BY <1>2, <1>5 DEF SlotInv, w

LEMMA SlotDelivered ==
  ASSUME NEW k, NEW o, NEW cache, NEW watch \in Seq(OwnedObject),
         SlotInv(k, o, watch, cache), watch # <<>>
  PROVE  /\ SlotInv(k, o, Tail(watch), Head(watch))
         /\ Head(watch).live \/ cache.live
<1> DEFINE w == Tail(watch)
<1>1. /\ w \in Seq(OwnedObject) /\ Len(w) = Len(watch) - 1 /\ Len(watch) \in Nat \ {0}
      /\ \A n \in 1 .. Len(watch) - 1 : w[n] = watch[n + 1]
      /\ DOMAIN w = 1 .. Len(watch) - 1 /\ DOMAIN watch = 1 .. Len(watch)
      /\ Head(watch) = watch[1] /\ (w = <<>> <=> Len(watch) = 1)
  <2>1. w \in Seq(OwnedObject) /\ Len(w) = Len(watch) - 1 /\ Len(watch) \in Nat \ {0}
    BY HeadTailProperties, EmptySeq
  <2>2. \A n \in 1 .. Len(watch) - 1 : w[n] = watch[n + 1]
    BY <2>1, HeadTailProperties
  <2>3. DOMAIN w = 1 .. Len(watch) - 1 /\ DOMAIN watch = 1 .. Len(watch)
    BY <2>1, LenProperties
  <2>4. Head(watch) = watch[1]
    OBVIOUS
  <2>5. w = <<>> <=> Len(watch) = 1
    <3> HIDE DEF w
    <3>1. CASE w = <<>>
      <4>1. Len(w) = 0
        BY <3>1, EmptySeq
      <4> QED BY <2>1, <3>1, <4>1
    <3>2. CASE w # <<>>
      <4>1. Len(w) \in Nat \ {0}
        BY <2>1, <3>2, EmptySeq
      <4> QED BY <2>1, <3>2, <4>1
    <3> QED BY <3>1, <3>2
  <2> QED BY <2>1, <2>2, <2>3, <2>4, <2>5
<1> HIDE DEF w
<1>2. LastVersion(w, Head(watch)) = o
  BY <1>1 DEF LastVersion, SlotInv
<1>3. \A n \in DOMAIN w : VersionBefore(w, Head(watch), n) = VersionBefore(watch, cache, n + 1)
  BY <1>1 DEF VersionBefore
<1>4. \A n \in DOMAIN w : OwnedAt(k, w[n]) /\ (w[n].live \/ VersionBefore(w, Head(watch), n).live)
  BY <1>1, <1>3 DEF SlotInv
<1>5. OwnedAt(k, Head(watch)) /\ (Head(watch).live \/ cache.live)
  BY <1>1 DEF SlotInv, VersionBefore
<1> QED BY <1>2, <1>4, <1>5 DEF SlotInv, w

-----------------------------------------------------------------------------
(* Writes.                                                                 *)

(* A new version is stored, and on its way to the cache.                   *)
StoredObject(k, next) ==
    /\ next.rv = obj[k].rv + 1
    /\ obj' = [obj EXCEPT ![k] = next]
    /\ objWatch' = [objWatch EXCEPT ![k] = Append(@, next)]
    /\ objCache' = objCache

StoredIR(i, next) ==
    /\ next.rv = ir[i].rv + 1
    /\ ir' = [ir EXCEPT ![i] = next]
    /\ irWatch' = [irWatch EXCEPT ![i] = Append(@, next)]
    /\ irCache' = irCache

(* Equal but for the version.                                              *)
SameContents(a, b) ==
    a.live = b.live /\ a.owner = b.owner /\ a.uid = b.uid /\ a.names = b.names /\ a.sched = b.sched

LEMMA WriteObjectCases ==
  ASSUME TypeOK, NEW k \in Slots, NEW new \in OwnedObject, WriteObject(k, new)
  PROVE  \/ UNCHANGED objVars /\ obj[k] = new
         \/ \E next \in OwnedObject : StoredObject(k, next) /\ SameContents(next, new)
<1> DEFINE next == NextVersion(obj[k], new)
<1>1. obj[k] \in OwnedObject /\ obj \in [Slots -> OwnedObject]
  BY DEF TypeOK
<1>2. next \in OwnedObject /\ SameContents(next, new)
  BY <1>1, NextObjectType DEF NextVersion, OwnedObject, SameContents
<1>3. next = obj[k] => new = obj[k]
  BY <1>1 DEF NextVersion, OwnedObject
<1>4. /\ obj' = [obj EXCEPT ![k] = next] /\ objCache' = objCache
      /\ objWatch' = IF next = obj[k] THEN objWatch
                     ELSE [objWatch EXCEPT ![k] = Append(@, next)]
  BY DEF WriteObject
<1>5. next # obj[k] => next.rv = obj[k].rv + 1
  BY <1>1 DEF NextVersion, OwnedObject
<1> HIDE DEF next
<1>6. CASE next = obj[k]
  BY <1>1, <1>3, <1>4, <1>6 DEF objVars
<1>7. CASE next # obj[k]
  BY <1>2, <1>4, <1>5, <1>7 DEF StoredObject
<1> QED BY <1>6, <1>7

LEMMA WriteIRCases ==
  ASSUME TypeOK, NEW i \in IRs, NEW new \in CronIRObject, WriteIR(i, new)
  PROVE  UNCHANGED irVars \/ \E next \in CronIRObject : StoredIR(i, next)
<1> DEFINE next == NextVersion(ir[i], new)
<1>1. ir \in [IRs -> CronIRObject] /\ next \in CronIRObject
  BY NextCronIRType DEF TypeOK
<1>2. /\ ir' = [ir EXCEPT ![i] = next] /\ irCache' = irCache
      /\ irWatch' = IF next = ir[i] THEN irWatch
                    ELSE [irWatch EXCEPT ![i] = Append(@, next)]
  BY DEF WriteIR
<1>3. next # ir[i] => next.rv = ir[i].rv + 1
  BY <1>1 DEF NextVersion, CronIRObject
<1> HIDE DEF next
<1>4. CASE next = ir[i]
  BY <1>1, <1>2, <1>4 DEF irVars
<1>5. CASE next # ir[i]
  BY <1>1, <1>2, <1>3, <1>5 DEF StoredIR
<1> QED BY <1>4, <1>5

(* What may become of the owned objects in a step: a version with the      *)
(* right owner is stored, only an object that is there is removed, a       *)
(* version arrives, or the operator starts again.                          *)
ObjectsStep ==
    \/ UNCHANGED objVars
    \/ \E k \in Slots, next \in OwnedObject :
          StoredObject(k, next) /\ OwnedAt(k, next) /\ (next.live \/ obj[k].live)
    \/ \E k \in Slots : DeliverObject(k)
    \/ Restarts

IRsStep ==
    \/ UNCHANGED irVars
    \/ \E i \in IRs, next \in CronIRObject : StoredIR(i, next)
    \/ \E i \in IRs : DeliverIR(i)
    \/ Restarts

LEMMA ObjectsStepKeeps ==
  ASSUME TypeOK, SlotsInv, ObjectsStep
  PROVE  SlotsInv'
<1>0. /\ obj \in [Slots -> OwnedObject] /\ objCache \in [Slots -> OwnedObject]
      /\ objWatch \in [Slots -> Seq(OwnedObject)]
  BY DEF TypeOK
<1> SUFFICES ASSUME NEW x \in Slots
             PROVE  SlotInv(x, obj'[x], objWatch'[x], objCache'[x])
  BY DEF SlotsInv
<1>1. SlotInv(x, obj[x], objWatch[x], objCache[x]) /\ objWatch[x] \in Seq(OwnedObject)
  BY <1>0 DEF SlotsInv
<1>2. CASE UNCHANGED objVars
  BY <1>1, <1>2 DEF objVars
<1>3. ASSUME NEW k \in Slots, NEW next \in OwnedObject, StoredObject(k, next),
             OwnedAt(k, next), next.live \/ obj[k].live
      PROVE  SlotInv(x, obj'[x], objWatch'[x], objCache'[x])
  <2>1. CASE x = k
    <3>1. obj'[x] = next /\ objWatch'[x] = Append(objWatch[x], next) /\ objCache'[x] = objCache[x]
      BY <1>0, <1>3, <2>1 DEF StoredObject
    <3>2. SlotInv(x, next, Append(objWatch[x], next), objCache[x])
      BY <1>1, <1>3, <2>1, SlotAppend
    <3> QED BY <3>1, <3>2
  <2>2. CASE x # k
    <3>1. obj'[x] = obj[x] /\ objWatch'[x] = objWatch[x] /\ objCache'[x] = objCache[x]
      BY <1>0, <1>3, <2>2 DEF StoredObject
    <3> QED BY <1>1, <3>1
  <2> QED BY <2>1, <2>2
<1>4. ASSUME NEW k \in Slots, DeliverObject(k)
      PROVE  SlotInv(x, obj'[x], objWatch'[x], objCache'[x])
  <2>1. CASE x = k
    <3>1. /\ obj'[x] = obj[x] /\ objWatch'[x] = Tail(objWatch[x])
          /\ objCache'[x] = Head(objWatch[x]) /\ objWatch[x] # <<>>
      BY <1>0, <1>4, <2>1 DEF DeliverObject
    <3>2. SlotInv(x, obj[x], Tail(objWatch[x]), Head(objWatch[x]))
      BY <1>1, <3>1, SlotDelivered
    <3> QED BY <3>1, <3>2
  <2>2. CASE x # k
    <3>1. obj'[x] = obj[x] /\ objWatch'[x] = objWatch[x] /\ objCache'[x] = objCache[x]
      BY <1>0, <1>4, <2>2 DEF DeliverObject
    <3> QED BY <1>1, <3>1
  <2> QED BY <2>1, <2>2
<1>5. CASE Restarts
  <2>1. obj'[x] = obj[x] /\ objWatch'[x] = <<>> /\ objCache'[x] = obj[x]
    BY <1>5 DEF Restarts
  <2>2. SlotInv(x, obj[x], <<>>, obj[x])
    BY <1>1, SlotListed DEF SlotInv
  <2> QED BY <2>1, <2>2
<1> QED BY <1>2, <1>3, <1>4, <1>5 DEF ObjectsStep

LEMMA IRsStepKeeps ==
  ASSUME TypeOK, IRWatchInv, IRsStep
  PROVE  IRWatchInv'
<1>0. /\ ir \in [IRs -> CronIRObject] /\ irCache \in [IRs -> CronIRObject]
      /\ irWatch \in [IRs -> Seq(CronIRObject)]
  BY DEF TypeOK
<1> SUFFICES ASSUME NEW x \in IRs
             PROVE  LastVersion(irWatch'[x], irCache'[x]) = ir'[x]
  BY DEF IRWatchInv, LastVersion
<1>1. LastVersion(irWatch[x], irCache[x]) = ir[x] /\ irWatch[x] \in Seq(CronIRObject)
  BY <1>0 DEF IRWatchInv
<1>2. CASE UNCHANGED irVars
  BY <1>1, <1>2 DEF irVars
<1>3. ASSUME NEW i \in IRs, NEW next \in CronIRObject, StoredIR(i, next)
      PROVE  LastVersion(irWatch'[x], irCache'[x]) = ir'[x]
  <2>1. CASE x = i
    <3>1. ir'[x] = next /\ irWatch'[x] = Append(irWatch[x], next)
      BY <1>0, <1>3, <2>1 DEF StoredIR
    <3>2. /\ Append(irWatch[x], next) # <<>>
          /\ Append(irWatch[x], next)[Len(Append(irWatch[x], next))] = next
      BY <1>1, <1>3
    <3> QED BY <3>1, <3>2 DEF LastVersion
  <2>2. CASE x # i
    BY <1>0, <1>1, <1>3, <2>2 DEF StoredIR
  <2> QED BY <2>1, <2>2
<1>4. ASSUME NEW i \in IRs, DeliverIR(i)
      PROVE  LastVersion(irWatch'[x], irCache'[x]) = ir'[x]
  <2>1. CASE x = i
    <3>1. /\ ir'[x] = ir[x] /\ irWatch'[x] = Tail(irWatch[x])
          /\ irCache'[x] = Head(irWatch[x]) /\ irWatch[x] # <<>>
      BY <1>0, <1>4, <2>1 DEF DeliverIR
    <3> DEFINE w == Tail(irWatch[x])
    <3>2. /\ w \in Seq(CronIRObject) /\ Len(w) = Len(irWatch[x]) - 1
          /\ Len(irWatch[x]) \in Nat \ {0}
          /\ \A n \in 1 .. Len(w) : w[n] = irWatch[x][n + 1]
      BY <1>1, <3>1, HeadTailProperties, EmptySeq
    <3>3. Head(irWatch[x]) = irWatch[x][1]
      OBVIOUS
    <3> HIDE DEF w
    <3>4. CASE w = <<>>
      <4>1. Len(w) = 0
        BY <3>4, EmptySeq
      <4>2. Len(irWatch[x]) = 1
        BY <3>2, <4>1
      <4> QED BY <1>1, <3>1, <3>3, <3>4, <4>2 DEF LastVersion, w
    <3>5. CASE w # <<>>
      <4>1. Len(w) \in 1 .. Len(w) /\ Len(w) + 1 = Len(irWatch[x])
        BY <3>2, <3>5, EmptySeq
      <4>2. w[Len(w)] = irWatch[x][Len(irWatch[x])]
        BY <3>2, <4>1
      <4> QED BY <1>1, <3>1, <3>5, <4>2 DEF LastVersion, w
    <3> QED BY <3>4, <3>5
  <2>2. CASE x # i
    BY <1>0, <1>1, <1>4, <2>2 DEF DeliverIR
  <2> QED BY <2>1, <2>2
<1>5. CASE Restarts
  BY <1>5 DEF Restarts, LastVersion
<1> QED BY <1>2, <1>3, <1>4, <1>5 DEF IRsStep

-----------------------------------------------------------------------------
(* Every step is one of these.                                             *)

LEMMA NoObjectOwned == \A k : ~NoObject.live /\ OwnedAt(k, NoObject)
  BY DEF NoObject, OwnedAt

LEMMA WriteObjectStep ==
  ASSUME TypeOK, NEW k \in Slots, NEW new \in OwnedObject, WriteObject(k, new),
         OwnedAt(k, new), new.live \/ obj[k].live
  PROVE  ObjectsStep
<1>1. ASSUME NEW next \in OwnedObject, StoredObject(k, next), SameContents(next, new)
      PROVE  ObjectsStep
  BY <1>1 DEF ObjectsStep, OwnedAt, SameContents
<1> QED BY <1>1, WriteObjectCases DEF ObjectsStep

(* What the operator writes.                                               *)
LEMMA WorkerWrites ==
  ASSUME CacheInv, wk.call # "Free", wk.part \in Parts
  PROVE  /\ NewObject \in OwnedObject /\ NewObject.live /\ OwnedAt(Slot, NewObject)
         /\ wk.call = "Update" =>
               SetValues(wk.obj) \in OwnedObject /\ SetValues(wk.obj).live /\ OwnedAt(Slot, SetValues(wk.obj))
<1>1. WorkerTyped(wk) /\ wk.key \in IRs /\ wk.obj \in OwnedObject
  BY TypeParts DEF CacheInv, WorkerTyped, Worker
<1>2. Slot[2] = wk.part /\ Slot = ToDNSName(wk.key, wk.part)
  BY <1>1, SlotType DEF Slot
<1>3. NewObject \in OwnedObject /\ NewObject.live /\ NewObject.owner = wk.key
  BY <1>1, NewObjectType
<1>4. OwnedAt(Slot, NewObject)
  BY <1>1, <1>2, <1>3 DEF OwnedAt
<1>5. /\ SetValues(wk.obj) \in OwnedObject /\ SetValues(wk.obj).live = wk.obj.live
      /\ SetValues(wk.obj).owner = wk.obj.owner
  BY <1>1, SetValuesType
<1>6. wk.call = "Update" => SetValues(wk.obj).live /\ OwnedAt(Slot, SetValues(wk.obj))
  BY <1>5 DEF CacheInv, WorkerInv, OwnedAt
<1> QED BY <1>3, <1>4, <1>5, <1>6

LEMMA EveryObjectsStep ==
  ASSUME CacheInv, [Next]_vars
  PROVE  ObjectsStep
<1>0. TypeOK /\ SlotsInv /\ NoObject \in OwnedObject
  BY NullTypes DEF CacheInv
<1>1. CASE WorkerStep
  <2>1. CASE Create \/ Update \/ Delete
    <3>1. wk.call # "Free" /\ wk.key \in IRs /\ wk.part \in Parts /\ Slot \in Slots
      BY <1>0, <2>1, SlotType DEF Create, Update, Delete, TypeOK, Slot
    <3>2. CASE UNCHANGED objVars
      BY <3>2 DEF ObjectsStep
    <3>3. CASE Create /\ WriteObject(Slot, NewObject)
      BY <1>0, <3>1, <3>3, WorkerWrites, WriteObjectStep
    <3>4. CASE Update /\ WriteObject(Slot, SetValues(wk.obj))
      <4>1. wk.call = "Update"
        BY <3>4 DEF Update
      <4> QED BY <1>0, <3>1, <3>4, <4>1, WorkerWrites, WriteObjectStep
    <3>5. CASE obj[Slot].live /\ WriteObject(Slot, NoObject)
      BY <1>0, <3>1, <3>5, NoObjectOwned, WriteObjectStep
    <3> QED BY <2>1, <3>2, <3>3, <3>4, <3>5 DEF Create, Update, Delete
  <2>2. CASE ~(Create \/ Update \/ Delete)
    <3>1. UNCHANGED objVars
      BY <1>1, <2>2 DEF WorkerStep, GetIdlingResource, AddFinalizer, Get, ReconcileWithIdler,
                        ReturnOk, ReturnRequeueAfter, ReturnErr
    <3> QED BY <3>1 DEF ObjectsStep
  <2> QED BY <2>1, <2>2
<1>2. CASE \E i \in IRs : Take(i) \/ TimerFires(i) \/ PollFires(i) \/ DeliverIR(i)
  <2>1. UNCHANGED objVars
    BY <1>2 DEF Take, TimerFires, PollFires, DeliverIR
  <2> QED BY <2>1 DEF ObjectsStep
<1>3. CASE \E k \in Slots : DeliverObject(k)
  BY <1>3 DEF ObjectsStep
<1>4. ASSUME NEW k \in Slots, CollectGarbage(k)
      PROVE  ObjectsStep
  BY <1>0, <1>4, NoObjectOwned, WriteObjectStep DEF CollectGarbage, Orphan
<1>5. CASE CrashRestart \/ Panic
  BY <1>5 DEF CrashRestart, Panic, ObjectsStep
<1>6. CASE Fault
  BY <1>6 DEF Fault, ObjectsStep
<1>7. CASE Environment
  <2>1. CASE Resync
    BY <2>1 DEF Resync, ObjectsStep
  <2>2. ASSUME NEW i \in IRs,
               CreateIR(i) \/ DeleteIR(i) \/ \E c \in Strategies : EditStrategy(i, c)
        PROVE  ObjectsStep
    BY <1>0, <2>2, UserWritesOfIR DEF UserWritesIR, ObjectsStep
  <2>3. ASSUME NEW k \in Slots, DeleteObject(k) \/ EditRole(k) \/ EditJob(k) \/ TouchJob(k)
        PROVE  ObjectsStep
    <3>1. obj[k].live /\ OwnedAt(k, obj[k])
      BY <1>0, <2>3, UserWritesOfObject DEF SlotsInv, SlotInv
    <3>2. PICK name \in Writes, new \in OwnedObject :
             /\ UserWritesObject(name, k, new)
             /\ \/ new = NoObject
                \/ new.live /\ new.owner = obj[k].owner /\ new.uid = obj[k].uid
      BY <1>0, <2>3, UserWritesOfObject
    <3>3. OwnedAt(k, new)
      BY <3>1, <3>2, NoObjectOwned DEF OwnedAt
    <3> QED BY <1>0, <3>1, <3>2, <3>3, WriteObjectStep DEF UserWritesObject
  <2> QED BY <1>7, <2>1, <2>2, <2>3 DEF Environment
<1>8. CASE UNCHANGED vars
  BY <1>8 DEF vars, ObjectsStep
<1> QED BY <1>1, <1>2, <1>3, <1>4, <1>5, <1>6, <1>7, <1>8 DEF Next

LEMMA EveryIRsStep ==
  ASSUME CacheInv, [Next]_vars
  PROVE  IRsStep
<1>0. TypeOK /\ NoCronIR \in CronIRObject
  BY NullTypes DEF CacheInv
<1>1. ASSUME NEW i \in IRs, NEW new \in CronIRObject, WriteIR(i, new)
      PROVE  IRsStep
  BY <1>0, <1>1, WriteIRCases DEF IRsStep
<1>2. CASE AddFinalizer \/ ReconcileWithIdler
  <2>1. wk.key \in IRs /\ wk.ir \in CronIRObject
    BY <1>0, <1>2 DEF AddFinalizer, ReconcileWithIdler, TypeOK, Worker
  <2>2. ir[wk.key] \in CronIRObject
    BY <1>0, <2>1 DEF TypeOK
  <2>3. [wk.ir EXCEPT !.fin = TRUE] \in CronIRObject /\ RemovedIR(wk.key) \in CronIRObject
    BY <1>0, <2>1, <2>2 DEF CronIRObject, RemovedIR
  <2>4. \/ UNCHANGED irVars
        \/ WriteIR(wk.key, [wk.ir EXCEPT !.fin = TRUE]) \/ WriteIR(wk.key, RemovedIR(wk.key))
    BY <1>2 DEF AddFinalizer, ReconcileWithIdler
  <2> QED BY <1>1, <2>1, <2>3, <2>4 DEF IRsStep
<1>3. CASE WorkerStep /\ ~(AddFinalizer \/ ReconcileWithIdler)
  <2>1. UNCHANGED irVars
    BY <1>3 DEF WorkerStep, GetIdlingResource, Get, Create, Update, Delete, ReturnOk,
       ReturnRequeueAfter, ReturnErr
  <2> QED BY <2>1 DEF IRsStep
<1>4. CASE \E i \in IRs : Take(i) \/ TimerFires(i) \/ PollFires(i) \/ DeliverIR(i)
  BY <1>4 DEF Take, TimerFires, PollFires, IRsStep
<1>5. CASE \E k \in Slots : DeliverObject(k) \/ CollectGarbage(k)
  BY <1>5 DEF DeliverObject, CollectGarbage, IRsStep
<1>6. CASE CrashRestart \/ Panic
  BY <1>6 DEF CrashRestart, Panic, IRsStep
<1>7. CASE Fault
  BY <1>7 DEF Fault, IRsStep
<1>8. CASE Environment
  <2>1. CASE Resync
    BY <2>1 DEF Resync, IRsStep
  <2>2. ASSUME NEW i \in IRs,
               CreateIR(i) \/ DeleteIR(i) \/ \E c \in Strategies : EditStrategy(i, c)
        PROVE  IRsStep
    BY <1>0, <1>1, <2>2, UserWritesOfIR DEF UserWritesIR
  <2>3. ASSUME NEW k \in Slots, DeleteObject(k) \/ EditRole(k) \/ EditJob(k) \/ TouchJob(k)
        PROVE  IRsStep
    BY <1>0, <2>3, UserWritesOfObject DEF UserWritesObject, IRsStep
  <2> QED BY <1>8, <2>1, <2>2, <2>3 DEF Environment
<1>9. CASE UNCHANGED vars
  BY <1>9 DEF vars, IRsStep
<1> QED BY <1>2, <1>3, <1>4, <1>5, <1>6, <1>7, <1>8, <1>9 DEF Next

(* After a part the worker gets the next one, or is done with all five.    *)
LEMMA AfterPartCalls ==
  ASSUME wk.part \in Parts
  PROVE  /\ AfterPart.key = wk.key
         /\ AfterPart.call = "Get" \/ AfterPart.call = "ReconcileWithIdler"
         /\ wk.part = "sa" => AfterPart.call = "Get" /\ AfterPart.part = "role"
         /\ wk.part = "role" => AfterPart.call = "Get" /\ AfterPart.part = "rb"
         /\ wk.part = "rb" => AfterPart.call = "Get" /\ AfterPart.part = "idle"
         /\ wk.part = "idle" => AfterPart.call = "Get" /\ AfterPart.part = "wakeup"
         /\ AfterPart.ir = wk.ir
<1>1. \A p : /\ GetPart(p).key = wk.key /\ GetPart(p).ir = wk.ir
            /\ GetPart(p).call = "Get" /\ GetPart(p).part = p
  BY DEF GetPart, Jump, FreeWorker
<1>2. /\ Jump("ReconcileWithIdler", wk.ir).key = wk.key
      /\ Jump("ReconcileWithIdler", wk.ir).ir = wk.ir
      /\ Jump("ReconcileWithIdler", wk.ir).call = "ReconcileWithIdler"
  BY DEF Jump, FreeWorker
<1>3. /\ wk.part = "sa" => AfterPart = GetPart("role")
      /\ wk.part = "role" => AfterPart = GetPart("rb")
      /\ wk.part = "rb" => AfterPart = GetPart("idle")
      /\ wk.part = "idle" => AfterPart = GetPart("wakeup")
      /\ wk.part = "wakeup" => AfterPart = Jump("ReconcileWithIdler", wk.ir)
  BY DEF AfterPart
<1> QED BY <1>1, <1>2, <1>3, PartNames DEF Commands

(* A call that fails ends the reconciliation, unless it is a Get that was  *)
(* to find a CronJob to delete: the CronJob is left behind then.           *)
LEMMA FaultStep ==
  ASSUME Fault
  PROVE  /\ UNCHANGED <<irVars, objVars, queue, timers, polls>>
         /\ \/ /\ wk.call \notin {"Free", "Err"}
               /\ wk' = Jump("Err", NoCronIR) /\ left' = left
            \/ /\ wk.call = "Get" /\ wk.part \in Commands /\ wk.ir.want[wk.part] = None
               /\ wk' = AfterPart
               /\ left \subseteq left' /\ (obj[Slot].live => <<wk.key, wk.part>> \in left')
  BY DEF Fault, CallFails, GetFailsUnnoticed, Unwanted

(* It stays so until the worker looks for it again.                        *)
LEMMA LeftStep ==
  ASSUME [Next]_vars, NEW i, NEW c, <<i, c>> \in left
  PROVE  <<i, c>> \in left' \/ (Get /\ wk.key = i /\ wk.part = c)
<1>1. CASE left' = left
  BY <1>1
<1>2. CASE Get
  BY <1>2 DEF Get
<1>3. CASE Fault
  BY <1>3, FaultStep
<1> QED BY <1>1, <1>2, <1>3
     DEF Next, vars, WorkerStep, Environment, GetIdlingResource, AddFinalizer, Create, Update,
         Delete, ReconcileWithIdler, ReturnOk, ReturnRequeueAfter, ReturnErr, Take, TimerFires,
         PollFires, DeliverIR, DeliverObject, CollectGarbage, CrashRestart, Panic, Restarts,
         Resync, CreateIR, DeleteIR, EditStrategy, DeleteObject, EditRole, EditJob, TouchJob,
         UserWritesIR, UserWritesObject

(* Only a Get makes the worker update or delete an object.                 *)
LEMMA WorkerStepKeeps ==
  ASSUME CacheInv, [Next]_vars
  PROVE  WorkerInv'
<1>0. TypeOK /\ WorkerInv /\ SlotsInv /\ wk \in Worker
  BY DEF CacheInv, TypeOK
<1>1. CASE wk' = wk
  BY <1>0, <1>1 DEF WorkerInv, Slot
<1>2. CASE wk'.call \notin {"Create", "Update", "Delete"}
  BY <1>2 DEF WorkerInv
<1>3. ASSUME NEW call, NEW inst PROVE Jump(call, inst).call = call
  BY DEF Jump, FreeWorker
<1>4. CASE Get
  <2>1. wk.call = "Get" /\ wk.part \in Parts /\ wk.key \in IRs /\ wk' = AfterGet(objCache[Slot])
    BY <1>0, <1>4 DEF Get, TypeOK
  <2>2. Slot \in Slots
    BY <2>1, SlotType DEF Slot
  <2>3. OwnedAt(Slot, objCache[Slot])
    BY <1>0, <2>2 DEF SlotsInv, SlotInv
  <2>4. CASE wk' = AfterPart
    BY <1>2, <2>1, <2>4, AfterPartCalls
  <2>5. CASE wk' = [wk EXCEPT !.call = "Create"]
    <3>1. wk'.call = "Create" /\ wk'.part = wk.part /\ wk'.ir = wk.ir
      BY <1>0, <2>5 DEF Worker
    <3>2. wk.part \in Commands => wk.ir.want[wk.part] # None
      BY <2>1, <3>1, AfterPartCalls DEF AfterGet, Commands, cronJobNeedChanges
    <3> QED BY <3>1, <3>2 DEF WorkerInv
  <2>6. CASE wk' = [wk EXCEPT !.call = "Update", !.obj = objCache[Slot]] /\ objCache[Slot].live
    <3>1. /\ wk'.call = "Update" /\ wk'.obj = objCache[Slot]
          /\ wk'.key = wk.key /\ wk'.part = wk.part /\ wk'.ir = wk.ir
      BY <1>0, <2>6 DEF Worker
    <3>2. Slot' = Slot
      BY <3>1 DEF Slot
    <3>3. wk.part \in Commands => wk.ir.want[wk.part] # None
      BY <2>1, <3>1, AfterPartCalls DEF AfterGet, Commands, cronJobNeedChanges
    <3> QED BY <2>3, <2>6, <3>1, <3>2, <3>3 DEF WorkerInv, OwnedAt
  <2>7. CASE wk' = [wk EXCEPT !.call = "Delete"]
    <3>1. wk'.call = "Delete" /\ wk'.part = wk.part /\ wk'.ir = wk.ir
      BY <1>0, <2>7 DEF Worker
    <3>2. wk.part \in Commands /\ wk.ir.want[wk.part] = None
      BY <2>1, <3>1, AfterPartCalls, PartNames
         DEF AfterGet, Commands, cronJobNeedChanges
    <3> QED BY <3>1, <3>2 DEF WorkerInv
  <2> QED BY <1>0, <2>1, <2>4, <2>5, <2>6, <2>7, AfterGetCases, TypeParts
<1>5. CASE Create \/ Update \/ Delete
  <2>1. wk.part \in Parts
    BY <1>0, <1>5 DEF Create, Update, Delete, TypeOK
  <2>2. wk' = AfterPart \/ wk' = Jump("Err", NoCronIR)
    BY <1>5 DEF Create, Update, Delete
  <2> QED BY <1>2, <1>3, <2>1, <2>2, AfterPartCalls
<1>6. CASE AddFinalizer \/ GetIdlingResource \/ ReconcileWithIdler
  <2>1. \/ \E call \in {"AddFinalizer", "Ok", "RequeueAfter", "Err"} :
              \E inst : wk' = Jump(call, inst)
        \/ \E inst : wk' = [Jump("Get", inst) EXCEPT !.part = "sa"]
    BY <1>6 DEF AddFinalizer, GetIdlingResource, ReconcileWithIdler
  <2>2. \A inst : [Jump("Get", inst) EXCEPT !.part = "sa"].call = "Get"
    BY DEF Jump, FreeWorker
  <2> QED BY <1>2, <1>3, <2>1, <2>2
<1>7. CASE ReturnOk \/ ReturnRequeueAfter \/ ReturnErr \/ CrashRestart \/ Panic
  <2>1. wk' = FreeWorker
    BY <1>7 DEF ReturnOk, ReturnRequeueAfter, ReturnErr, CrashRestart, Panic, Restarts
  <2> QED BY <1>2, <2>1 DEF FreeWorker
<1>8. CASE \E i \in IRs : Take(i)
  <2>1. wk'.call = "GetIdlingResource"
    BY <1>8 DEF Take, FreeWorker
  <2> QED BY <1>2, <2>1
<1>9. CASE \E i \in IRs : TimerFires(i) \/ PollFires(i) \/ DeliverIR(i)
  BY <1>1, <1>9 DEF TimerFires, PollFires, DeliverIR
<1>10. CASE \E k \in Slots : DeliverObject(k) \/ CollectGarbage(k)
  BY <1>1, <1>10 DEF DeliverObject, CollectGarbage
<1>11. CASE Environment
  <2>1. wk' = wk
    BY <1>11 DEF Environment, Resync, CreateIR, DeleteIR, EditStrategy, DeleteObject,
                 EditRole, EditJob, TouchJob, UserWritesIR, UserWritesObject
  <2> QED BY <1>1, <2>1
<1>12. CASE UNCHANGED vars
  BY <1>1, <1>12 DEF vars
<1>13. CASE Fault
  <2>1. wk.part \in Commands => AfterPart.call \in {"Get", "ReconcileWithIdler"}
    BY AfterPartCalls, PartNames
  <2> QED BY <1>2, <1>3, <1>13, <2>1, FaultStep
<1> QED BY <1>4, <1>5, <1>6, <1>7, <1>8, <1>9, <1>10, <1>11, <1>12, <1>13
        DEF Next, WorkerStep

-----------------------------------------------------------------------------
(* What holds for names of any length.                                     *)

LEMMA CacheInit == Init => CacheInv
<1> SUFFICES ASSUME Init PROVE CacheInv
  OBVIOUS
<1>1. TypeOK
  BY TypedInit
<1>2. ASSUME NEW k \in Slots PROVE SlotInv(k, obj[k], objWatch[k], objCache[k])
  <2>1. obj[k] = NoObject /\ objWatch[k] = <<>> /\ objCache[k] = NoObject
    BY <1>2 DEF Init
  <2> QED BY <2>1, NoObjectOwned, SlotListed
<1>3. IRWatchInv
  BY DEF Init, IRWatchInv, LastVersion
<1>4. WorkerInv
  BY DEF Init, WorkerInv, FreeWorker
<1> QED BY <1>1, <1>2, <1>3, <1>4 DEF CacheInv, SlotsInv

LEMMA CacheStep == CacheInv /\ [Next]_vars => CacheInv'
<1> SUFFICES ASSUME CacheInv, [Next]_vars PROVE CacheInv'
  OBVIOUS
<1>1. TypeOK /\ SlotsInv /\ IRWatchInv
  BY DEF CacheInv
<1>2. TypeOK'
  BY <1>1, TypedStep
<1>3. SlotsInv'
  BY <1>1, EveryObjectsStep, ObjectsStepKeeps
<1>4. IRWatchInv'
  BY <1>1, EveryIRsStep, IRsStepKeeps
<1> QED BY <1>2, <1>3, <1>4, WorkerStepKeeps DEF CacheInv

-----------------------------------------------------------------------------
(* What holds for names that can be told apart.                            *)

(* An object with the name made for an IdlingResource is owned by it, or   *)
(* by one that had its name before.                                        *)
LEMMA OwnerApart ==
  ASSUME NEW i \in IRs, NameApart(i), NEW p \in Parts, NEW o,
         o.live, OwnedAt(ToDNSName(i, p), o)
  PROVE  o.owner = i
<1>1. o.owner \in IRs /\ ToDNSName(i, p) = ToDNSName(o.owner, p)
  BY SlotType DEF OwnedAt
<1> QED BY <1>1, ApartDistinct

LEMMA RBACSlot ==
  ASSUME NEW i \in IRs, NEW p \in RBACParts
  PROVE  p \in Parts \ Commands /\ ToDNSName(i, p) \in Slots /\ ToDNSName(i, p)[2] = p
  BY PartNames, SlotType DEF RBACParts, Commands

(* One that is there, and names it if it is a role, is settled: it is      *)
(* garbage if it has outlived its IdlingResource.                          *)
LEMMA PresentIsSettled ==
  ASSUME CacheInv, NEW i \in IRs, NameApart(i), NEW p \in RBACParts, ir[i].live,
         obj[ToDNSName(i, p)].live, p = "role" => obj[ToDNSName(i, p)].names = i
  PROVE  Settled(i, p)
<1> DEFINE o == obj[ToDNSName(i, p)]
<1>1. o.owner = i
  BY RBACSlot, OwnerApart DEF CacheInv, SlotsInv, SlotInv
<1>2. CASE o.uid = ir[i].uid
  BY <1>1, <1>2 DEF Settled, Owns
<1>3. CASE o.uid # ir[i].uid
  BY <1>1, <1>3, CronNoneAssumption DEF Settled, Orphan
<1> QED BY <1>2, <1>3

(* It stays settled as long as nothing is written.                         *)
LEMMA SettledKept ==
  ASSUME CacheInv, NEW i \in IRs, NameApart(i), NEW p \in RBACParts, Settled(i, p),
         ir'[i] = ir[i], obj'[ToDNSName(i, p)] = obj[ToDNSName(i, p)],
         objWatch'[ToDNSName(i, p)] = objWatch[ToDNSName(i, p)]
  PROVE  Settled(i, p)'
<1> DEFINE k == ToDNSName(i, p)
<1>1. CASE objWatch[k] # <<>>
  BY <1>1 DEF Settled
<1>2. CASE Orphan(obj[k])
  <2>1. obj[k].owner = i
    BY <1>2, RBACSlot, OwnerApart DEF CacheInv, SlotsInv, SlotInv, Orphan
  <2> QED BY <1>2, <2>1 DEF Settled, Orphan
<1>3. CASE Owns(i, p) /\ (p = "role" => obj[k].names = i)
  BY <1>3 DEF Settled, Owns
<1> QED BY <1>1, <1>2, <1>3 DEF Settled

(* A write makes an event, and an event about the object, of its removal   *)
(* too, queues the IdlingResource it is owned by.                          *)
LEMMA SettledStep ==
  ASSUME CacheInv, ObjectsStep, ~Restarts, NEW i \in IRs, NameApart(i), NEW p \in RBACParts,
         ir'[i] = ir[i], Settled(i, p)
  PROVE  Settled(i, p)' \/ i \in queue'
<1> DEFINE k == ToDNSName(i, p)
<1>0. /\ obj \in [Slots -> OwnedObject] /\ objCache \in [Slots -> OwnedObject]
      /\ objWatch \in [Slots -> Seq(OwnedObject)]
      /\ k \in Slots /\ k[2] \notin Commands /\ SlotInv(k, obj[k], objWatch[k], objCache[k])
  BY RBACSlot DEF CacheInv, TypeOK, SlotsInv
<1>1. CASE UNCHANGED objVars
  BY <1>1, SettledKept DEF objVars
<1>2. ASSUME NEW x \in Slots, NEW next \in OwnedObject, StoredObject(x, next)
      PROVE  Settled(i, p)'
  <2>1. CASE x = k
    <3>1. objWatch'[k] # <<>>
      <4>1. objWatch'[k] = Append(objWatch[k], next) /\ objWatch[k] \in Seq(OwnedObject)
        BY <1>0, <1>2, <2>1 DEF StoredObject
      <4> QED BY <1>2, <4>1
    <3> QED BY <3>1 DEF Settled
  <2>2. CASE x # k
    BY <1>0, <1>2, <2>2, SettledKept DEF StoredObject
  <2> QED BY <2>1, <2>2
<1>3. ASSUME NEW x \in Slots, DeliverObject(x)
      PROVE  Settled(i, p)' \/ i \in queue'
  <2>1. CASE x = k
    <3> DEFINE old == objCache[k]
               new == Head(objWatch[k])
    <3>1. objWatch[k] # <<>> /\ objWatch[k] \in Seq(OwnedObject)
      BY <1>0, <1>3, <2>1 DEF DeliverObject
    <3>2. SlotInv(k, obj[k], Tail(objWatch[k]), new) /\ (new.live \/ old.live)
      BY <1>0, <3>1, SlotDelivered
    <3>3. queue' = queue \cup OwnerOf(old) \cup OwnerOf(new)
      BY <1>0, <1>3, <2>1 DEF DeliverObject, PassesFilter
    <3>4. \A o : o.live /\ OwnedAt(k, o) => i \in OwnerOf(o)
      BY RBACSlot, OwnerApart, CronNoneAssumption DEF OwnerOf
    <3>5. OwnedAt(k, old) /\ OwnedAt(k, new)
      BY <1>0, <3>2 DEF SlotInv
    <3> QED BY <3>2, <3>3, <3>4, <3>5
  <2>2. CASE x # k
    BY <1>0, <1>3, <2>2, SettledKept DEF DeliverObject
  <2> QED BY <2>1, <2>2
<1> QED BY <1>1, <1>2, <1>3 DEF ObjectsStep

(* An IdlingResource that changes has an event on its way, and the event   *)
(* queues it.                                                              *)
LEMMA IRChanges ==
  ASSUME CacheInv, IRsStep, ~Restarts, NEW i \in IRs
  PROVE  /\ ir'[i] = ir[i] \/ irWatch'[i] # <<>>
         /\ irWatch[i] # <<>> => irWatch'[i] # <<>> \/ i \in queue'
<1>0. /\ ir \in [IRs -> CronIRObject] /\ irWatch \in [IRs -> Seq(CronIRObject)]
  BY DEF CacheInv, TypeOK
<1>1. CASE UNCHANGED irVars
  BY <1>1 DEF irVars
<1>2. ASSUME NEW j \in IRs, NEW next \in CronIRObject, StoredIR(j, next)
      PROVE  /\ ir'[i] = ir[i] \/ irWatch'[i] # <<>>
             /\ irWatch[i] # <<>> => irWatch'[i] # <<>>
  <2>1. CASE i = j
    <3>1. irWatch'[i] = Append(irWatch[i], next) /\ irWatch[i] \in Seq(CronIRObject)
      BY <1>0, <1>2, <2>1 DEF StoredIR
    <3>2. irWatch'[i] # <<>>
      BY <1>2, <3>1
    <3> QED BY <3>2
  <2>2. CASE i # j
    BY <1>0, <1>2, <2>2 DEF StoredIR
  <2> QED BY <2>1, <2>2
<1>3. ASSUME NEW j \in IRs, DeliverIR(j)
      PROVE  /\ ir'[i] = ir[i]
             /\ irWatch[i] # <<>> => irWatch'[i] # <<>> \/ i \in queue'
  BY <1>0, <1>3 DEF DeliverIR
<1> QED BY <1>1, <1>2, <1>3 DEF IRsStep

(* What is queued stays so until the worker takes it.                      *)
LEMMA QueueStep ==
  ASSUME [Next]_vars, ~Restarts, NEW i \in IRs, i \in queue \cup timers
  PROVE  i \in queue' \cup timers' \/ Take(i)
<1>1. CASE UNCHANGED <<queue, timers>>
  BY <1>1
<1>2. CASE \E j \in IRs : Take(j) \/ TimerFires(j) \/ PollFires(j) \/ DeliverIR(j)
  BY <1>2 DEF Take, TimerFires, PollFires, DeliverIR
<1>3. CASE ReturnErr \/ Resync \/ \E k \in Slots : DeliverObject(k)
  BY <1>3 DEF ReturnErr, Resync, DeliverObject
<1> QED BY <1>1, <1>2, <1>3
     DEF Next, vars, WorkerStep, Environment, GetIdlingResource, AddFinalizer, Get, Create,
         Update, Delete, ReconcileWithIdler, ReturnOk, ReturnRequeueAfter, CollectGarbage,
         CrashRestart, Panic, Fault, CreateIR, DeleteIR, EditStrategy, DeleteObject, EditRole,
         EditJob, TouchJob, UserWritesIR, UserWritesObject

(* The worker passes an RBAC object only when that is settled, and asks    *)
(* for another reconciliation when a call fails.                           *)
LEMMA GetPasses ==
  ASSUME CacheInv, Get, NEW i \in IRs, NameApart(i), wk.key = i, ir[i].live, NEW p \in Ahead
  PROVE  (p \in Ahead' /\ wk'.key = i) \/ Settled(i, p)'
<1> DEFINE o == objCache[Slot]
<1>1. /\ wk \in Worker /\ wk.key \in IRs /\ wk.part \in Parts /\ wk.call = "Get"
      /\ p \in RBACParts /\ UNCHANGED <<irVars, objVars>> /\ wk' = AfterGet(o)
  BY DEF Get, CacheInv, TypeOK, Ahead
<1>2. wk.part \in RBACParts /\ (wk.part = "sa" \/ wk.part = p \/ (wk.part = "role" /\ p = "rb"))
  BY <1>1 DEF Ahead, RBACParts
<1>3. ASSUME wk'.call \in {"Create", "Update"}, wk'.key = wk.key, wk'.part = wk.part
      PROVE  p \in Ahead' /\ wk'.key = i
  BY <1>1, <1>2, <1>3 DEF Ahead
<1>4. CASE wk' = [wk EXCEPT !.call = "Create"]
  BY <1>1, <1>3, <1>4 DEF Worker
<1>5. CASE wk' = [wk EXCEPT !.call = "Update", !.obj = o]
  BY <1>1, <1>3, <1>5 DEF Worker
<1>6. CASE wk' = AfterPart /\ wk.part # p
  BY <1>1, <1>2, <1>6, AfterPartCalls DEF Ahead, RBACParts
<1>7. CASE wk.part \in {"sa", "rb"} /\ o.live /\ wk.part = p
  <2>1. Slot = ToDNSName(i, p) /\ Slot \in Slots
    BY <1>1, <1>7, SlotType DEF Slot
  <2>2. CASE objWatch[Slot] # <<>>
    BY <1>1, <2>1, <2>2 DEF Settled, objVars
  <2>3. CASE objWatch[Slot] = <<>>
    <3>1. obj[Slot] = o
      BY <2>1, <2>3 DEF CacheInv, SlotsInv, SlotInv, LastVersion
    <3>2. Settled(i, p)
      BY <1>1, <1>7, <2>1, <3>1, PresentIsSettled
    <3> QED BY <1>1, <3>2, SettledKept DEF irVars, objVars
  <2> QED BY <2>2, <2>3
<1>8. \/ wk' = [wk EXCEPT !.call = "Create"] \/ wk' = [wk EXCEPT !.call = "Update", !.obj = o]
      \/ wk' = AfterPart /\ o.live /\ wk.part \in {"sa", "rb"}
  BY <1>1, <1>2 DEF AfterGet, RBACParts, Commands
<1> QED BY <1>4, <1>5, <1>6, <1>7, <1>8

LEMMA WritePasses ==
  ASSUME CacheInv, Create \/ Update, NEW i \in IRs, NameApart(i), wk.key = i, ir[i].live,
         NEW p \in Ahead
  PROVE  (p \in Ahead' /\ wk'.key = i) \/ Settled(i, p)'
<1>1. /\ wk.key \in IRs /\ wk.part \in Parts /\ wk.call \in {"Create", "Update"}
      /\ p \in RBACParts /\ WorkerTyped(wk)
  BY TypeParts DEF Create, Update, CacheInv, TypeOK, Ahead
<1>2. wk.part \in RBACParts /\ (wk.part = "sa" \/ wk.part = p \/ (wk.part = "role" /\ p = "rb"))
  BY <1>1 DEF Ahead, RBACParts
<1>3. Slot \in Slots /\ Slot = ToDNSName(i, wk.part)
  BY <1>1, SlotType DEF Slot
<1>4. CASE wk' = Jump("Err", NoCronIR)
  BY <1>1, <1>4 DEF Ahead, Jump, FreeWorker
<1>5. CASE wk' = AfterPart /\ wk.part # p
  BY <1>1, <1>2, <1>5, AfterPartCalls DEF Ahead, RBACParts
<1>6. ASSUME NEW new \in OwnedObject, WriteObject(Slot, new), wk.part = p, new.live,
             obj[Slot] = new => Settled(i, p), UNCHANGED irVars
      PROVE  Settled(i, p)'
  <2>1. CASE UNCHANGED objVars /\ obj[Slot] = new
    BY <1>1, <1>6, <2>1, SettledKept DEF irVars, objVars
  <2>2. ASSUME NEW next \in OwnedObject, StoredObject(Slot, next)
        PROVE  Settled(i, p)'
    <3>1. objWatch \in [Slots -> Seq(OwnedObject)]
      BY DEF CacheInv, TypeOK
    <3>2. objWatch'[Slot] = Append(objWatch[Slot], next) /\ objWatch[Slot] \in Seq(OwnedObject)
      BY <1>3, <2>2, <3>1 DEF StoredObject
    <3>3. objWatch'[Slot] # <<>>
      BY <2>2, <3>2
    <3> QED BY <1>3, <1>6, <3>3 DEF Settled
  <2> QED BY <1>3, <1>6, <2>1, <2>2, WriteObjectCases DEF CacheInv
<1>7. CASE /\ ~obj[Slot].live /\ WriteObject(Slot, NewObject)
           /\ UNCHANGED irVars /\ wk.part = p
  <2>1. NewObject \in OwnedObject /\ NewObject.live
    BY <1>1, NewObjectType
  <2> QED BY <1>6, <1>7, <2>1
<1>8. CASE /\ wk.call = "Update" /\ WriteObject(Slot, SetValues(wk.obj))
           /\ UNCHANGED irVars /\ wk.part = p
  <2>1. /\ SetValues(wk.obj) \in OwnedObject /\ SetValues(wk.obj).live
        /\ wk.part = "role" => SetValues(wk.obj).names = i
    BY <1>1, <1>8, WorkerWrites, SetValuesType DEF WorkerTyped, Worker
  <2>2. obj[Slot] = SetValues(wk.obj) => Settled(i, p)
    BY <1>1, <1>3, <1>8, <2>1, PresentIsSettled
  <2> QED BY <1>6, <1>8, <2>1, <2>2
<1> QED BY <1>4, <1>5, <1>7, <1>8 DEF Create, Update

LEMMA WorkerPasses ==
  ASSUME CacheInv, [Next]_vars, ~Restarts, NEW i \in IRs, NameApart(i), wk.key = i, ir[i].live,
         NEW p \in Ahead
  PROVE  \/ p \in Ahead' /\ wk'.key = i
         \/ Settled(i, p)' \/ i \in timers' \/ irWatch'[i] # <<>>
<1>1. /\ wk \in Worker /\ wk.call # "Free" /\ wk.key \in IRs /\ p \in RBACParts
      /\ wk.call \in {"GetIdlingResource", "AddFinalizer", "Err", "Get", "Create", "Update", "Delete"}
  BY DEF CacheInv, TypeOK, Ahead
<1>2. CASE wk' = wk
  BY <1>2 DEF Ahead
<1>3. CASE GetIdlingResource
  <2>1. CASE irCache[wk.key].live
    BY <1>1, <1>3, <2>1 DEF GetIdlingResource, Jump, FreeWorker, Ahead
  <2>2. CASE ~irCache[wk.key].live
    <3>1. irWatch[i] # <<>>
      BY <1>1, <2>2 DEF CacheInv, IRWatchInv, LastVersion
    <3> QED BY <1>3, <3>1 DEF GetIdlingResource, irVars
  <2> QED BY <2>1, <2>2
<1>4. CASE AddFinalizer \/ Fault
  <2>1. CASE AddFinalizer \/ wk' = Jump("Err", NoCronIR)
    BY <1>1, <2>1 DEF AddFinalizer, Jump, FreeWorker, Ahead
  <2>2. ~(wk.call = "Get" /\ wk.part \in Commands)
    BY <1>1 DEF Ahead, Commands, RBACParts
  <2> QED BY <1>4, <2>1, <2>2, FaultStep
<1>5. CASE Get
  BY <1>5, GetPasses
<1>6. CASE Create \/ Update
  BY <1>6, WritePasses
<1>7. CASE Delete
  BY <1>1, <1>7 DEF Delete, CacheInv, WorkerInv, Ahead, Commands, RBACParts
<1>8. CASE ReturnErr
  BY <1>8 DEF ReturnErr
<1>9. CASE \/ ReconcileWithIdler \/ ReturnOk \/ ReturnRequeueAfter
           \/ \E j \in IRs : Take(j)
           \/ CrashRestart \/ Panic
  BY <1>1, <1>9 DEF ReconcileWithIdler, ReturnOk, ReturnRequeueAfter, Take, CrashRestart, Panic
<1>10. CASE \/ \E j \in IRs : TimerFires(j) \/ PollFires(j) \/ DeliverIR(j)
            \/ \E k \in Slots : DeliverObject(k) \/ CollectGarbage(k)
            \/ Environment \/ UNCHANGED vars
  <2>1. wk' = wk
    BY <1>10 DEF TimerFires, PollFires, DeliverIR, DeliverObject, CollectGarbage, vars,
                 Environment, Resync, CreateIR, DeleteIR, EditStrategy, DeleteObject,
                 EditRole, EditJob, TouchJob, UserWritesIR, UserWritesObject
  <2> QED BY <1>2, <2>1
<1> QED BY <1>3, <1>4, <1>5, <1>6, <1>7, <1>8, <1>9, <1>10 DEF Next, WorkerStep

LEMMA RBACStep ==
  ASSUME CacheInv, RBACInv, [Next]_vars
  PROVE  RBACInv'
<1> SUFFICES ASSUME NEW i \in IRs, NameApart(i), ir'[i].live, NEW p \in RBACParts
             PROVE  Covered(i, p)'
  BY DEF RBACInv
<1>1. ObjectsStep /\ IRsStep
  BY EveryObjectsStep, EveryIRsStep
<1>2. CASE Restarts
  BY <1>2 DEF Restarts, Listed, Covered, Requested
<1>3. CASE ~Restarts
  <2>1. CASE ir'[i] # ir[i]
    BY <1>1, <1>3, <2>1, IRChanges DEF Covered, Requested
  <2>2. CASE ir'[i] = ir[i]
    <3>1. Covered(i, p)
      BY <2>2 DEF RBACInv
    <3>2. CASE Settled(i, p)
      BY <1>1, <1>3, <2>2, <3>2, SettledStep DEF Covered, Requested
    <3>3. CASE irWatch[i] # <<>>
      BY <1>1, <1>3, <3>3, IRChanges DEF Covered, Requested
    <3>4. CASE i \in queue \cup timers
      <4>1. CASE Take(i)
        BY <4>1 DEF Take, FreeWorker, Covered, Ahead
      <4> QED BY <1>3, <3>4, <4>1, QueueStep DEF Covered, Requested
    <3>5. CASE wk.key = i /\ p \in Ahead
      BY <1>3, <2>2, <3>5, WorkerPasses DEF Covered, Requested
    <3> QED BY <3>1, <3>2, <3>3, <3>4, <3>5 DEF Covered, Requested
  <2> QED BY <2>1, <2>2
<1> QED BY <1>2, <1>3

LEMMA RBACInvariance == Spec => [](CacheInv /\ RBACInv)
<1>1. Init => CacheInv /\ RBACInv
  BY CacheInit DEF Init, RBACInv, Covered, Requested
<1>2. CacheInv /\ RBACInv /\ [Next]_vars => CacheInv' /\ RBACInv'
  BY CacheStep, RBACStep
<1> QED BY <1>1, <1>2, PTL DEF Spec

LEMMA CoveredAtRest ==
  ASSUME RBACInv, AtRest, NEW i \in IRs, NameApart(i)
  PROVE  HasRBAC(i)
<1> SUFFICES ASSUME ir[i].live
             PROVE  /\ \A p \in RBACParts : Owns(i, p)
                    /\ obj[ToDNSName(i, "role")].names = i
  BY DEF HasRBAC, RBACParts
<1>1. Ahead = {} /\ ~Requested(i)
  BY DEF AtRest, Ahead, Requested
<1>2. \A p \in RBACParts : Settled(i, p)
  BY <1>1 DEF RBACInv, Covered
<1>3. \A p \in RBACParts : Owns(i, p) /\ (p = "role" => obj[ToDNSName(i, p)].names = i)
  BY <1>2, RBACSlot DEF Settled, AtRest
<1> QED BY <1>3 DEF RBACParts

(* At rest an IdlingResource whose name is apart from the others' has its  *)
(* own service account, its own role, which names it, and its own role     *)
(* binding, whatever users did to them, however often the operator failed  *)
(* or was restarted, and whichever of the others share theirs.             *)
THEOREM RBACOfApart ==
  ASSUME NEW i \in IRs, NameApart(i)
  PROVE  Spec => [](AtRest => HasRBAC(i))
<1>1. CacheInv /\ RBACInv => (AtRest => HasRBAC(i))
  BY CoveredAtRest
<1> QED BY <1>1, RBACInvariance, PTL

(* So has each of them, if the names of all are apart.                     *)
THEOREM RBACHolds ==
  ASSUME \A i \in IRs : NameApart(i)
  PROVE  Spec => []RBACAtRest
<1>1. CacheInv /\ RBACInv => RBACAtRest
  BY CoveredAtRest DEF RBACAtRest
<1> QED BY <1>1, RBACInvariance, PTL

-----------------------------------------------------------------------------
(* The CronJobs.  An update of one makes no event that queues anything, so *)
(* it has to be right as stored, and nobody else may edit it.              *)

JobSettled(i, c) ==
    LET o == obj[ToDNSName(i, c)]
    IN  IF ir[i].want[c] = None THEN ~o.live \/ <<i, c>> \in left
        ELSE Owns(i, c) /\ o.names = i /\ o.sched = ir[i].want[c]

(* Its creation or its removal is still to be seen.                        *)
EventAhead(k) ==
    objWatch[k] # <<>> /\ (objCache[k].live => \E n \in DOMAIN objWatch[k] : ~objWatch[k][n].live)

JobSafe(i, c) ==
    LET k == ToDNSName(i, c) IN JobSettled(i, c) \/ EventAhead(k) \/ Orphan(obj[k])

(* The CronJobs the worker will still look at, this time or the next.      *)
JobsAhead ==
    {c \in Commands :
        \/ wk.call \in {"GetIdlingResource", "AddFinalizer", "Err"}
        \/ /\ wk.call \in {"Get", "Create", "Update", "Delete"}
           /\ \/ wk.part \in RBACParts \/ wk.part = c
              \/ wk.part = "idle" /\ c = "wakeup"}

(* The worker has the last version in hand, or will look again.            *)
CopyInv ==
    wk.call \in {"AddFinalizer", "Get", "Create", "Update", "Delete", "ReconcileWithIdler"} =>
        wk.ir = ir[wk.key] \/ Requested(wk.key)

JobsInv ==
    \A i \in IRs : NameApart(i) /\ ir[i].live => \A c \in Commands :
        JobSafe(i, c) \/ Requested(i) \/ (wk.key = i /\ c \in JobsAhead)

KeptAt(k) ==
    obj'[k] = obj[k] /\ objWatch'[k] = objWatch[k] /\ objCache'[k] = objCache[k]

LEMMA WriteElsewhere ==
  ASSUME TypeOK, NEW x \in Slots, NEW k \in Slots, x # k, NEW new \in OwnedObject,
         WriteObject(x, new)
  PROVE  KeptAt(k)
<1>1. /\ obj \in [Slots -> OwnedObject] /\ objWatch \in [Slots -> Seq(OwnedObject)]
  BY DEF TypeOK
<1> QED BY <1>1, WriteObjectCases DEF KeptAt, StoredObject, objVars

LEMMA JobSlot ==
  ASSUME NEW i \in IRs, NEW c \in Commands
  PROVE  c \in Parts \ RBACParts /\ ToDNSName(i, c) \in Slots /\ ToDNSName(i, c)[2] = c
  BY PartNames, SlotType DEF RBACParts, Commands

(* What may become of a CronJob in a step: others remove it or touch it,   *)
(* an event about it arrives, or the worker writes what it thinks is asked *)
(* for.                                                                    *)
JobStep(i, c) ==
    LET k == ToDNSName(i, c) IN
    \/ KeptAt(k)
    \/ \E next \in OwnedObject :
          StoredObject(k, next) /\ (~next.live \/ SameContents(next, obj[k]))
    \/ DeliverObject(k)
    \/ /\ Create \/ Update
       /\ wk.key = i /\ wk.part = c
       /\ obj'[k].live /\ obj'[k].names = i /\ obj'[k].sched = wk.ir.want[c]

LEMMA WriteJobStep ==
  ASSUME TypeOK, NEW i \in IRs, NEW c \in Commands, NEW x \in Slots, NEW new \in OwnedObject,
         WriteObject(x, new), ~new.live \/ SameContents(new, obj[x])
  PROVE  JobStep(i, c)
<1>1. CASE x = ToDNSName(i, c)
  BY <1>1, WriteObjectCases DEF JobStep, KeptAt, SameContents, objVars
<1>2. CASE x # ToDNSName(i, c)
  BY <1>2, JobSlot, WriteElsewhere DEF JobStep
<1> QED BY <1>1, <1>2

LEMMA WorkerJobStep ==
  ASSUME CacheInv, Create \/ Update \/ Delete, NEW i \in IRs, NameApart(i), NEW c \in Commands
  PROVE  JobStep(i, c)
<1> DEFINE k == ToDNSName(i, c)
<1>1. /\ wk.key \in IRs /\ wk.part \in Parts /\ WorkerTyped(wk) /\ wk.call # "Free"
      /\ wk.obj \in OwnedObject /\ obj \in [Slots -> OwnedObject] /\ NoObject \in OwnedObject
  BY TypeParts, NullTypes DEF Create, Update, Delete, CacheInv, TypeOK, Worker
<1>2. Slot \in Slots /\ Slot = ToDNSName(wk.key, wk.part) /\ k \in Slots /\ c \in Parts /\ TypeOK
  BY <1>1, SlotType, JobSlot DEF Slot, CacheInv
<1>3. CASE UNCHANGED objVars
  BY <1>3 DEF JobStep, KeptAt, objVars
<1>4. CASE WriteObject(Slot, NoObject)
  BY <1>2, <1>1, <1>4, NoObjectOwned, WriteJobStep
<1>5. ASSUME Create \/ Update, NEW new \in OwnedObject, WriteObject(Slot, new), new.live,
             wk.part \in Commands => new.names = wk.key /\ new.sched = wk.ir.want[wk.part]
      PROVE  JobStep(i, c)
  <2>1. CASE Slot # k
    BY <1>2, <1>5, <2>1, WriteElsewhere DEF JobStep
  <2>2. CASE Slot = k
    <3>1. wk.key = i /\ wk.part = c
      <4>1. ToDNSName(i, c) = ToDNSName(wk.key, wk.part)
        BY <1>2, <2>2
      <4> QED BY <1>1, <1>2, <4>1, ApartDistinct
    <3>2. SameContents(obj'[k], new)
      <4>1. CASE UNCHANGED objVars /\ obj[k] = new
        BY <4>1 DEF SameContents, objVars
      <4>2. ASSUME NEW next \in OwnedObject, StoredObject(k, next), SameContents(next, new)
            PROVE  SameContents(obj'[k], new)
        BY <1>1, <1>2, <4>2 DEF StoredObject
      <4>3. WriteObject(k, new)
        BY <1>5, <2>2
      <4> QED BY <1>2, <1>5, <4>1, <4>2, <4>3, WriteObjectCases
    <3> QED BY <1>5, <3>1, <3>2 DEF JobStep, SameContents
  <2> QED BY <2>1, <2>2
<1>6. CASE Create /\ WriteObject(Slot, NewObject)
  BY <1>1, <1>5, <1>6, NewObjectType
<1>7. CASE Update /\ WriteObject(Slot, SetValues(wk.obj))
  <2>1. SetValues(wk.obj).live /\ SetValues(wk.obj) \in OwnedObject
    BY <1>1, <1>7, WorkerWrites DEF Update
  <2> QED BY <1>1, <1>5, <1>7, <2>1, SetValuesType
<1> QED BY <1>3, <1>4, <1>6, <1>7 DEF Create, Update, Delete

LEMMA EveryJobStep ==
  ASSUME CacheInv, [Next]_vars, ~Restarts, "EditJob" \notin Writes,
         NEW i \in IRs, NameApart(i), NEW c \in Commands
  PROVE  JobStep(i, c)
<1> DEFINE k == ToDNSName(i, c)
<1>0. TypeOK /\ k \in Slots /\ k[2] = c /\ c # "role" /\ NoObject \in OwnedObject
  BY JobSlot, NullTypes DEF CacheInv, RBACParts
<1>1. CASE UNCHANGED objVars
  BY <1>1 DEF JobStep, KeptAt, objVars
<1>2. CASE Create \/ Update \/ Delete
  BY <1>2, WorkerJobStep
<1>3. ASSUME NEW x \in Slots, DeliverObject(x)
      PROVE  JobStep(i, c)
  <2>1. CASE x # k
    <3>1. KeptAt(k)
      BY <1>0, <1>3, <2>1 DEF DeliverObject, KeptAt, TypeOK
    <3> QED BY <3>1 DEF JobStep
  <2> QED BY <1>3, <2>1 DEF JobStep
<1>4. ASSUME NEW x \in Slots, WriteObject(x, NoObject)
      PROVE  JobStep(i, c)
  BY <1>0, <1>4, NoObjectOwned, WriteJobStep
<1>5. ASSUME NEW x \in Slots, TouchJob(x)
      PROVE  JobStep(i, c)
  <2> DEFINE new == [obj[x] EXCEPT !.rv = @ + 1]
  <2>0. obj[x] \in OwnedObject
    BY <1>0 DEF TypeOK
  <2>1. new \in OwnedObject /\ SameContents(new, obj[x])
    BY <2>0 DEF OwnedObject, SameContents
  <2>2. WriteObject(x, new)
    BY <1>5 DEF TouchJob, UserWritesObject
  <2> HIDE DEF new
  <2> QED BY <1>0, <2>1, <2>2, WriteJobStep
<1>6. ASSUME NEW x \in Slots, EditRole(x)
      PROVE  JobStep(i, c)
  <2>1. x # k
    BY <1>0, <1>6 DEF EditRole
  <2>2. \A n \in {None, NoRules} : [obj[x] EXCEPT !.names = n] \in OwnedObject
    BY <1>0 DEF TypeOK, OwnedObject
  <2>3. \E n \in {None, NoRules} : WriteObject(x, [obj[x] EXCEPT !.names = n])
    BY <1>6 DEF EditRole, UserWritesObject
  <2>4. KeptAt(k)
    BY <1>0, <2>1, <2>2, <2>3, WriteElsewhere
  <2> QED BY <2>4 DEF JobStep
<1>7. CASE Environment
  BY <1>1, <1>4, <1>5, <1>6, <1>7
     DEF Environment, Resync, CreateIR, DeleteIR, EditStrategy, DeleteObject, EditJob,
         UserWritesIR, UserWritesObject
<1> QED BY <1>1, <1>2, <1>3, <1>4, <1>7
     DEF Next, vars, WorkerStep, GetIdlingResource, AddFinalizer, Get, ReconcileWithIdler,
         ReturnOk, ReturnRequeueAfter, ReturnErr, Take, TimerFires, PollFires, DeliverIR,
         CollectGarbage, CrashRestart, Panic, Fault

(* A CronJob that was just written for what is asked for now.              *)
LEMMA JobWritten ==
  ASSUME CacheInv', NEW i \in IRs, NameApart(i), NEW c \in Commands,
         obj'[ToDNSName(i, c)].live, obj'[ToDNSName(i, c)].names = i,
         ir'[i].live, ir'[i].want[c] # None, obj'[ToDNSName(i, c)].sched = ir'[i].want[c]
  PROVE  JobSafe(i, c)'
<1> DEFINE k == ToDNSName(i, c)
<1>1. k \in Slots /\ c \in Parts
  BY JobSlot
<1>2. OwnedAt(k, obj'[k])
  BY <1>1 DEF CacheInv, SlotsInv, SlotInv
<1>3. obj'[k].owner = i
  BY <1>1, <1>2, OwnerApart
<1>4. CASE obj'[k].uid = ir'[i].uid
  BY <1>3, <1>4 DEF JobSafe, JobSettled, Owns
<1>5. CASE obj'[k].uid # ir'[i].uid
  BY <1>3, <1>5, CronNoneAssumption DEF JobSafe, Orphan
<1> QED BY <1>4, <1>5

LEMMA JobKept ==
  ASSUME CacheInv, NEW i \in IRs, NameApart(i), NEW c \in Commands, JobSafe(i, c),
         ir'[i] = ir[i], <<i, c>> \in left => <<i, c>> \in left',
         SameContents(obj'[ToDNSName(i, c)], obj[ToDNSName(i, c)]),
         EventAhead(ToDNSName(i, c)) => EventAhead(ToDNSName(i, c))'
  PROVE  JobSafe(i, c)'
<1> DEFINE k == ToDNSName(i, c)
<1>1. CASE EventAhead(k)
  BY <1>1 DEF JobSafe
<1>2. CASE Orphan(obj[k])
  <2>1. k \in Slots /\ c \in Parts
    BY JobSlot
  <2>2. obj[k].owner = i
    BY <1>2, <2>1, OwnerApart DEF CacheInv, SlotsInv, SlotInv, Orphan
  <2> QED BY <1>2, <2>2 DEF JobSafe, Orphan, SameContents
<1>3. CASE JobSettled(i, c)
  BY <1>3 DEF JobSafe, JobSettled, Owns, SameContents
<1> QED BY <1>1, <1>2, <1>3 DEF JobSafe

(* A removal on its way is an event ahead, whatever is behind it.          *)
LEMMA RemovalIsEvent ==
  ASSUME CacheInv, NEW k \in Slots, NEW next \in OwnedObject, StoredObject(k, next)
  PROVE  /\ ~next.live => EventAhead(k)'
         /\ EventAhead(k) => EventAhead(k)'
<1> DEFINE w == objWatch[k]
<1>1. /\ w \in Seq(OwnedObject) /\ objWatch'[k] = Append(w, next)
      /\ objCache'[k] = objCache[k]
  BY DEF CacheInv, TypeOK, StoredObject
<1> HIDE DEF w
<1>2. /\ Len(w) \in Nat /\ DOMAIN Append(w, next) = 1 .. Len(w) + 1 /\ DOMAIN w = 1 .. Len(w)
      /\ Append(w, next)[Len(w) + 1] = next /\ Append(w, next) # <<>>
      /\ \A n \in 1 .. Len(w) : Append(w, next)[n] = w[n]
  BY <1>1
<1>3. ~next.live => EventAhead(k)'
  BY <1>1, <1>2 DEF EventAhead
<1>4. EventAhead(k) => EventAhead(k)'
  BY <1>1, <1>2 DEF EventAhead, w
<1> QED BY <1>3, <1>4

(* A creation or removal that arrives queues the IdlingResource.           *)
LEMMA JobDelivered ==
  ASSUME CacheInv, NEW i \in IRs, NameApart(i), NEW c \in Commands,
         DeliverObject(ToDNSName(i, c)), EventAhead(ToDNSName(i, c))
  PROVE  EventAhead(ToDNSName(i, c))' \/ i \in queue'
<1> DEFINE k == ToDNSName(i, c)
           w == objWatch[k]
           old == objCache[k]
           new == Head(objWatch[k])
<1>1. k \in Slots /\ c \in Parts
  BY JobSlot
<1>2. /\ w \in Seq(OwnedObject) /\ w # <<>> /\ objWatch'[k] = Tail(w) /\ objCache'[k] = new
      /\ SlotInv(k, obj[k], w, old)
  BY <1>1 DEF CacheInv, TypeOK, SlotsInv, DeliverObject
<1>3. SlotInv(k, obj[k], Tail(w), new) /\ (new.live \/ old.live)
  BY <1>2, SlotDelivered
<1>4. \A o : o.live /\ OwnedAt(k, o) => i \in OwnerOf(o)
  BY <1>1, OwnerApart, CronNoneAssumption DEF OwnerOf
<1>5. CASE ~old.live \/ ~new.live
  <2>1. queue' = queue \cup OwnerOf(old) \cup OwnerOf(new)
    BY <1>5 DEF DeliverObject, PassesFilter
  <2>2. OwnedAt(k, old) /\ OwnedAt(k, new)
    BY <1>2, <1>3 DEF SlotInv
  <2> QED BY <1>3, <1>4, <2>1, <2>2
<1>6. CASE old.live /\ new.live
  <2>1. PICK n \in DOMAIN w : ~w[n].live
    BY <1>6 DEF EventAhead
  <2>2. /\ Len(Tail(w)) = Len(w) - 1 /\ Len(w) \in Nat \ {0} /\ Tail(w) \in Seq(OwnedObject)
        /\ \A m \in 1 .. Len(Tail(w)) : Tail(w)[m] = w[m + 1]
    BY <1>2, HeadTailProperties, EmptySeq
  <2>3. DOMAIN w = 1 .. Len(w) /\ DOMAIN Tail(w) = 1 .. Len(w) - 1
    BY <1>2, <2>2, LenProperties
  <2>4. n # 1
    BY <1>2, <1>6, <2>1
  <2> HIDE DEF w
  <2>5. n - 1 \in DOMAIN Tail(w) /\ ~Tail(w)[n - 1].live
    BY <2>1, <2>2, <2>3, <2>4
  <2>6. Tail(w) # <<>>
    <3>1. Len(Tail(w)) # 0
      BY <2>2, <2>3, <2>5
    <3> QED BY <3>1, EmptySeq
  <2> QED BY <1>2, <2>5, <2>6 DEF EventAhead
<1> QED BY <1>5, <1>6

LEMMA JobSafeStep ==
  ASSUME CacheInv, CacheInv', CopyInv, NEW i \in IRs, NameApart(i), NEW c \in Commands,
         JobStep(i, c), ir[i].live, ir'[i] = ir[i], JobSafe(i, c),
         <<i, c>> \in left => <<i, c>> \in left'
  PROVE  JobSafe(i, c)' \/ i \in queue' \/ Requested(i)
<1> DEFINE k == ToDNSName(i, c)
<1>1. k \in Slots
  BY JobSlot
<1>2. CASE KeptAt(k)
  BY <1>2, JobKept DEF KeptAt, EventAhead, SameContents
<1>3. ASSUME NEW next \in OwnedObject, StoredObject(k, next),
             ~next.live \/ SameContents(next, obj[k])
      PROVE  JobSafe(i, c)'
  <2>1. CASE ~next.live
    BY <1>1, <1>3, <2>1, RemovalIsEvent DEF JobSafe
  <2>2. CASE SameContents(next, obj[k])
    <3>1. obj'[k] = next
      BY <1>1, <1>3 DEF StoredObject, CacheInv, TypeOK
    <3> QED BY <1>1, <1>3, <2>2, <3>1, RemovalIsEvent, JobKept
  <2> QED BY <1>3, <2>1, <2>2
<1>4. CASE DeliverObject(k)
  <2>1. CASE EventAhead(k)
    BY <1>4, <2>1, JobDelivered DEF JobSafe
  <2>2. CASE ~EventAhead(k)
    BY <1>4, <2>2, JobKept DEF DeliverObject, SameContents
  <2> QED BY <2>1, <2>2
<1>5. CASE /\ Create \/ Update
           /\ wk.key = i /\ wk.part = c
           /\ obj'[k].live /\ obj'[k].names = i /\ obj'[k].sched = wk.ir.want[c]
  <2>1. wk.call \in {"Create", "Update"}
    BY <1>5 DEF Create, Update
  <2>2. wk.ir.want[c] # None
    BY <1>5, <2>1 DEF CacheInv, WorkerInv
  <2>3. CASE wk.ir.want = ir[i].want
    BY <1>5, <2>2, <2>3, JobWritten
  <2>4. CASE wk.ir.want # ir[i].want
    BY <1>5, <2>1, <2>4 DEF CopyInv
  <2> QED BY <2>3, <2>4
<1> QED BY <1>2, <1>3, <1>4, <1>5 DEF JobStep

(* A request waits for a worker that is busy.                              *)
LEMMA RequestedKept ==
  ASSUME CacheInv, [Next]_vars, ~Restarts, wk.call # "Free", NEW i \in IRs, Requested(i)
  PROVE  Requested(i)'
<1>1. irWatch[i] # <<>> => irWatch'[i] # <<>> \/ i \in queue'
  BY EveryIRsStep, IRChanges
<1>2. i \in queue \cup timers => i \in queue' \cup timers'
  BY QueueStep DEF Take
<1> QED BY <1>1, <1>2 DEF Requested

LEMMA CopyStep ==
  ASSUME CacheInv, CopyInv, [Next]_vars
  PROVE  CopyInv'
<1> DEFINE Busy == {"AddFinalizer", "Get", "Create", "Update", "Delete", "ReconcileWithIdler"}
<1>0. wk \in Worker /\ (wk.call # "Free" => wk.key \in IRs)
  BY DEF CacheInv, TypeOK
<1>1. CASE wk'.call \notin Busy
  BY <1>1 DEF CopyInv
<1>2. CASE Restarts
  BY <1>1, <1>2 DEF Restarts, FreeWorker
<1>3. ASSUME ~Restarts, wk.call \in Busy, wk'.key = wk.key, wk'.ir = wk.ir
      PROVE  CopyInv'
  <2>1. PICK i \in IRs : i = wk.key
    BY <1>0, <1>3
  <2>2. wk.ir = ir[i] \/ Requested(i)
    BY <1>3, <2>1 DEF CopyInv
  <2>3. Requested(i) => Requested(i)'
    BY <1>3, RequestedKept
  <2>4. ir'[i] = ir[i] \/ Requested(i)'
    BY <1>3, EveryIRsStep, IRChanges DEF Requested
  <2>5. wk'.ir = ir'[i] \/ Requested(i)'
    BY <1>3, <2>2, <2>3, <2>4
  <2>6. wk'.key = i
    BY <1>3, <2>1
  <2> QED BY <2>5, <2>6 DEF CopyInv, Requested
<1>4. CASE wk' = wk /\ ~Restarts
  BY <1>1, <1>3, <1>4
<1>5. CASE GetIdlingResource /\ ~Restarts
  <2>1. wk'.key = wk.key /\ wk.key \in IRs /\ UNCHANGED irVars
    BY <1>0, <1>5 DEF GetIdlingResource, Jump, FreeWorker
  <2>2. CASE irCache[wk.key].live
    <3>1. wk'.ir = irCache[wk.key]
      BY <1>5, <2>2 DEF GetIdlingResource, Jump, FreeWorker
    <3>2. irWatch[wk.key] = <<>> => irCache[wk.key] = ir[wk.key]
      BY <2>1 DEF CacheInv, IRWatchInv, LastVersion
    <3> QED BY <2>1, <3>1, <3>2 DEF CopyInv, Requested, irVars
  <2>3. CASE ~irCache[wk.key].live
    BY <1>1, <1>5, <2>3 DEF GetIdlingResource, Jump, FreeWorker
  <2> QED BY <2>2, <2>3
<1>6. CASE AddFinalizer /\ ~Restarts
  <2> DEFINE new == NextVersion(ir[wk.key], [wk.ir EXCEPT !.fin = TRUE])
  <2>1. CASE /\ WriteIR(wk.key, [wk.ir EXCEPT !.fin = TRUE])
             /\ wk' = [Jump("Get", new) EXCEPT !.part = "sa"]
    <3>1. wk.key \in IRs /\ ir \in [IRs -> CronIRObject]
      BY <1>0, <1>6 DEF AddFinalizer, CacheInv, TypeOK
    <3>2. ir'[wk.key] = new
      BY <2>1, <3>1 DEF WriteIR
    <3>3. wk'.ir = new /\ wk'.key = wk.key
      BY <2>1 DEF Jump, FreeWorker
    <3> QED BY <3>2, <3>3 DEF CopyInv
  <2>2. CASE wk' = Jump("Err", NoCronIR)
    BY <1>1, <2>2 DEF Jump, FreeWorker
  <2> QED BY <1>6, <2>1, <2>2 DEF AddFinalizer
<1>7. CASE (Get \/ Create \/ Update \/ Delete) /\ ~Restarts
  <2>1. wk.part \in Parts /\ wk.call \in Busy
    BY <1>7 DEF Get, Create, Update, Delete, CacheInv, TypeOK
  <2>2. CASE Get
    <3>1. wk' = AfterGet(objCache[Slot])
      BY <2>2 DEF Get
    <3>2. WorkerTyped(wk) /\ AfterPart.key = wk.key /\ AfterPart.ir = wk.ir
      BY <2>1, AfterPartCalls, TypeParts DEF CacheInv
    <3>3. \/ wk' = AfterPart
          \/ wk' = [wk EXCEPT !.call = "Create"] \/ wk' = [wk EXCEPT !.call = "Delete"]
          \/ wk' = [wk EXCEPT !.call = "Update", !.obj = objCache[Slot]]
      BY <2>1, <3>1, <3>2, AfterGetCases
    <3>4. wk'.key = wk.key /\ wk'.ir = wk.ir
      BY <1>0, <3>2, <3>3 DEF Worker
    <3> QED BY <1>3, <1>7, <2>1, <3>4
  <2>3. CASE wk' = Jump("Err", NoCronIR)
    BY <1>1, <2>3 DEF Jump, FreeWorker
  <2>4. CASE wk' = AfterPart
    BY <1>3, <1>7, <2>1, <2>4, AfterPartCalls
  <2> QED BY <1>7, <2>2, <2>3, <2>4 DEF Create, Update, Delete
<1>8. CASE \/ ReconcileWithIdler \/ ReturnOk \/ ReturnRequeueAfter \/ ReturnErr
           \/ Fault \/ \E i \in IRs : Take(i)
  <2>1. CASE \E call \in {"Ok", "RequeueAfter", "Err"} : wk' = Jump(call, NoCronIR)
    BY <1>1, <2>1 DEF Jump, FreeWorker
  <2>2. CASE ReturnOk \/ ReturnRequeueAfter \/ ReturnErr
    BY <1>1, <2>2 DEF ReturnOk, ReturnRequeueAfter, ReturnErr, FreeWorker
  <2>3. ASSUME NEW i \in IRs, Take(i) PROVE CopyInv'
    BY <1>1, <2>3 DEF Take, FreeWorker
  <2>4. CASE Fault /\ wk' = AfterPart /\ wk.call = "Get" /\ wk.part \in Commands
    <3>1. wk'.key = wk.key /\ wk'.ir = wk.ir
      BY <2>4, AfterPartCalls, PartNames
    <3> QED BY <1>2, <1>3, <2>4, <3>1
  <2> QED BY <1>8, <2>1, <2>2, <2>3, <2>4, FaultStep DEF ReconcileWithIdler
<1>9. CASE \/ \E j \in IRs : TimerFires(j) \/ PollFires(j) \/ DeliverIR(j)
           \/ \E k \in Slots : DeliverObject(k) \/ CollectGarbage(k)
           \/ Environment \/ UNCHANGED vars
  <2>1. wk' = wk
    BY <1>9 DEF TimerFires, PollFires, DeliverIR, DeliverObject, CollectGarbage, vars,
                Environment, Resync, CreateIR, DeleteIR, EditStrategy, DeleteObject,
                EditRole, EditJob, TouchJob, UserWritesIR, UserWritesObject
  <2> QED BY <1>2, <1>4, <2>1
<1>10. CASE CrashRestart \/ Panic
  BY <1>2, <1>10 DEF CrashRestart, Panic
<1> QED BY <1>2, <1>5, <1>6, <1>7, <1>8, <1>9, <1>10 DEF Next, WorkerStep

(* The worker passes a CronJob only when that is as the worker thinks it   *)
(* is asked for, or an event about it is ahead.                            *)
LEMMA JobWrite ==
  ASSUME CacheInv, Create \/ Update, wk.part \in Commands, wk' # Jump("Err", NoCronIR)
  PROVE  obj'[Slot].live /\ obj'[Slot].names = wk.key /\ obj'[Slot].sched = wk.ir.want[wk.part]
<1>1. /\ TypeOK /\ WorkerTyped(wk) /\ wk.call # "Free" /\ wk.part \in Parts /\ wk.key \in IRs
      /\ wk.obj \in OwnedObject /\ obj \in [Slots -> OwnedObject]
  BY TypeParts DEF Create, Update, CacheInv, TypeOK, Worker
<1>2. Slot \in Slots
  BY <1>1, SlotType DEF Slot
<1>3. ASSUME NEW new \in OwnedObject, WriteObject(Slot, new), new.live,
             new.names = wk.key, new.sched = wk.ir.want[wk.part]
      PROVE  obj'[Slot].live /\ obj'[Slot].names = wk.key /\ obj'[Slot].sched = wk.ir.want[wk.part]
  <2>1. CASE UNCHANGED objVars /\ obj[Slot] = new
    BY <1>3, <2>1 DEF objVars
  <2>2. ASSUME NEW next \in OwnedObject, StoredObject(Slot, next), SameContents(next, new)
        PROVE  /\ obj'[Slot].live /\ obj'[Slot].names = wk.key
               /\ obj'[Slot].sched = wk.ir.want[wk.part]
    BY <1>1, <1>2, <1>3, <2>2 DEF StoredObject, SameContents
  <2> QED BY <1>1, <1>2, <1>3, <2>1, <2>2, WriteObjectCases
<1>4. CASE Create /\ WriteObject(Slot, NewObject)
  BY <1>1, <1>3, <1>4, NewObjectType
<1>5. CASE Update /\ WriteObject(Slot, SetValues(wk.obj))
  <2>1. SetValues(wk.obj).live /\ SetValues(wk.obj) \in OwnedObject
    BY <1>1, <1>5, WorkerWrites DEF Update
  <2> QED BY <1>1, <1>3, <1>5, <2>1, SetValuesType
<1> QED BY <1>4, <1>5 DEF Create, Update

LEMMA GetPassesJob ==
  ASSUME CacheInv, CopyInv, Get, NEW i \in IRs, NameApart(i), wk.key = i, ir[i].live,
         NEW c \in JobsAhead
  PROVE  (c \in JobsAhead' /\ wk'.key = i) \/ JobSafe(i, c)' \/ Requested(i)'
<1> DEFINE o == objCache[Slot]
           k == ToDNSName(i, c)
<1>1. /\ wk \in Worker /\ wk.part \in Parts /\ wk.call = "Get" /\ c \in Commands
      /\ UNCHANGED <<irVars, objVars, queue, timers>> /\ wk' = AfterGet(o) /\ WorkerTyped(wk)
  BY TypeParts DEF Get, CacheInv, TypeOK, JobsAhead
<1>2. wk.part \in RBACParts \/ wk.part = c \/ (wk.part = "idle" /\ c = "wakeup")
  BY <1>1 DEF JobsAhead
<1>3. CASE \/ wk' = [wk EXCEPT !.call = "Create"] \/ wk' = [wk EXCEPT !.call = "Delete"]
           \/ wk' = [wk EXCEPT !.call = "Update", !.obj = o]
  <2>1. wk'.call \in {"Create", "Update", "Delete"} /\ wk'.key = i /\ wk'.part = wk.part
    BY <1>1, <1>3 DEF Worker
  <2> QED BY <1>1, <1>2, <2>1 DEF JobsAhead
<1>4. CASE wk' = AfterPart /\ wk.part # c
  BY <1>1, <1>2, <1>4, AfterPartCalls DEF JobsAhead, RBACParts, Commands
<1>5. CASE wk' = AfterPart /\ wk.part = c
  <2>1. wk.ir.want[c] = None /\ ~o.live
    <3>1. AfterPart.call \in {"Get", "ReconcileWithIdler"}
      BY <1>1, AfterPartCalls
    <3>2. /\ wk' # [wk EXCEPT !.call = "Create"] /\ wk' # [wk EXCEPT !.call = "Delete"]
          /\ wk' # [wk EXCEPT !.call = "Update", !.obj = o]
      BY <1>1, <1>5, <3>1 DEF Worker
    <3>3. wk.part \notin {"sa", "rb"} /\ wk.part # "role" /\ wk.part \in Commands
      BY <1>1, <1>5 DEF Commands
    <3> HIDE DEF o
    <3> QED BY <1>1, <1>5, <3>2, <3>3 DEF AfterGet, cronJobNeedChanges
  <2>2. Slot = k /\ k \in Slots
    BY <1>1, <1>5, JobSlot DEF Slot
  <2>3. CASE Requested(i)
    BY <1>1, <2>3 DEF Requested, irVars
  <2>4. CASE objWatch[k] # <<>>
    BY <1>1, <2>1, <2>2, <2>4 DEF JobSafe, EventAhead, objVars
  <2>5. CASE ~Requested(i) /\ objWatch[k] = <<>>
    <3>1. obj[k] = o
      BY <2>2, <2>5 DEF CacheInv, SlotsInv, SlotInv, LastVersion
    <3>2. ir[i].want[c] = None
      BY <1>1, <2>1, <2>5 DEF CopyInv
    <3> QED BY <1>1, <2>1, <3>1, <3>2 DEF JobSafe, JobSettled, irVars, objVars
  <2> QED BY <2>3, <2>4, <2>5
<1> QED BY <1>1, <1>3, <1>4, <1>5, AfterGetCases

LEMMA WorkerPassesJob ==
  ASSUME CacheInv, CacheInv', CopyInv, [Next]_vars, ~Restarts,
         NEW i \in IRs, NameApart(i), wk.key = i, ir[i].live, ir'[i] = ir[i], NEW c \in JobsAhead
  PROVE  (c \in JobsAhead' /\ wk'.key = i) \/ JobSafe(i, c)' \/ Requested(i)'
<1> DEFINE k == ToDNSName(i, c)
<1>1. /\ wk \in Worker /\ wk.call # "Free" /\ c \in Commands
      /\ wk.call \in {"GetIdlingResource", "AddFinalizer", "Err", "Get", "Create", "Update", "Delete"}
  BY DEF CacheInv, TypeOK, JobsAhead
<1>2. CASE wk' = wk
  BY <1>2 DEF JobsAhead
<1>3. CASE GetIdlingResource
  <2>1. CASE irCache[i].live
    BY <1>1, <1>3, <2>1 DEF GetIdlingResource, Jump, FreeWorker, JobsAhead, RBACParts
  <2>2. CASE ~irCache[i].live
    <3>1. irWatch[i] # <<>>
      BY <2>2 DEF CacheInv, IRWatchInv, LastVersion
    <3> QED BY <1>3, <3>1 DEF GetIdlingResource, irVars, Requested
  <2> QED BY <2>1, <2>2
<1>4. CASE AddFinalizer \/ (Fault /\ wk' = Jump("Err", NoCronIR))
  BY <1>1, <1>4 DEF AddFinalizer, Jump, FreeWorker, JobsAhead, RBACParts
<1>5. CASE Get
  BY <1>5, GetPassesJob
<1>6. CASE Create \/ Update \/ Delete
  <2>1. wk.part \in Parts /\ wk.call \in {"Create", "Update", "Delete"}
    BY <1>6 DEF Create, Update, Delete, CacheInv, TypeOK
  <2>2. wk.part \in RBACParts \/ wk.part = c \/ (wk.part = "idle" /\ c = "wakeup")
    BY <2>1 DEF JobsAhead
  <2>3. CASE wk' = Jump("Err", NoCronIR)
    BY <1>1, <2>3 DEF Jump, FreeWorker, JobsAhead
  <2>4. CASE wk' = AfterPart /\ wk.part # c
    BY <1>1, <2>1, <2>2, <2>4, AfterPartCalls DEF JobsAhead, RBACParts, Commands
  <2>5. CASE wk' # Jump("Err", NoCronIR) /\ wk.part = c
    <3>0. Slot = k /\ k \in Slots
      BY <1>1, <2>5, JobSlot DEF Slot
    <3>1. CASE Requested(i)
      BY <1>1, <3>1, RequestedKept
    <3>2. CASE ~Requested(i) /\ (Create \/ Update)
      <4>1. wk.ir.want[c] = ir[i].want[c]
        BY <2>1, <3>2 DEF CopyInv
      <4>2. wk.ir.want[c] # None
        BY <1>1, <2>5, <3>2 DEF CacheInv, WorkerInv, Create, Update
      <4>3. obj'[k].live /\ obj'[k].names = i /\ obj'[k].sched = wk.ir.want[c]
        BY <1>1, <2>5, <3>0, <3>2, JobWrite
      <4> QED BY <1>1, <4>1, <4>2, <4>3, JobWritten
    <3>3. CASE ~Requested(i) /\ Delete
      <4>1. wk.ir.want[c] = None /\ wk.ir.want = ir[i].want
        BY <2>1, <2>5, <3>3 DEF CacheInv, WorkerInv, CopyInv, Delete
      <4>2. CASE obj[k].live
        <5>1. WriteObject(k, NoObject) /\ NoObject \in OwnedObject
          BY <3>0, <3>3, <4>2, NullTypes DEF Delete
        <5>2. obj[k] # NoObject
          BY <4>2, NoObjectOwned
        <5>3. PICK next \in OwnedObject : StoredObject(k, next) /\ SameContents(next, NoObject)
          BY <3>0, <5>1, <5>2, WriteObjectCases DEF CacheInv
        <5>4. ~next.live
          BY <5>3, NoObjectOwned DEF SameContents
        <5> QED BY <3>0, <5>3, <5>4, RemovalIsEvent DEF JobSafe
      <4>3. CASE ~obj[k].live
        <5>1. UNCHANGED objVars
          BY <3>0, <3>3, <4>3 DEF Delete
        <5> QED BY <4>1, <4>3, <5>1 DEF JobSafe, JobSettled, objVars
      <4> QED BY <4>2, <4>3
    <3> QED BY <1>6, <3>1, <3>2, <3>3
  <2>6. wk' = Jump("Err", NoCronIR) \/ wk' = AfterPart
    BY <1>6 DEF Create, Update, Delete
  <2> QED BY <2>3, <2>4, <2>5, <2>6
<1>7. CASE ReturnErr
  BY <1>7 DEF ReturnErr, Requested
<1>8. CASE \/ ReconcileWithIdler \/ ReturnOk \/ ReturnRequeueAfter
           \/ \E j \in IRs : Take(j)
           \/ CrashRestart \/ Panic
  BY <1>1, <1>8 DEF ReconcileWithIdler, ReturnOk, ReturnRequeueAfter, Take, CrashRestart, Panic
<1>9. CASE \/ \E j \in IRs : TimerFires(j) \/ PollFires(j) \/ DeliverIR(j)
           \/ \E x \in Slots : DeliverObject(x) \/ CollectGarbage(x)
           \/ Environment \/ UNCHANGED vars
  <2>1. wk' = wk
    BY <1>9 DEF TimerFires, PollFires, DeliverIR, DeliverObject, CollectGarbage, vars,
                Environment, Resync, CreateIR, DeleteIR, EditStrategy, DeleteObject,
                EditRole, EditJob, TouchJob, UserWritesIR, UserWritesObject
  <2> QED BY <1>2, <2>1
<1>10. CASE Fault /\ wk' # Jump("Err", NoCronIR)
  <2>1. /\ wk.call = "Get" /\ wk.part \in Commands /\ wk.ir.want[wk.part] = None
        /\ wk' = AfterPart /\ UNCHANGED <<irVars, objVars>>
        /\ obj[Slot].live => <<wk.key, wk.part>> \in left'
    BY <1>10, FaultStep
  <2>2. AfterPart.key = i
    BY <2>1, AfterPartCalls, PartNames
  <2>3. CASE wk.part # c
    <3>1. wk.part = "idle" /\ c = "wakeup"
      BY <2>1, <2>3 DEF JobsAhead, RBACParts, Commands
    <3> QED BY <2>1, <2>2, <3>1, AfterPartCalls, PartNames DEF JobsAhead, Commands
  <2>4. CASE wk.part = c /\ Requested(i)
    BY <1>1, <2>4, RequestedKept
  <2>5. CASE wk.part = c /\ ~Requested(i)
    <3>1. ir[i].want[c] = None /\ Slot = k
      BY <2>1, <2>5 DEF CopyInv, Slot
    <3> QED BY <2>1, <2>5, <3>1 DEF JobSafe, JobSettled, irVars, objVars
  <2> QED BY <2>3, <2>4, <2>5
<1> QED BY <1>3, <1>4, <1>5, <1>6, <1>7, <1>8, <1>9, <1>10 DEF Next, WorkerStep

LEMMA JobsStep ==
  ASSUME "EditJob" \notin Writes, CacheInv, CopyInv, JobsInv, [Next]_vars
  PROVE  JobsInv'
<1>0. CacheInv'
  BY CacheStep
<1> SUFFICES ASSUME NEW i \in IRs, NameApart(i), ir'[i].live, NEW c \in Commands
             PROVE  JobSafe(i, c)' \/ Requested(i)' \/ (wk'.key = i /\ c \in JobsAhead')
  BY DEF JobsInv
<1>1. CASE Restarts
  BY <1>1 DEF Restarts, Listed, Requested
<1>2. CASE ~Restarts
  <2>1. CASE ir'[i] # ir[i]
    BY <1>2, <2>1, EveryIRsStep, IRChanges DEF Requested
  <2>2. CASE ir'[i] = ir[i]
    <3>1. JobSafe(i, c) \/ Requested(i) \/ (wk.key = i /\ c \in JobsAhead)
      BY <2>2 DEF JobsInv
    <3>2. CASE Requested(i)
      <4>1. CASE Take(i)
        BY <4>1 DEF Take, FreeWorker, JobsAhead
      <4>2. CASE ~Take(i)
        BY <1>2, <3>2, <4>2, EveryIRsStep, IRChanges, QueueStep DEF Requested
      <4> QED BY <4>1, <4>2
    <3>3. CASE JobSafe(i, c) /\ ~Requested(i)
      <4>1. JobStep(i, c)
        BY <1>2, EveryJobStep
      <4>2. CASE Get /\ wk.key = i /\ wk.part = c
        <5>1. c \in JobsAhead
          BY <4>2 DEF Get, JobsAhead
        <5> QED BY <1>0, <1>2, <2>2, <4>2, <5>1, WorkerPassesJob
      <4>3. CASE ~(Get /\ wk.key = i /\ wk.part = c)
        <5>1. <<i, c>> \in left => <<i, c>> \in left'
          BY <4>3, LeftStep
        <5> QED BY <1>0, <2>2, <3>3, <4>1, <5>1, JobSafeStep DEF Requested
      <4> QED BY <4>2, <4>3
    <3>4. CASE wk.key = i /\ c \in JobsAhead
      BY <1>0, <1>2, <2>2, <3>4, WorkerPassesJob
    <3> QED BY <3>1, <3>2, <3>3, <3>4
  <2> QED BY <2>1, <2>2
<1> QED BY <1>1, <1>2

LEMMA JobsInvariance ==
  ASSUME "EditJob" \notin Writes
  PROVE  Spec => [](CacheInv /\ CopyInv /\ JobsInv)
<1>1. Init => CacheInv /\ CopyInv /\ JobsInv
  BY CacheInit DEF Init, CopyInv, FreeWorker, JobsInv, Requested
<1>2. CacheInv /\ CopyInv /\ JobsInv /\ [Next]_vars => CacheInv' /\ CopyInv' /\ JobsInv'
  BY CacheStep, CopyStep, JobsStep
<1> QED BY <1>1, <1>2, PTL DEF Spec

LEMMA JobsSafeAtRest ==
  ASSUME JobsInv, AtRest, NEW i \in IRs, NameApart(i)
  PROVE  HasJobs(i)
<1> SUFFICES ASSUME ir[i].live, NEW c \in Commands PROVE JobSettled(i, c)
  BY DEF HasJobs, JobSettled
<1>1. c \notin JobsAhead /\ ~Requested(i)
  BY DEF AtRest, JobsAhead, Requested
<1>2. JobSafe(i, c)
  BY <1>1 DEF JobsInv
<1> QED BY <1>2, JobSlot DEF JobSafe, EventAhead, AtRest

(* At rest the CronJobs of an IdlingResource whose name is apart from the  *)
(* others' are those its strategies ask for, and perhaps one more that a   *)
(* failed Get left behind, if nobody but the operator edits a CronJob: an  *)
(* edit that changes its schedule would stay, as its event is filtered out. *)
THEOREM JobsOfApart ==
  ASSUME "EditJob" \notin Writes, NEW i \in IRs, NameApart(i)
  PROVE  Spec => [](AtRest => HasJobs(i))
<1>1. CacheInv /\ CopyInv /\ JobsInv => (AtRest => HasJobs(i))
  BY JobsSafeAtRest
<1> QED BY <1>1, JobsInvariance, PTL

(* So are those of each of them, if the names of all are apart.            *)
THEOREM JobsHold ==
  ASSUME "EditJob" \notin Writes, \A i \in IRs : NameApart(i)
  PROVE  Spec => []JobsAtRest
<1>1. CacheInv /\ CopyInv /\ JobsInv => JobsAtRest
  BY JobsSafeAtRest DEF JobsAtRest
<1> QED BY <1>1, JobsInvariance, PTL

-----------------------------------------------------------------------------
(* Deletions.                                                              *)

(* A deletion is asked for, or the worker is at it.                        *)
DeletionInv ==
    \A i \in IRs : ir[i].live /\ ir[i].deleting =>
        \/ Requested(i)
        \/ wk.key = i /\ wk.call \notin {"Free", "Ok", "RequeueAfter"}

(* A reconciliation that comes to its end has removed what is to be        *)
(* deleted, or read an earlier version of it.                              *)
LEMMA WorkerGoesOn ==
  ASSUME "unknown" \notin Referents, CacheInv, CopyInv, [Next]_vars, ~Restarts,
         NEW i \in IRs, wk.key = i,
         wk.call \notin {"Free", "Ok", "RequeueAfter"}, ir[i].live, ir[i].deleting, ir'[i] = ir[i]
  PROVE  Requested(i)' \/ (wk'.key = i /\ wk'.call \notin {"Free", "Ok", "RequeueAfter"})
<1>1. CASE Requested(i)
  BY <1>1, RequestedKept
<1>2. CASE wk' = wk
  BY <1>2
<1>3. \A call, inst : Jump(call, inst).call = call /\ Jump(call, inst).key = i
  BY DEF Jump, FreeWorker
<1>4. CASE GetIdlingResource
  <2>1. CASE irCache[i].live
    <3>1. wk' = Jump("AddFinalizer", irCache[i]) \/ wk' = [Jump("Get", irCache[i]) EXCEPT !.part = "sa"]
      BY <1>4, <2>1 DEF GetIdlingResource
    <3> QED BY <3>1 DEF Jump, FreeWorker
  <2>2. CASE ~irCache[i].live
    <3>1. irWatch[i] # <<>>
      BY <2>2 DEF CacheInv, IRWatchInv, LastVersion
    <3> QED BY <1>1, <3>1 DEF Requested
  <2> QED BY <2>1, <2>2
<1>5. CASE AddFinalizer \/ Fault
  <2>1. wk.part \in Commands => AfterPart.key = i /\ AfterPart.call \in {"Get", "ReconcileWithIdler"}
    BY AfterPartCalls, PartNames
  <2>2. CASE AddFinalizer
    BY <2>2 DEF AddFinalizer, Jump, FreeWorker
  <2>3. CASE Fault
    BY <1>3, <2>1, <2>3, FaultStep
  <2> QED BY <1>5, <2>2, <2>3
<1>6. CASE Get
  <2>1. wk \in Worker /\ WorkerTyped(wk) /\ wk.part \in Parts /\ wk' = AfterGet(objCache[Slot])
    BY <1>6, TypeParts DEF Get, CacheInv, TypeOK
  <2>2. AfterPart.key = i /\ AfterPart.call \in {"Get", "ReconcileWithIdler"}
    BY <2>1, AfterPartCalls
  <2>3. \/ wk' = AfterPart
        \/ wk' = [wk EXCEPT !.call = "Create"] \/ wk' = [wk EXCEPT !.call = "Delete"]
        \/ wk' = [wk EXCEPT !.call = "Update", !.obj = objCache[Slot]]
    BY <2>1, AfterGetCases
  <2> QED BY <2>1, <2>2, <2>3 DEF Worker
<1>7. CASE Create \/ Update \/ Delete
  <2>1. wk.part \in Parts
    BY <1>7 DEF Create, Update, Delete, CacheInv, TypeOK
  <2>2. wk' = AfterPart \/ wk' = Jump("Err", NoCronIR)
    BY <1>7 DEF Create, Update, Delete
  <2> QED BY <1>3, <2>1, <2>2, AfterPartCalls
<1>8. CASE ReconcileWithIdler /\ ~Requested(i)
  <2>1. wk.ir = ir[i]
    BY <1>8 DEF ReconcileWithIdler, CopyInv
  <2>2. ~WriteIR(i, RemovedIR(i))
    <3>1. ir \in [IRs -> CronIRObject] /\ ~RemovedIR(i).live
      BY DEF CacheInv, TypeOK, RemovedIR, NoCronIR
    <3>2. ~NextVersion(ir[i], RemovedIR(i)).live
      BY <3>1, NullTypes DEF NextVersion, RemovedIR, NoCronIR
    <3> QED BY <3>1, <3>2 DEF WriteIR
  <2> QED BY <1>3, <1>8, <2>1, <2>2 DEF ReconcileWithIdler
<1>9. CASE ReturnErr
  BY <1>9 DEF ReturnErr, Requested
<1>10. CASE \/ ReturnOk \/ ReturnRequeueAfter \/ \E j \in IRs : Take(j)
            \/ CrashRestart \/ Panic
  BY <1>10 DEF ReturnOk, ReturnRequeueAfter, Take, CrashRestart, Panic
<1>11. CASE \/ \E j \in IRs : TimerFires(j) \/ PollFires(j) \/ DeliverIR(j)
            \/ \E x \in Slots : DeliverObject(x) \/ CollectGarbage(x)
            \/ Environment \/ UNCHANGED vars
  <2>1. wk' = wk
    BY <1>11 DEF TimerFires, PollFires, DeliverIR, DeliverObject, CollectGarbage, vars,
                 Environment, Resync, CreateIR, DeleteIR, EditStrategy, DeleteObject,
                 EditRole, EditJob, TouchJob, UserWritesIR, UserWritesObject
  <2> QED BY <1>2, <2>1
<1> QED BY <1>1, <1>4, <1>5, <1>6, <1>7, <1>8, <1>9, <1>10, <1>11 DEF Next, WorkerStep

LEMMA DeletionStep ==
  ASSUME "unknown" \notin Referents, CacheInv, CopyInv, DeletionInv, [Next]_vars
  PROVE  DeletionInv'
<1> SUFFICES ASSUME NEW i \in IRs, ir'[i].live, ir'[i].deleting
             PROVE  Requested(i)' \/ (wk'.key = i /\ wk'.call \notin {"Free", "Ok", "RequeueAfter"})
  BY DEF DeletionInv
<1>1. CASE Restarts
  BY <1>1 DEF Restarts, Listed, Requested
<1>2. CASE ~Restarts /\ ir'[i] # ir[i]
  BY <1>2, EveryIRsStep, IRChanges DEF Requested
<1>3. CASE ~Restarts /\ ir'[i] = ir[i]
  <2>1. Requested(i) \/ (wk.key = i /\ wk.call \notin {"Free", "Ok", "RequeueAfter"})
    BY <1>3 DEF DeletionInv
  <2>2. CASE Requested(i)
    <3>1. CASE Take(i)
      BY <3>1 DEF Take, FreeWorker
    <3>2. CASE ~Take(i)
      BY <1>3, <2>2, <3>2, EveryIRsStep, IRChanges, QueueStep DEF Requested
    <3> QED BY <3>1, <3>2
  <2>3. CASE wk.key = i /\ wk.call \notin {"Free", "Ok", "RequeueAfter"}
    BY <1>3, <2>3, WorkerGoesOn
  <2> QED BY <2>1, <2>2, <2>3
<1> QED BY <1>1, <1>2, <1>3

(* No deletion is forgotten, for names of any length and whatever users    *)
(* write, as long as Reconcile has a case for every kind that is referred  *)
(* to: at rest no IdlingResource waits for its finalizer to go.            *)
THEOREM NoDeletionForgottenHolds ==
  ASSUME "unknown" \notin Referents
  PROVE  Spec => []NoDeletionForgotten
<1>1. Init => CacheInv /\ CopyInv /\ DeletionInv
  <2>1. Init => \A i \in IRs : ~ir[i].deleting
    <3> SUFFICES ASSUME Init, NEW i \in IRs PROVE ~ir[i].deleting
      OBVIOUS
    <3>1. ir[i] \in InitialIRs /\ ~NoCronIR.deleting
      BY DEF Init, NoCronIR
    <3>2. \A want : ~[NoCronIR EXCEPT !.live = TRUE, !.uid = 1, !.want = want, !.rv = 1].deleting
      BY DEF NoCronIR
    <3> QED BY <3>1, <3>2 DEF InitialIRs
  <2> QED BY <2>1, CacheInit DEF Init, CopyInv, FreeWorker, DeletionInv
<1>2. CacheInv /\ CopyInv /\ DeletionInv /\ [Next]_vars => CacheInv' /\ CopyInv' /\ DeletionInv'
  BY CacheStep, CopyStep, DeletionStep
<1>3. DeletionInv => NoDeletionForgotten
  BY DEF DeletionInv, NoDeletionForgotten, AtRest, Requested
<1> QED BY <1>1, <1>2, <1>3, PTL DEF Spec

-----------------------------------------------------------------------------
(* Versions: what an Update replaces is what has been read.                *)

VersionOf(v, stored) == v.rv <= stored.rv /\ (v.rv = stored.rv => v = stored)

VersionsOf(stored, watch, cache) ==
    VersionOf(cache, stored) /\ \A n \in 1 .. Len(watch) : VersionOf(watch[n], stored)

(* The calls that have an IdlingResource in hand.                          *)
Busy == {"AddFinalizer", "Get", "Create", "Update", "Delete", "ReconcileWithIdler"}

(* The copies in the worker's memory.                                      *)
CopiesInv ==
    /\ wk.call \in Busy => VersionOf(wk.ir, ir[wk.key])
    /\ wk.call = "Update" => VersionOf(wk.obj, obj[Slot])

VersionsInv ==
    /\ \A i \in IRs : VersionsOf(ir[i], irWatch[i], irCache[i])
    /\ \A k \in Slots : VersionsOf(obj[k], objWatch[k], objCache[k])
    /\ CopiesInv

(* A version stays one when the next is stored.                            *)
LEMMA VersionKept ==
  ASSUME NEW v, NEW stored, NEW new, v.rv \in Nat, stored.rv \in Nat,
         VersionOf(v, stored), new = stored \/ new.rv = stored.rv + 1
  PROVE  VersionOf(v, new)
  BY DEF VersionOf

LEMMA VersionsAppended ==
  ASSUME NEW S, \A x \in S : x.rv \in Nat,
         NEW stored \in S, NEW new \in S, NEW cache \in S, NEW watch \in Seq(S),
         VersionsOf(stored, watch, cache), new.rv = stored.rv + 1
  PROVE  VersionsOf(new, Append(watch, new), cache)
<1> DEFINE longer == Append(watch, new)
<1>1. /\ Len(longer) = Len(watch) + 1 /\ longer[Len(longer)] = new
      /\ \A n \in 1 .. Len(watch) : longer[n] = watch[n] /\ watch[n] \in S
  OBVIOUS
<1>2. /\ VersionOf(cache, new) /\ VersionOf(new, new)
      /\ \A n \in 1 .. Len(watch) : VersionOf(watch[n], new)
  BY <1>1, VersionKept DEF VersionsOf, VersionOf
<1>3. \A n \in 1 .. Len(longer) : n \in 1 .. Len(watch) \/ n = Len(longer)
  BY <1>1
<1> QED BY <1>1, <1>2, <1>3 DEF VersionsOf

LEMMA VersionsDelivered ==
  ASSUME NEW S, NEW stored \in S, NEW cache \in S, NEW watch \in Seq(S), watch # <<>>,
         VersionsOf(stored, watch, cache)
  PROVE  VersionsOf(stored, Tail(watch), Head(watch))
<1>1. /\ Len(watch) \in Nat \ {0} /\ Head(watch) = watch[1]
      /\ Len(Tail(watch)) = Len(watch) - 1
      /\ \A n \in 1 .. Len(Tail(watch)) : Tail(watch)[n] = watch[n + 1]
  OBVIOUS
<1> QED BY <1>1 DEF VersionsOf

LEMMA VersionsListed ==
  ASSUME NEW stored, stored.rv \in Nat
  PROVE  VersionsOf(stored, <<>>, stored)
  BY DEF VersionsOf, VersionOf

(* The two kinds of object at the API server.                              *)
LEMMA IRVersions ==
  ASSUME TypeOK, IRsStep, NEW x \in IRs, VersionsOf(ir[x], irWatch[x], irCache[x])
  PROVE  /\ VersionsOf(ir'[x], irWatch'[x], irCache'[x])
         /\ ir'[x] = ir[x] \/ ir'[x].rv = ir[x].rv + 1
<1>1. /\ ir \in [IRs -> CronIRObject] /\ irCache \in [IRs -> CronIRObject]
      /\ irWatch \in [IRs -> Seq(CronIRObject)] /\ \A o \in CronIRObject : o.rv \in Nat
  BY DEF TypeOK, CronIRObject
<1>2. /\ ir[x] \in CronIRObject /\ irCache[x] \in CronIRObject
      /\ irWatch[x] \in Seq(CronIRObject) /\ ir[x].rv \in Nat
  BY <1>1
<1>3. CASE UNCHANGED irVars
  BY <1>3 DEF irVars
<1>4. ASSUME NEW i \in IRs, NEW next \in CronIRObject, StoredIR(i, next)
      PROVE  /\ VersionsOf(ir'[x], irWatch'[x], irCache'[x])
             /\ ir'[x] = ir[x] \/ ir'[x].rv = ir[x].rv + 1
  <2>1. CASE x = i
    <3>1. /\ ir'[x] = next /\ irWatch'[x] = Append(irWatch[x], next)
          /\ irCache'[x] = irCache[x] /\ next.rv = ir[x].rv + 1
      BY <1>1, <1>4, <2>1 DEF StoredIR
    <3>2. VersionsOf(next, Append(irWatch[x], next), irCache[x])
      BY <1>1, <1>2, <3>1, VersionsAppended
    <3> QED BY <3>1, <3>2
  <2>2. CASE x # i
    BY <1>1, <1>4, <2>2 DEF StoredIR
  <2> QED BY <2>1, <2>2
<1>5. ASSUME NEW i \in IRs, DeliverIR(i)
      PROVE  VersionsOf(ir'[x], irWatch'[x], irCache'[x]) /\ ir'[x] = ir[x]
  <2>1. CASE x = i
    <3>1. /\ ir'[x] = ir[x] /\ irWatch'[x] = Tail(irWatch[x])
          /\ irCache'[x] = Head(irWatch[x]) /\ irWatch[x] # <<>>
      BY <1>1, <1>5, <2>1 DEF DeliverIR
    <3>2. VersionsOf(ir[x], Tail(irWatch[x]), Head(irWatch[x]))
      BY <1>2, <3>1, VersionsDelivered
    <3> QED BY <3>1, <3>2
  <2>2. CASE x # i
    BY <1>1, <1>5, <2>2 DEF DeliverIR
  <2> QED BY <2>1, <2>2
<1>6. CASE Restarts
  BY <1>2, <1>6, VersionsListed DEF Restarts
<1> QED BY <1>3, <1>4, <1>5, <1>6 DEF IRsStep

LEMMA ObjectVersions ==
  ASSUME TypeOK, ObjectsStep, NEW x \in Slots, VersionsOf(obj[x], objWatch[x], objCache[x])
  PROVE  /\ VersionsOf(obj'[x], objWatch'[x], objCache'[x])
         /\ obj'[x] = obj[x] \/ obj'[x].rv = obj[x].rv + 1
<1>1. /\ obj \in [Slots -> OwnedObject] /\ objCache \in [Slots -> OwnedObject]
      /\ objWatch \in [Slots -> Seq(OwnedObject)] /\ \A o \in OwnedObject : o.rv \in Nat
  BY DEF TypeOK, OwnedObject
<1>2. /\ obj[x] \in OwnedObject /\ objCache[x] \in OwnedObject
      /\ objWatch[x] \in Seq(OwnedObject) /\ obj[x].rv \in Nat
  BY <1>1
<1>3. CASE UNCHANGED objVars
  BY <1>3 DEF objVars
<1>4. ASSUME NEW k \in Slots, NEW next \in OwnedObject, StoredObject(k, next)
      PROVE  /\ VersionsOf(obj'[x], objWatch'[x], objCache'[x])
             /\ obj'[x] = obj[x] \/ obj'[x].rv = obj[x].rv + 1
  <2>1. CASE x = k
    <3>1. /\ obj'[x] = next /\ objWatch'[x] = Append(objWatch[x], next)
          /\ objCache'[x] = objCache[x] /\ next.rv = obj[x].rv + 1
      BY <1>1, <1>4, <2>1 DEF StoredObject
    <3>2. VersionsOf(next, Append(objWatch[x], next), objCache[x])
      BY <1>1, <1>2, <3>1, VersionsAppended
    <3> QED BY <3>1, <3>2
  <2>2. CASE x # k
    BY <1>1, <1>4, <2>2 DEF StoredObject
  <2> QED BY <2>1, <2>2
<1>5. ASSUME NEW k \in Slots, DeliverObject(k)
      PROVE  VersionsOf(obj'[x], objWatch'[x], objCache'[x]) /\ obj'[x] = obj[x]
  <2>1. CASE x = k
    <3>1. /\ obj'[x] = obj[x] /\ objWatch'[x] = Tail(objWatch[x])
          /\ objCache'[x] = Head(objWatch[x]) /\ objWatch[x] # <<>>
      BY <1>1, <1>5, <2>1 DEF DeliverObject
    <3>2. VersionsOf(obj[x], Tail(objWatch[x]), Head(objWatch[x]))
      BY <1>2, <3>1, VersionsDelivered
    <3> QED BY <3>1, <3>2
  <2>2. CASE x # k
    BY <1>1, <1>5, <2>2 DEF DeliverObject
  <2> QED BY <2>1, <2>2
<1>6. CASE Restarts
  BY <1>2, <1>6, VersionsListed DEF Restarts
<1> QED BY <1>3, <1>4, <1>5, <1>6 DEF ObjectsStep

(* What the worker has in hand is what a cache held, or what it has just   *)
(* stored itself.                                                          *)
LEMMA CopiesStep ==
  ASSUME CacheInv, VersionsInv, [Next]_vars
  PROVE  CopiesInv'
<1>0. /\ TypeOK /\ wk \in Worker /\ (wk.call # "Free" => wk.key \in IRs)
      /\ \A o \in CronIRObject : o.rv \in Nat
      /\ \A o \in OwnedObject : o.rv \in Nat
  BY DEF CacheInv, TypeOK, CronIRObject, OwnedObject
<1>1. CASE wk'.call \notin Busy
  BY <1>1 DEF CopiesInv, Busy
<1>2. ASSUME wk.call \in Busy, wk'.key = wk.key, wk'.ir = wk.ir
      PROVE  VersionOf(wk'.ir, ir'[wk'.key])
  <2>1. /\ wk.key \in IRs /\ VersionOf(wk.ir, ir[wk.key])
        /\ wk.ir.rv \in Nat /\ ir[wk.key].rv \in Nat
    BY <1>0, <1>2 DEF VersionsInv, CopiesInv, Busy, Worker, TypeOK
  <2>2. ir'[wk.key] = ir[wk.key] \/ ir'[wk.key].rv = ir[wk.key].rv + 1
    BY <1>0, <2>1, EveryIRsStep, IRVersions DEF VersionsInv
  <2> QED BY <1>2, <2>1, <2>2, VersionKept
<1>3. CASE wk' = wk
  <2>1. ASSUME wk.call = "Update"
        PROVE  VersionOf(wk'.obj, obj'[Slot'])
    <3>1. Slot \in Slots /\ Slot' = Slot
      BY <1>0, <1>3, <2>1, SlotType DEF Slot, TypeOK
    <3>2. VersionOf(wk.obj, obj[Slot]) /\ wk.obj.rv \in Nat /\ obj[Slot].rv \in Nat
      BY <1>0, <2>1, <3>1 DEF VersionsInv, CopiesInv, Worker, TypeOK
    <3>3. obj'[Slot] = obj[Slot] \/ obj'[Slot].rv = obj[Slot].rv + 1
      BY <1>0, <3>1, EveryObjectsStep, ObjectVersions DEF VersionsInv
    <3> QED BY <1>3, <3>1, <3>2, <3>3, VersionKept
  <2> QED BY <1>2, <1>3, <2>1 DEF CopiesInv
<1>4. CASE GetIdlingResource
  <2>1. wk'.key = wk.key /\ wk.key \in IRs /\ ir' = ir
    BY <1>0, <1>4 DEF GetIdlingResource, Jump, FreeWorker, irVars
  <2>2. CASE irCache[wk.key].live
    <3>1. wk'.ir = irCache[wk.key] /\ wk'.call # "Update"
      BY <1>4, <2>2 DEF GetIdlingResource, Jump, FreeWorker
    <3>2. VersionOf(irCache[wk.key], ir[wk.key])
      BY <2>1 DEF VersionsInv, VersionsOf
    <3> QED BY <2>1, <3>1, <3>2 DEF CopiesInv
  <2>3. CASE ~irCache[wk.key].live
    BY <1>1, <1>4, <2>3 DEF GetIdlingResource, Jump, FreeWorker, Busy
  <2> QED BY <2>2, <2>3
<1>5. CASE AddFinalizer
  <2> DEFINE new == NextVersion(ir[wk.key], [wk.ir EXCEPT !.fin = TRUE])
  <2>1. CASE /\ WriteIR(wk.key, [wk.ir EXCEPT !.fin = TRUE])
             /\ wk' = [Jump("Get", new) EXCEPT !.part = "sa"]
    <3>1. wk.key \in IRs /\ ir \in [IRs -> CronIRObject] /\ wk.ir \in CronIRObject
      BY <1>0, <1>5 DEF AddFinalizer, TypeOK, Worker
    <3>2. new \in CronIRObject
      <4>1. [wk.ir EXCEPT !.fin = TRUE] \in CronIRObject
        BY <3>1 DEF CronIRObject
      <4> QED BY <3>1, <4>1, NextCronIRType
    <3>3. ir'[wk.key] = new
      BY <2>1, <3>1 DEF WriteIR
    <3>4. wk'.ir = new /\ wk'.key = wk.key /\ wk'.call # "Update"
      BY <2>1 DEF Jump, FreeWorker
    <3>5. VersionOf(new, new)
      BY <1>0, <3>2 DEF VersionOf
    <3> QED BY <3>3, <3>4, <3>5 DEF CopiesInv
  <2>2. CASE wk' = Jump("Err", NoCronIR)
    BY <1>1, <2>2 DEF Jump, FreeWorker, Busy
  <2> QED BY <1>5, <2>1, <2>2 DEF AddFinalizer
<1>6. CASE Get
  <2>1. /\ wk.part \in Parts /\ wk.call = "Get" /\ wk.call \in Busy /\ wk.key \in IRs
        /\ wk' = AfterGet(objCache[Slot]) /\ obj' = obj /\ WorkerTyped(wk)
    BY <1>0, <1>6, TypeParts DEF Get, TypeOK, Busy, objVars
  <2>2. AfterPart.key = wk.key /\ AfterPart.ir = wk.ir /\ AfterPart.call # "Update"
    BY <2>1, AfterPartCalls
  <2>3. \/ wk' = AfterPart
        \/ wk' = [wk EXCEPT !.call = "Create"] \/ wk' = [wk EXCEPT !.call = "Delete"]
        \/ wk' = [wk EXCEPT !.call = "Update", !.obj = objCache[Slot]]
    BY <2>1, AfterGetCases
  <2>4. /\ wk'.key = wk.key /\ wk'.ir = wk.ir
        /\ wk'.call = "Update" => wk'.obj = objCache[Slot] /\ wk'.part = wk.part
    BY <1>0, <2>2, <2>3 DEF Worker
  <2>5. VersionOf(objCache[Slot], obj[Slot])
    BY <2>1, SlotType DEF VersionsInv, VersionsOf, Slot
  <2>6. wk'.call = "Update" => Slot' = Slot
    BY <2>4 DEF Slot
  <2> QED BY <1>2, <2>1, <2>4, <2>5, <2>6 DEF CopiesInv
<1>7. CASE Create \/ Update \/ Delete
  <2>1. wk.part \in Parts /\ wk.call \in Busy
    BY <1>0, <1>7 DEF Create, Update, Delete, TypeOK, Busy
  <2>2. CASE wk' = Jump("Err", NoCronIR)
    BY <1>1, <2>2 DEF Jump, FreeWorker, Busy
  <2>3. CASE wk' = AfterPart
    <3>1. wk'.key = wk.key /\ wk'.ir = wk.ir /\ wk'.call # "Update"
      BY <2>1, <2>3, AfterPartCalls
    <3> QED BY <1>2, <2>1, <3>1 DEF CopiesInv
  <2> QED BY <1>7, <2>2, <2>3 DEF Create, Update, Delete
<1>8. CASE \/ ReconcileWithIdler \/ ReturnOk \/ ReturnRequeueAfter \/ ReturnErr
           \/ Fault \/ \E i \in IRs : Take(i)
  <2>1. CASE \E call \in {"Ok", "RequeueAfter", "Err"} : wk' = Jump(call, NoCronIR)
    BY <1>1, <2>1 DEF Jump, FreeWorker, Busy
  <2>2. CASE ReturnOk \/ ReturnRequeueAfter \/ ReturnErr
    BY <1>1, <2>2 DEF ReturnOk, ReturnRequeueAfter, ReturnErr, FreeWorker, Busy
  <2>3. ASSUME NEW i \in IRs, Take(i) PROVE CopiesInv'
    BY <1>1, <2>3 DEF Take, FreeWorker, Busy
  <2>4. CASE Fault /\ wk' = AfterPart /\ wk.call = "Get" /\ wk.part \in Commands
    <3>1. wk'.key = wk.key /\ wk'.ir = wk.ir /\ wk'.call # "Update"
      BY <2>4, AfterPartCalls, PartNames
    <3> QED BY <1>2, <2>4, <3>1 DEF CopiesInv, Busy
  <2> QED BY <1>8, <2>1, <2>2, <2>3, <2>4, FaultStep DEF ReconcileWithIdler
<1>9. CASE \/ \E j \in IRs : TimerFires(j) \/ PollFires(j) \/ DeliverIR(j)
           \/ \E k \in Slots : DeliverObject(k) \/ CollectGarbage(k)
           \/ Environment \/ UNCHANGED vars
  <2>1. wk' = wk
    BY <1>9 DEF TimerFires, PollFires, DeliverIR, DeliverObject, CollectGarbage, vars,
                Environment, Resync, CreateIR, DeleteIR, EditStrategy, DeleteObject,
                EditRole, EditJob, TouchJob, UserWritesIR, UserWritesObject
  <2> QED BY <1>3, <2>1
<1>10. CASE CrashRestart \/ Panic
  BY <1>1, <1>10 DEF CrashRestart, Panic, Restarts, FreeWorker, Busy
<1> QED BY <1>4, <1>5, <1>6, <1>7, <1>8, <1>9, <1>10 DEF Next, WorkerStep

LEMMA VersionsInit == Init => VersionsInv
<1> SUFFICES ASSUME Init PROVE VersionsInv
  OBVIOUS
<1>1. TypeOK
  BY TypedInit
<1>2. \A i \in IRs : VersionsOf(ir[i], irWatch[i], irCache[i])
  <2> TAKE i \in IRs
  <2>1. irWatch[i] = <<>> /\ irCache[i] = ir[i] /\ ir[i].rv \in Nat
    BY <1>1 DEF Init, TypeOK, CronIRObject
  <2> QED BY <2>1, VersionsListed
<1>3. \A k \in Slots : VersionsOf(obj[k], objWatch[k], objCache[k])
  <2> TAKE k \in Slots
  <2>1. objWatch[k] = <<>> /\ objCache[k] = obj[k] /\ obj[k].rv \in Nat
    BY <1>1 DEF Init, TypeOK, OwnedObject
  <2> QED BY <2>1, VersionsListed
<1>4. CopiesInv
  BY DEF Init, CopiesInv, FreeWorker, Busy
<1> QED BY <1>2, <1>3, <1>4 DEF VersionsInv

LEMMA VersionsStep ==
  ASSUME CacheInv, VersionsInv, [Next]_vars
  PROVE  VersionsInv'
<1>1. TypeOK /\ IRsStep /\ ObjectsStep
  BY EveryIRsStep, EveryObjectsStep DEF CacheInv
<1>2. \A i \in IRs : VersionsOf(ir'[i], irWatch'[i], irCache'[i])
  BY <1>1, IRVersions DEF VersionsInv
<1>3. \A k \in Slots : VersionsOf(obj'[k], objWatch'[k], objCache'[k])
  BY <1>1, ObjectVersions DEF VersionsInv
<1> QED BY <1>2, <1>3, CopiesStep DEF VersionsInv

-----------------------------------------------------------------------------
(* The contract: each step is, under the mapping of CronStrategiesContract, *)
(* a step of CronContract or none.                                         *)

(* The contract names objects as the operator does.                        *)
LEMMA NamesMapped ==
  /\ Contract!Commands = Commands /\ Contract!Parts = Parts
  /\ \A i \in IRs, p \in Parts : Contract!ToDNSName(i, p) = ToDNSName(i, p)
  /\ Contract!Names = Slots
<1>1. Contract!Commands = Commands /\ Contract!Parts = Parts
  BY DEF Contract!Commands, Commands, Contract!Parts, Parts, Contract!SuffixLength, SuffixLength
<1>2. \A i \in IRs, p \in Parts : Contract!ToDNSName(i, p) = ToDNSName(i, p)
  BY DEF Contract!ToDNSName, ToDNSName, Contract!SameName, SameName,
         Contract!Looks, Looks, Contract!Shortened, Shortened, Contract!SameBase64, SameBase64,
         Contract!FullLength, FullLength, Contract!Kept, Kept,
         Contract!PrefixLength, PrefixLength, Contract!SuffixLength, SuffixLength,
         Contract!ResourceNameLengthLimit, ResourceNameLengthLimit
<1> QED BY <1>1, <1>2 DEF Contract!Names, Slots

(* What is not written looks the same through the mapping.                 *)
LEMMA UnchangedMapped ==
  /\ UNCHANGED ir => UNCHANGED Asked
  /\ UNCHANGED obj => UNCHANGED Owned
  /\ UNCHANGED wk => UNCHANGED Order
  BY DEF Asked, Owned, Order, Todo

(* A write changes one object: version numbers are not seen.               *)
LEMMA WriteIRMapped ==
  ASSUME TypeOK, NEW i \in IRs, NEW new \in CronIRObject, WriteIR(i, new)
  PROVE  Asked' = [Asked EXCEPT ![i] = AskedBy(new)]
<1>1. ir \in [IRs -> CronIRObject] /\ ir' = [ir EXCEPT ![i] = NextVersion(ir[i], new)]
  BY DEF TypeOK, WriteIR
<1>2. AskedBy(NextVersion(ir[i], new)) = AskedBy(new)
  BY DEF AskedBy, NextVersion, CronIRObject
<1>3. \A j \in IRs : AskedBy(ir'[j]) = IF j = i THEN AskedBy(new) ELSE AskedBy(ir[j])
  BY <1>1, <1>2
<1> QED BY <1>3 DEF Asked

LEMMA WriteObjectMapped ==
  ASSUME TypeOK, NEW k \in Slots, NEW new \in OwnedObject, WriteObject(k, new)
  PROVE  Owned' = [Owned EXCEPT ![k] = Content(new)]
<1>1. obj \in [Slots -> OwnedObject] /\ obj' = [obj EXCEPT ![k] = NextVersion(obj[k], new)]
  BY DEF TypeOK, WriteObject
<1>2. Content(NextVersion(obj[k], new)) = Content(new)
  BY DEF Content, NextVersion, OwnedObject
<1>3. \A x \in Slots : Content(obj'[x]) = IF x = k THEN Content(new) ELSE Content(obj[x])
  BY <1>1, <1>2
<1> QED BY <1>3 DEF Owned

(* A reconciliation that ends has no order.                                *)
LEMMA EndsMapped ==
  ASSUME wk'.call \in Orderless
  PROVE  Order' = Contract!NoOrder
  BY DEF Order, Contract!NoOrder

(* What users write to an IdlingResource is what the contract knows.       *)
LEMMA UserAsksMapped ==
  ASSUME TypeOK, NEW i \in IRs,
         CreateIR(i) \/ DeleteIR(i) \/ \E c \in Strategies : EditStrategy(i, c)
  PROVE  Contract!UserAsks(i)
<1> DEFINE Created(new) == /\ ~ir[i].live /\ new.live /\ new.uid > ir[i].uid
                           /\ ~new.fin /\ ~new.deleting
           Edited(new) == /\ ir[i].live /\ new.live /\ new.uid = ir[i].uid
                          /\ new.fin = ir[i].fin /\ (ir[i].deleting => new.deleting)
           Gone(new) == ir[i].live /\ ~ir[i].fin /\ ~new.live
<1>1. ir[i] \in CronIRObject /\ NoCronIR \in CronIRObject
  BY NullTypes DEF TypeOK
<1>2. \E name \in Writes, new \in CronIRObject :
         UserWritesIR(name, i, new) /\ (Created(new) \/ Edited(new) \/ Gone(new))
  <2>1. CASE CreateIR(i)
    <3>1. PICK want \in Wants :
             UserWritesIR("CreateIR", i, [NoCronIR EXCEPT !.live = TRUE, !.uid = ir[i].uid + 1, !.want = want])
      BY <2>1 DEF CreateIR
    <3> DEFINE new == [NoCronIR EXCEPT !.live = TRUE, !.uid = ir[i].uid + 1, !.want = want]
    <3>2. want \in [Commands -> Schedules \cup {None}] /\ ir[i].uid \in Nat /\ ir[i].uid + 1 \in Nat
      BY <1>1 DEF Wants, CronIRObject
    <3>3. new \in CronIRObject
      BY <1>1, <3>2 DEF CronIRObject
    <3>4. Created(new)
      <4>1. ~NoCronIR.fin /\ ~NoCronIR.deleting
        BY DEF NoCronIR
      <4>2. /\ new.live /\ new.uid = ir[i].uid + 1
            /\ new.fin = NoCronIR.fin /\ new.deleting = NoCronIR.deleting
        BY <1>1 DEF CronIRObject
      <4>3. ~ir[i].live
        BY <2>1 DEF CreateIR
      <4>4. new.uid > ir[i].uid
        BY <3>2, <4>2
      <4> HIDE DEF new
      <4> QED BY <4>1, <4>2, <4>3, <4>4
    <3> HIDE DEF new
    <3>5. UserWritesIR("CreateIR", i, new)
      BY <3>1 DEF new
    <3> QED BY <3>3, <3>4, <3>5 DEF UserWritesIR
  <2>2. CASE DeleteIR(i)
    <3> DEFINE mark == [ir[i] EXCEPT !.deleting = TRUE]
    <3>1. RemovedIR(i) \in CronIRObject /\ mark \in CronIRObject
      BY <1>1 DEF RemovedIR, CronIRObject
    <3>2. ir[i].live /\ Edited(mark) /\ ~RemovedIR(i).live
      BY <1>1, <2>2 DEF DeleteIR, CronIRObject, RemovedIR, NoCronIR
    <3> HIDE DEF mark
    <3>3. CASE ir[i].fin
      <4>1. UserWritesIR("DeleteIR", i, mark)
        BY <2>2, <3>3 DEF DeleteIR, mark
      <4> QED BY <3>1, <3>2, <4>1 DEF UserWritesIR
    <3>4. CASE ~ir[i].fin
      <4>1. UserWritesIR("DeleteIR", i, RemovedIR(i))
        BY <2>2, <3>4 DEF DeleteIR
      <4> QED BY <3>1, <3>2, <3>4, <4>1 DEF UserWritesIR
    <3> QED BY <3>3, <3>4
  <2>3. ASSUME NEW c \in Strategies, EditStrategy(i, c)
        PROVE  \E name \in Writes, new \in CronIRObject :
                  UserWritesIR(name, i, new) /\ (Created(new) \/ Edited(new) \/ Gone(new))
    <3>1. PICK s \in Schedules \cup {None} :
             UserWritesIR("EditStrategy", i, [ir[i] EXCEPT !.want[c] = s])
      BY <2>3 DEF EditStrategy
    <3> DEFINE new == [ir[i] EXCEPT !.want[c] = s]
    <3>2. new \in CronIRObject /\ Edited(new)
      BY <1>1, <2>3 DEF CronIRObject, EditStrategy
    <3> HIDE DEF new
    <3>3. UserWritesIR("EditStrategy", i, new)
      BY <3>1 DEF new
    <3> QED BY <3>2, <3>3 DEF UserWritesIR
  <2> QED BY <2>1, <2>2, <2>3
<1>3. PICK name \in Writes, new \in CronIRObject :
         UserWritesIR(name, i, new) /\ (Created(new) \/ Edited(new) \/ Gone(new))
  BY <1>2
<1>4. UNCHANGED <<Owned, Order>>
  BY <1>3, UnchangedMapped DEF UserWritesIR, objVars
<1>5. Asked' = [Asked EXCEPT ![i] = AskedBy(new)] /\ Asked[i] = AskedBy(ir[i])
  BY <1>3, WriteIRMapped DEF UserWritesIR, Asked
<1>6. Asked'[i] = AskedBy(new) /\ Asked' = [Asked EXCEPT ![i] = Asked'[i]]
  BY <1>5 DEF Asked
<1> QED BY <1>3, <1>4, <1>5, <1>6 DEF Contract!UserAsks, AskedBy

(* Nor do others do more to an owned object than change or remove it.      *)
LEMMA OthersChangeMapped ==
  ASSUME TypeOK, NEW k \in Slots,
         \/ DeleteObject(k) \/ EditRole(k) \/ EditJob(k) \/ TouchJob(k)
         \/ CollectGarbage(k)
  PROVE  Contract!OthersChange(k)
<1>1. PICK new \in OwnedObject :
         /\ obj[k].live /\ WriteObject(k, new) /\ UNCHANGED <<irVars, wk>>
         /\ new.live => new.owner = obj[k].owner /\ new.uid = obj[k].uid
  <2>1. ~NoObject.live /\ NoObject \in OwnedObject
    BY NullTypes DEF NoObject
  <2>2. CASE CollectGarbage(k)
    BY <2>1, <2>2 DEF CollectGarbage, Orphan
  <2>3. CASE DeleteObject(k) \/ EditRole(k) \/ EditJob(k) \/ TouchJob(k)
    BY <2>1, <2>3, UserWritesOfObject DEF UserWritesObject
  <2> QED BY <2>2, <2>3
<1>2. UNCHANGED <<Asked, Order>>
  BY <1>1, UnchangedMapped DEF irVars
<1>3. Owned' = [Owned EXCEPT ![k] = Content(new)] /\ Owned[k] = Content(obj[k])
  BY <1>1, WriteObjectMapped DEF Owned
<1>4. Owned'[k] = Content(new) /\ Owned' = [Owned EXCEPT ![k] = Owned'[k]]
  BY <1>3 DEF Owned
<1> QED BY <1>1, <1>2, <1>3, <1>4 DEF Contract!OthersChange, Content

-----------------------------------------------------------------------------
(* The worker's steps, as the contract sees them.                          *)

PartCalls == {"Get", "Create", "Update", "Delete"}

(* What the contract's order is while the worker is at a part.             *)
LEMMA OrderAtPart ==
  ASSUME wk.call \in PartCalls
  PROVE  /\ Order = [key |-> wk.key, inst |-> AskedBy(wk.ir), todo |-> Todo]
         /\ wk.part \in Parts => /\ wk.part \in Todo
                                 /\ wk.part \in Commands => Todo \subseteq Commands
<1>1. Order = [key |-> wk.key, inst |-> AskedBy(wk.ir), todo |-> Todo]
  BY DEF Order, Orderless, PartCalls
<1>2. /\ wk.part = "sa" => Todo = Parts
      /\ wk.part = "role" => Todo = Parts \ {"sa"}
      /\ wk.part = "rb" => Todo = {"rb"} \cup Commands
      /\ wk.part = "idle" => Todo = Commands
      /\ wk.part = "wakeup" => Todo = {"wakeup"}
  BY DEF Todo, PartCalls
<1> QED BY <1>1, <1>2, PartNames DEF Commands

(* The same order while the worker stays at the part ...                   *)
LEMMA StaysMapped ==
  ASSUME wk.call \in PartCalls, wk'.call \in PartCalls,
         wk'.key = wk.key, wk'.ir = wk.ir, wk'.part = wk.part
  PROVE  UNCHANGED Order
  BY DEF Order, Todo, Orderless, PartCalls

(* ... and one part less once it goes on to the next.                      *)
LEMMA PartDone ==
  ASSUME wk.call \in PartCalls, wk.part \in Parts, wk' = AfterPart
  PROVE  Order' = [Order EXCEPT !.todo = @ \ {wk.part}]
<1>1. /\ wk'.key = wk.key /\ wk'.ir = wk.ir
      /\ wk.part = "sa" => wk'.call = "Get" /\ wk'.part = "role"
      /\ wk.part = "role" => wk'.call = "Get" /\ wk'.part = "rb"
      /\ wk.part = "rb" => wk'.call = "Get" /\ wk'.part = "idle"
      /\ wk.part = "idle" => wk'.call = "Get" /\ wk'.part = "wakeup"
      /\ wk.part = "wakeup" => wk'.call = "ReconcileWithIdler"
      /\ wk'.call = "Get" \/ wk'.call = "ReconcileWithIdler"
  <2>1. wk.part = "wakeup" => AfterPart = Jump("ReconcileWithIdler", wk.ir)
    BY DEF AfterPart
  <2>2. Jump("ReconcileWithIdler", wk.ir).call = "ReconcileWithIdler"
    BY DEF Jump, FreeWorker
  <2> QED BY <2>1, <2>2, AfterPartCalls
<1>2. Order' = [key |-> wk.key, inst |-> AskedBy(wk.ir), todo |-> Todo']
  BY <1>1 DEF Order, Orderless
<1>3. Todo' = Todo \ {wk.part}
  <2>1. CASE wk.part = "sa"
    BY <1>1, <2>1 DEF Todo, PartCalls
  <2>2. CASE wk.part = "role"
    <3>1. Todo = Parts \ {"sa"} /\ Todo' = {"rb"} \cup Commands
      BY <1>1, <2>2 DEF Todo, PartCalls
    <3> QED BY <2>2, <3>1, PartNames DEF Commands
  <2>3. CASE wk.part = "rb"
    <3>1. Todo = {"rb"} \cup Commands /\ Todo' = Commands
      BY <1>1, <2>3 DEF Todo, PartCalls
    <3> QED BY <2>3, <3>1 DEF Commands
  <2>4. CASE wk.part = "idle"
    <3>1. Todo = Commands /\ Todo' = {"wakeup"}
      BY <1>1, <2>4 DEF Todo, PartCalls
    <3> QED BY <2>4, <3>1 DEF Commands
  <2>5. CASE wk.part = "wakeup"
    <3>1. Todo' = {}
      <4>1. wk'.call # "AddFinalizer" /\ wk'.call = "ReconcileWithIdler"
        BY <1>1, <2>5
      <4> QED BY <4>1 DEF Todo
    <3>2. Todo = {"wakeup"}
      BY <2>5 DEF Todo, PartCalls
    <3> QED BY <2>5, <3>1, <3>2
  <2> QED BY <2>1, <2>2, <2>3, <2>4, <2>5, PartNames
<1> QED BY <1>2, <1>3, OrderAtPart

(* What the operator writes is what the contract says.                     *)
LEMMA ValuesMapped ==
  ASSUME TypeOK, wk.call \in PartCalls
  PROVE  /\ \A o \in OwnedObject : Content(SetValues(o)) = Contract!Values(wk.part, Content(o))
         /\ Content(NewObject) = Contract!New(wk.part)
         /\ Contract!Wanted(wk.part) <=> (wk.part \in Commands => wk.ir.want[wk.part] # None)
<1>1. /\ WorkerTyped(wk) /\ wk.call # "Free" /\ wk.part \in Parts /\ wk.key \in IRs
      /\ wk.ir \in CronIRObject
  BY TypeParts DEF WorkerTyped, PartCalls, Worker
<1>2. /\ Order.key = wk.key /\ Order.inst.uid = wk.ir.uid /\ Order.inst.want = wk.ir.want
  BY OrderAtPart DEF AskedBy
<1>3. ASSUME NEW o \in OwnedObject
      PROVE  Content(SetValues(o)) = Contract!Values(wk.part, Content(o))
  <2>1. CASE wk.part \in {"sa", "rb"}
    BY <2>1 DEF SetValues, Contract!Values, Commands, Contract!Commands
  <2>2. CASE wk.part = "role"
    <3>1. SetValues(o) = [o EXCEPT !.names = wk.key]
      BY <2>2 DEF SetValues, Commands
    <3>2. Contract!Values(wk.part, Content(o)) = [Content(o) EXCEPT !.names = wk.key]
      BY <1>2, <2>2 DEF Contract!Values, Contract!Commands
    <3> QED BY <3>1, <3>2 DEF Content, OwnedObject
  <2>3. CASE wk.part \in Commands
    <3> DEFINE sched == wk.ir.want[wk.part]
    <3>1. /\ wk.part \notin {"sa", "rb"} /\ wk.part # "role"
          /\ wk.part \in Contract!Commands
      BY <2>3, NamesMapped DEF Commands
    <3>2. Order.inst.want[wk.part] = sched
      BY <1>2
    <3>3. SetValues(o) = [o EXCEPT !.names = wk.key, !.sched = sched]
      BY <2>3, <3>1 DEF SetValues
    <3>4. Contract!Values(wk.part, Content(o))
            = [Content(o) EXCEPT !.names = wk.key, !.sched = sched]
      BY <1>2, <3>1, <3>2 DEF Contract!Values
    <3> HIDE DEF sched
    <3> QED BY <3>3, <3>4 DEF Content, OwnedObject
  <2> QED BY <1>1, <2>1, <2>2, <2>3, PartNames DEF Commands
<1>4. Content(NewObject) = Contract!New(wk.part)
  <2> DEFINE o == [NoObject EXCEPT !.live = TRUE, !.owner = wk.key, !.uid = wk.ir.uid]
  <2>1. o \in OwnedObject
    BY <1>1, NullTypes DEF NoObject, OwnedObject, CronIRObject
  <2>2. Content(o) = [live |-> TRUE, owner |-> wk.key, uid |-> wk.ir.uid,
                      names |-> None, sched |-> None]
    BY DEF Content, NoObject
  <2>3. NewObject = SetValues(o)
    BY DEF NewObject
  <2> HIDE DEF o
  <2> QED BY <1>2, <1>3, <2>1, <2>2, <2>3 DEF Contract!New
<1>5. Contract!Wanted(wk.part) <=> (wk.part \in Commands => wk.ir.want[wk.part] # None)
  BY <1>2, NamesMapped DEF Contract!Wanted
<1> QED BY <1>3, <1>4, <1>5

(* The API server accepts an update of what is still as it was read.       *)
LEMMA AcceptedIsRead ==
  ASSUME VersionsInv, wk.call \in Busy
  PROVE  /\ CanUpdate(ir[wk.key], wk.ir) => ir[wk.key] = wk.ir
         /\ wk.call = "Update" /\ CanUpdate(obj[Slot], wk.obj) => obj[Slot] = wk.obj
  BY DEF VersionsInv, CopiesInv, VersionOf, CanUpdate

LEMMA TakeOrderMapped ==
  ASSUME TypeOK, GetIdlingResource
  PROVE  (\E i \in IRs : Contract!TakeOrder(i)) \/ UNCHANGED Contract!contractVars
<1> DEFINE i == wk.key  inst == irCache[i]
<1>1. i \in IRs /\ wk.call = "GetIdlingResource" /\ Order = Contract!NoOrder
  BY DEF TypeOK, GetIdlingResource, Order, Orderless, Contract!NoOrder
<1>2. UNCHANGED <<Asked, Owned>>
  BY UnchangedMapped DEF GetIdlingResource, irVars, objVars
<1>3. CASE ~inst.live
  <2>1. wk'.call = "Ok"
    BY <1>3 DEF GetIdlingResource, Jump, FreeWorker
  <2> QED BY <1>1, <1>2, <2>1, EndsMapped DEF Orderless, Contract!contractVars
<1>4. CASE inst.live
  <2>1. /\ wk'.call = "AddFinalizer" \/ (wk'.call = "Get" /\ wk'.part = "sa")
        /\ wk'.key = i /\ wk'.ir = inst
    BY <1>4 DEF GetIdlingResource, Jump, FreeWorker
  <2>2. Order' = [key |-> i, inst |-> AskedBy(inst), todo |-> Todo'] /\ Todo' = Parts
    BY <2>1 DEF Order, Orderless, Todo
  <2>3. Order'.key = i /\ Order'.inst = AskedBy(inst) /\ AskedBy(inst).live /\ Order'.todo = Parts
    BY <1>4, <2>2 DEF AskedBy
  <2>4. Contract!TakeOrder(i)
    BY <1>1, <1>2, <2>3, NamesMapped DEF Contract!TakeOrder
  <2> QED BY <1>1, <2>4
<1> QED BY <1>3, <1>4

(* The finalizer is added under an order that is the stored version.       *)
LEMMA FinalizeMapped ==
  ASSUME TypeOK, VersionsInv, AddFinalizer
  PROVE  (\E i \in IRs : Contract!Finalize(i)) \/ Contract!DropOrder
<1> DEFINE i == wk.key  new == [wk.ir EXCEPT !.fin = TRUE]
<1>1. /\ i \in IRs /\ wk.ir \in CronIRObject /\ ir \in [IRs -> CronIRObject]
      /\ wk.call = "AddFinalizer" /\ wk.call \in Busy
      /\ Order = [key |-> i, inst |-> AskedBy(wk.ir), todo |-> Parts]
  BY DEF TypeOK, Worker, AddFinalizer, Order, Orderless, Todo, Busy
<1>2. UNCHANGED Owned
  BY UnchangedMapped DEF AddFinalizer, objVars
<1>3. CASE CanUpdate(ir[i], wk.ir)
  <2>1. ir[i] = wk.ir
    BY <1>1, <1>3, AcceptedIsRead
  <2>2. /\ new \in CronIRObject /\ AskedBy(new).fin
        /\ AskedBy(new) = [AskedBy(wk.ir) EXCEPT !.fin = AskedBy(new).fin]
    <3>1. /\ new \in CronIRObject /\ new.live = wk.ir.live /\ new.uid = wk.ir.uid
          /\ new.deleting = wk.ir.deleting /\ new.want = wk.ir.want
      BY <1>1 DEF CronIRObject
    <3>2. AskedBy(new).fin
      BY <1>1 DEF AskedBy, CronIRObject
    <3> HIDE DEF new
    <3>3. AskedBy(new) = [AskedBy(wk.ir) EXCEPT !.fin = AskedBy(new).fin]
      BY <3>1 DEF AskedBy
    <3> QED BY <3>1, <3>2, <3>3
  <2>3. /\ WriteIR(i, new)
        /\ wk' = [Jump("Get", NextVersion(ir[i], new)) EXCEPT !.part = "sa"]
    BY <1>3 DEF AddFinalizer
  <2>4. /\ Asked' = [Asked EXCEPT ![i] = AskedBy(new)] /\ Asked[i] = AskedBy(wk.ir)
        /\ Asked'[i] = AskedBy(new)
    <3> HIDE DEF new
    <3>1. Asked' = [Asked EXCEPT ![i] = AskedBy(new)]
      BY <1>1, <2>2, <2>3, WriteIRMapped
    <3> QED BY <1>1, <2>1, <3>1 DEF Asked
  <2>5. AskedBy(NextVersion(ir[i], new)) = AskedBy(new)
    BY <1>1, <2>2 DEF AskedBy, NextVersion, CronIRObject
  <2>6. /\ wk'.call = "Get" /\ wk'.part = "sa" /\ wk'.key = i
        /\ wk'.ir = NextVersion(ir[i], new)
    BY <2>3 DEF Jump, FreeWorker
  <2> HIDE DEF new
  <2>7. Order' = [key |-> i, inst |-> Asked'[i], todo |-> Parts]
    BY <2>4, <2>5, <2>6 DEF Order, Orderless, Todo
  <2>8. Asked'[i].fin /\ Asked' = [Asked EXCEPT ![i].fin = Asked'[i].fin]
    BY <2>2, <2>4
  <2>9. Order.key = i /\ Order.inst = Asked[i] /\ Order' = [Order EXCEPT !.inst = Asked'[i]]
    BY <1>1, <2>4, <2>7
  <2> QED BY <1>1, <1>2, <2>8, <2>9 DEF Contract!Finalize
<1>4. CASE ~CanUpdate(ir[i], wk.ir)
  <2>1. wk'.call = "Err" /\ UNCHANGED Asked
    BY <1>4, UnchangedMapped DEF AddFinalizer, Jump, FreeWorker, irVars
  <2> QED BY <1>2, <2>1, EndsMapped DEF Orderless, Contract!DropOrder
<1> QED BY <1>3, <1>4

(* It is removed under such an order too, and only in a deletion.          *)
LEMMA RemoveMapped ==
  ASSUME TypeOK, VersionsInv, ReconcileWithIdler
  PROVE  (\E i \in IRs : Contract!Remove(i)) \/ Contract!DropOrder
<1> DEFINE i == wk.key
<1>1. /\ i \in IRs /\ wk.ir \in CronIRObject /\ ir \in [IRs -> CronIRObject]
      /\ wk.call \in Busy /\ wk.call = "ReconcileWithIdler"
      /\ Order.key = i /\ Order.inst = AskedBy(wk.ir)
  BY DEF TypeOK, Worker, ReconcileWithIdler, Order, Orderless, Busy
<1>2. UNCHANGED Owned
  BY UnchangedMapped DEF ReconcileWithIdler, objVars
<1>3. wk'.call \in {"Ok", "RequeueAfter", "Err"} /\ Order' = Contract!NoOrder
  <2>1. wk'.call \in {"Ok", "RequeueAfter", "Err"}
    BY DEF ReconcileWithIdler, Jump, FreeWorker
  <2> QED BY <2>1, EndsMapped DEF Orderless
<1>4. CASE UNCHANGED irVars
  BY <1>2, <1>3, <1>4, UnchangedMapped DEF irVars, Contract!DropOrder
<1>5. CASE /\ wk.ir.deleting /\ CanUpdate(ir[i], wk.ir) /\ WriteIR(i, RemovedIR(i))
  <2>1. ir[i] = wk.ir /\ Asked[i] = Order.inst /\ Order.inst.deleting
    <3>1. ir[i] = wk.ir
      BY <1>1, <1>5, AcceptedIsRead
    <3>2. AskedBy(wk.ir).deleting
      BY <1>5 DEF AskedBy
    <3> QED BY <1>1, <3>1, <3>2 DEF Asked
  <2>2. RemovedIR(i) \in CronIRObject /\ ~RemovedIR(i).live /\ RemovedIR(i).uid = ir[i].uid
    BY <1>1, NullTypes DEF RemovedIR, CronIRObject, NoCronIR
  <2>3. Asked' = [Asked EXCEPT ![i] = AskedBy(RemovedIR(i))]
    BY <1>1, <1>5, <2>2, WriteIRMapped
  <2>4. /\ Asked'[i] = AskedBy(RemovedIR(i)) /\ Asked[i] = AskedBy(ir[i])
        /\ Asked' = [Asked EXCEPT ![i] = Asked'[i]]
    BY <1>1, <2>3 DEF Asked
  <2>5. ~Asked'[i].live /\ Asked'[i].uid = Asked[i].uid
    BY <2>2, <2>4 DEF AskedBy
  <2> QED BY <1>1, <1>2, <1>3, <2>1, <2>4, <2>5 DEF Contract!Remove
<1> QED BY <1>4, <1>5 DEF ReconcileWithIdler

(* The worker goes on to the next part: it has seen to this one.           *)
LEMMA SeesTo ==
  ASSUME TypeOK, wk.call \in PartCalls, wk' = AfterPart, UNCHANGED irVars,
         LET k == ToDNSName(wk.key, wk.part)
         IN  \/ Contract!Provide(wk.part, k) \/ Contract!Repair(wk.part, k)
             \/ Contract!Withdraw(wk.part, k) \/ Contract!PassOver(wk.part)
  PROVE  \E p \in Parts : Contract!SeeTo(p)
<1>1. wk.part \in Parts /\ wk.key \in IRs
  BY DEF TypeOK, PartCalls
<1>2. /\ Order.key = wk.key /\ wk.part \in Order.todo
      /\ wk.part \in Commands => Order.todo \subseteq Commands
  BY <1>1, OrderAtPart
<1>3. UNCHANGED Asked
  BY UnchangedMapped DEF irVars
<1>4. Contract!SeeTo(wk.part)
  BY <1>1, <1>2, <1>3, PartDone, NamesMapped DEF Contract!SeeTo
<1> QED BY <1>1, <1>4

(* A Get decides what is to be done, and passes over nothing that is.      *)
LEMMA GetMapped ==
  ASSUME CacheInv, Get
  PROVE  (\E p \in Parts : Contract!SeeTo(p)) \/ UNCHANGED Contract!contractVars
<1> DEFINE o == objCache[Slot]
<1>1. /\ TypeOK /\ WorkerTyped(wk) /\ wk \in Worker /\ wk.part \in Parts
      /\ wk.call \in PartCalls /\ wk' = AfterGet(o)
      /\ UNCHANGED <<irVars, Owned>>
  BY TypeParts, UnchangedMapped DEF CacheInv, Get, TypeOK, PartCalls, objVars
<1>2. CASE wk' = AfterPart /\ (wk.part \in {"sa", "rb"} \/ ~Contract!Wanted(wk.part))
  BY <1>1, <1>2, SeesTo DEF Contract!PassOver
<1>3. CASE \/ wk' = [wk EXCEPT !.call = "Create"] \/ wk' = [wk EXCEPT !.call = "Delete"]
           \/ wk' = [wk EXCEPT !.call = "Update", !.obj = o]
  <2>1. /\ wk'.call \in PartCalls /\ wk'.key = wk.key /\ wk'.ir = wk.ir
        /\ wk'.part = wk.part
    BY <1>1, <1>3 DEF PartCalls, Worker
  <2> QED BY <1>1, <2>1, StaysMapped, UnchangedMapped DEF Contract!contractVars, irVars
<1>4. CASE wk.part \in {"sa", "rb"}
  <2>1. wk' = AfterPart \/ wk' = [wk EXCEPT !.call = "Create"]
    BY <1>1, <1>4 DEF AfterGet, Commands
  <2> QED BY <1>2, <1>3, <1>4, <2>1
<1>5. CASE wk.part = "role"
  <2>1. \/ wk' = [wk EXCEPT !.call = "Create"]
        \/ wk' = [wk EXCEPT !.call = "Update", !.obj = o]
    BY <1>1, <1>5 DEF AfterGet, Commands
  <2> QED BY <1>3, <2>1
<1>6. CASE wk.part \in Commands
  <2>1. wk.part \notin {"sa", "rb"} /\ wk.part # "role"
    BY <1>6 DEF Commands
  <2>2. CASE wk.ir.want[wk.part] # None
    BY <1>1, <1>3, <1>6, <2>1, <2>2 DEF AfterGet, cronJobNeedChanges
  <2>3. CASE wk.ir.want[wk.part] = None
    <3>1. ~Contract!Wanted(wk.part)
      BY <1>1, <1>6, <2>3, ValuesMapped
    <3> QED BY <1>1, <1>2, <1>3, <1>6, <2>1, <2>3, <3>1 DEF AfterGet
  <2> QED BY <2>2, <2>3
<1> QED BY <1>1, <1>4, <1>5, <1>6, PartNames DEF Commands

(* The writes are of the contract's shapes, or are refused.                *)
LEMMA WritesMapped ==
  ASSUME CacheInv, VersionsInv, Create \/ Update \/ Delete
  PROVE  (\E p \in Parts : Contract!SeeTo(p)) \/ Contract!DropOrder
<1>1. /\ TypeOK /\ WorkerInv /\ WorkerTyped(wk) /\ wk.call # "Free"
      /\ wk.call \in PartCalls /\ wk.part \in Parts
      /\ UNCHANGED irVars /\ Slot \in Slots /\ Slot = ToDNSName(wk.key, wk.part)
  BY TypeParts, SlotType DEF CacheInv, Create, Update, Delete, TypeOK, PartCalls, Slot
<1>2. obj \in [Slots -> OwnedObject] /\ \A k \in Slots : Owned[k] = Content(obj[k])
  BY <1>1 DEF TypeOK, Owned
<1>3. ASSUME wk' = Jump("Err", NoCronIR), UNCHANGED objVars
      PROVE  Contract!DropOrder
  <2>1. wk'.call = "Err"
    BY <1>3 DEF Jump, FreeWorker
  <2> QED BY <1>1, <1>3, <2>1, EndsMapped, UnchangedMapped
          DEF Orderless, Contract!DropOrder, irVars, objVars
<1>4. Owned[Slot].live <=> obj[Slot].live
  <2>1. Owned[Slot] = Content(obj[Slot])
    BY <1>1, <1>2
  <2>2. Content(obj[Slot]).live <=> obj[Slot].live
    BY DEF Content
  <2> QED BY <2>1, <2>2
<1>5. CASE Create /\ WriteObject(Slot, NewObject) /\ wk' = AfterPart /\ ~obj[Slot].live
  <2>1. Contract!Wanted(wk.part)
    BY <1>1, <1>5, ValuesMapped DEF WorkerInv, Create
  <2>2. Owned' = [Owned EXCEPT ![Slot] = Contract!New(wk.part)]
    BY <1>1, <1>5, NewObjectType, WriteObjectMapped, ValuesMapped
  <2>3. ~Owned[Slot].live
    BY <1>5, <1>4
  <2> QED BY <1>1, <1>5, <2>1, <2>2, <2>3, SeesTo DEF Contract!Provide
<1>6. CASE /\ Update /\ CanUpdate(obj[Slot], wk.obj)
           /\ WriteObject(Slot, SetValues(wk.obj)) /\ wk' = AfterPart
  <2>1. wk.call \in Busy /\ wk.call = "Update"
    BY <1>6 DEF Update, Busy
  <2>2. Contract!Wanted(wk.part)
    BY <1>1, <2>1, ValuesMapped DEF WorkerInv
  <2>3. obj[Slot] = wk.obj /\ obj[Slot].live
    BY <1>6, <2>1, AcceptedIsRead DEF CanUpdate
  <2>4. wk.obj \in OwnedObject /\ SetValues(wk.obj) \in OwnedObject
    BY <1>1, <1>2, <2>3, SetValuesType
  <2>5. Content(SetValues(wk.obj)) = Contract!Values(wk.part, Owned[Slot])
    BY <1>1, <1>2, <2>3, <2>4, ValuesMapped
  <2>6. Owned' = [Owned EXCEPT ![Slot] = Contract!Values(wk.part, Owned[Slot])]
    BY <1>1, <1>6, <2>4, <2>5, WriteObjectMapped
  <2>7. Owned[Slot].live
    BY <1>4, <2>3
  <2> QED BY <1>1, <1>6, <2>2, <2>6, <2>7, SeesTo DEF Contract!Repair
<1>7. CASE Delete
  <2>1. ~Contract!Wanted(wk.part) /\ wk' = AfterPart
    BY <1>1, <1>7, ValuesMapped DEF WorkerInv, Delete
  <2>2. CASE obj[Slot].live
    <3>1. NoObject \in OwnedObject /\ ~Content(NoObject).live
      BY NullTypes DEF NoObject, Content
    <3>2. Owned' = [Owned EXCEPT ![Slot] = Content(NoObject)]
      BY <1>1, <1>7, <2>2, <3>1, WriteObjectMapped DEF Delete
    <3>3. Owned'[Slot] = Content(NoObject)
      BY <1>1, <3>2 DEF Owned
    <3> QED BY <1>1, <2>1, <3>1, <3>2, <3>3, SeesTo DEF Contract!Withdraw
  <2>3. CASE ~obj[Slot].live
    <3>1. UNCHANGED Owned
      BY <1>7, <2>3, UnchangedMapped DEF Delete, objVars
    <3> QED BY <1>1, <2>1, <3>1, SeesTo DEF Contract!PassOver
  <2> QED BY <2>2, <2>3
<1> QED BY <1>3, <1>5, <1>6, <1>7 DEF Create, Update

(* What empties the worker's memory drops the order.                       *)
LEMMA DropsMapped ==
  ASSUME UNCHANGED <<ir, obj>>, wk'.call \in Orderless
  PROVE  Contract!DropOrder
  BY EndsMapped, UnchangedMapped DEF Contract!DropOrder

-----------------------------------------------------------------------------
(* The refinement.                                                         *)

LEMMA ContractInit == Init => Contract!Init
<1> SUFFICES ASSUME Init PROVE Contract!Init
  OBVIOUS
<1>1. \A i \in IRs : ~Asked[i].fin /\ ~Asked[i].deleting
  <2>1. \A o \in InitialIRs : ~o.fin /\ ~o.deleting
    <3>1. ~NoCronIR.fin /\ ~NoCronIR.deleting
      BY DEF NoCronIR
    <3>2. \A want : LET o == [NoCronIR EXCEPT !.live = TRUE, !.uid = 1, !.want = want, !.rv = 1]
                    IN  ~o.fin /\ ~o.deleting
      BY DEF NoCronIR
    <3> QED BY <3>1, <3>2 DEF InitialIRs
  <2>2. \A i \in IRs : ir[i] \in InitialIRs
    BY DEF Init
  <2> QED BY <2>1, <2>2 DEF Asked, AskedBy
<1>2. \A k \in Slots : ~Owned[k].live
  <2>1. \A k \in Slots : obj[k] = NoObject
    BY DEF Init
  <2> QED BY <2>1 DEF Owned, Content, NoObject
<1>3. Order = Contract!NoOrder
  BY DEF Init, FreeWorker, Order, Orderless, Contract!NoOrder
<1> QED BY <1>1, <1>2, <1>3, NamesMapped DEF Contract!Init

(* Every step of the operator is one of the contract, or none.             *)
LEMMA ContractStep ==
  CacheInv /\ VersionsInv /\ [Next]_vars => [Contract!Next]_(Contract!contractVars)
<1> SUFFICES ASSUME CacheInv, VersionsInv, [Next]_vars
             PROVE  Contract!Next \/ UNCHANGED Contract!contractVars
  OBVIOUS
<1>1. TypeOK
  BY DEF CacheInv
<1>2. CASE UNCHANGED <<ir, obj, wk>>
  BY <1>2, UnchangedMapped DEF Contract!contractVars
<1>3. CASE Contract!DropOrder \/ \E p \in Parts : Contract!SeeTo(p)
  BY <1>3, NamesMapped DEF Contract!Next
<1>4. CASE WorkerStep
  <2>1. CASE GetIdlingResource
    BY <1>1, <2>1, TakeOrderMapped DEF Contract!Next
  <2>2. CASE AddFinalizer
    BY <1>1, <2>2, FinalizeMapped DEF Contract!Next
  <2>3. CASE Get
    BY <1>3, <2>3, GetMapped
  <2>4. CASE Create \/ Update \/ Delete
    BY <1>3, <2>4, WritesMapped
  <2>5. CASE ReconcileWithIdler
    BY <1>1, <2>5, RemoveMapped DEF Contract!Next
  <2>6. CASE ReturnOk \/ ReturnRequeueAfter \/ ReturnErr
    <3>1. UNCHANGED <<ir, obj>> /\ wk'.call \in Orderless
      BY <2>6 DEF ReturnOk, ReturnRequeueAfter, ReturnErr, FreeWorker, Orderless, irVars, objVars
    <3> QED BY <1>3, <3>1, DropsMapped
  <2> QED BY <1>4, <2>1, <2>2, <2>3, <2>4, <2>5, <2>6 DEF WorkerStep
<1>5. CASE Environment
  <2>1. CASE Resync
    BY <1>2, <2>1 DEF Resync, irVars, objVars
  <2>2. CASE \E i \in IRs : CreateIR(i) \/ DeleteIR(i) \/ \E c \in Strategies : EditStrategy(i, c)
    BY <1>1, <2>2, UserAsksMapped DEF Contract!Next
  <2>3. CASE \E k \in Slots : DeleteObject(k) \/ EditRole(k) \/ EditJob(k) \/ TouchJob(k)
    BY <1>1, <2>3, OthersChangeMapped, NamesMapped DEF Contract!Next
  <2> QED BY <1>5, <2>1, <2>2, <2>3 DEF Environment
<1>6. CASE \E k \in Slots : CollectGarbage(k)
  BY <1>1, <1>6, OthersChangeMapped, NamesMapped DEF Contract!Next
<1>7. CASE CrashRestart \/ Panic \/ Fault \/ \E i \in IRs : Take(i)
  <2>1. UNCHANGED <<ir, obj>>
    BY <1>7 DEF CrashRestart, Panic, Restarts, Fault, Take, irVars, objVars
  <2>2. CASE Fault
    <3>1. CASE wk' = Jump("Err", NoCronIR)
      <4>1. wk'.call = "Err"
        BY <3>1 DEF Jump, FreeWorker
      <4> QED BY <1>3, <2>1, <4>1, DropsMapped DEF Orderless
    <3>2. CASE /\ wk.call = "Get" /\ wk.part \in Commands /\ wk.ir.want[wk.part] = None
               /\ wk' = AfterPart /\ UNCHANGED <<irVars, objVars>>
      <4>1. WorkerTyped(wk) /\ wk.part \in Parts /\ wk.call \in PartCalls /\ UNCHANGED Owned
        BY <1>1, <3>2, TypeParts, PartNames, UnchangedMapped DEF PartCalls, objVars
      <4>2. ~Contract!Wanted(wk.part)
        BY <1>1, <3>2, <4>1, ValuesMapped
      <4> QED BY <1>1, <1>3, <3>2, <4>1, <4>2, SeesTo DEF Contract!PassOver
    <3> QED BY <2>2, <3>1, <3>2, FaultStep
  <2>3. CASE CrashRestart \/ Panic
    <3>1. wk'.call = "Free"
      BY <2>3 DEF CrashRestart, Panic, Restarts, FreeWorker
    <3> QED BY <1>3, <2>1, <3>1, DropsMapped DEF Orderless
  <2>4. ASSUME NEW i \in IRs, Take(i)
        PROVE  Contract!Next \/ UNCHANGED Contract!contractVars
    <3>1. wk'.call = "GetIdlingResource"
      BY <2>4 DEF Take, FreeWorker
    <3> QED BY <1>3, <2>1, <3>1, DropsMapped DEF Orderless
  <2> QED BY <1>7, <2>2, <2>3, <2>4
<1>8. CASE \/ \E i \in IRs : TimerFires(i) \/ PollFires(i) \/ DeliverIR(i)
           \/ \E k \in Slots : DeliverObject(k)
  BY <1>2, <1>8 DEF TimerFires, PollFires, DeliverIR, DeliverObject, irVars, objVars
<1> QED BY <1>2, <1>4, <1>5, <1>6, <1>7, <1>8 DEF Next, vars, irVars, objVars

(* The cron strategies implement their contract: each object is created,   *)
(* rewritten or deleted under an order, at most once and in its turn; the  *)
(* content is what the order asks for; a role and a wanted CronJob are not *)
(* passed over on a cache's word; and neither finalizer nor object is      *)
(* written over what has happened since it was read.                       *)
THEOREM ContractImplemented == Spec => ImplementsContract
<1>1. Init => Contract!Init /\ CacheInv /\ VersionsInv
  BY ContractInit, CacheInit, VersionsInit
<1>2. CacheInv /\ VersionsInv /\ [Next]_vars
        => CacheInv' /\ VersionsInv' /\ [Contract!Next]_(Contract!contractVars)
  BY CacheStep, VersionsStep, ContractStep
<1> QED BY <1>1, <1>2, PTL DEF Spec, ImplementsContract, Contract!Spec

-----------------------------------------------------------------------------
(* Deletions that never end.                                               *)

(* The API server does not let it go before its finalizer is removed.      *)
Held(i) == ir[i].live /\ ir[i].fin

(* It asks for a CronJob that the API server does not take.                *)
Refuses(i, inst, c) ==
    inst.want[c] # None /\ (inst.want[c] \in Invalid \/ Length(i, c) > 52)

AsksForRefused(i) == \E c \in Commands : Refuses(i, ir[i], c)

(* The worker has not come past a CronJob that is refused.                 *)
PassedInv ==
    /\ (wk.call \in PartCalls /\ wk.part = "wakeup") \/ wk.call = "ReconcileWithIdler"
          => ~Refuses(wk.key, wk.ir, "idle")
    /\ wk.call = "ReconcileWithIdler" => ~Refuses(wk.key, wk.ir, "wakeup")

LEMMA PassedPart ==
  ASSUME PassedInv, wk.call \in PartCalls, wk.part \in Parts,
         wk.part \in Commands => ~Refuses(wk.key, wk.ir, wk.part), wk' = AfterPart
  PROVE  PassedInv'
<1>1. CASE wk.part \in {"sa", "role", "rb"}
  <2>1. wk'.call = "Get" /\ wk'.part \in {"role", "rb", "idle"}
    BY <1>1, AfterPartCalls
  <2> QED BY <2>1 DEF PassedInv
<1>2. CASE wk.part = "idle"
  <2>1. wk'.call = "Get" /\ wk'.key = wk.key /\ wk'.ir = wk.ir
    BY <1>2, AfterPartCalls
  <2>2. ~Refuses(wk'.key, wk'.ir, "idle")
    BY <1>2, <2>1 DEF Commands
  <2> QED BY <2>1, <2>2 DEF PassedInv, Refuses
<1>3. CASE wk.part = "wakeup"
  <2>1. wk'.key = wk.key /\ wk'.ir = wk.ir
    BY <1>3, AfterPartCalls
  <2>2. ~Refuses(wk'.key, wk'.ir, "idle") /\ ~Refuses(wk'.key, wk'.ir, "wakeup")
    BY <1>3, <2>1 DEF PassedInv, Commands
  <2> QED BY <2>2 DEF PassedInv, Refuses
<1> QED BY <1>1, <1>2, <1>3, PartNames

LEMMA PassedStep ==
  ASSUME CacheInv, PassedInv, [Next]_vars
  PROVE  PassedInv'
<1>0. TypeOK /\ WorkerInv /\ wk \in Worker
  BY DEF CacheInv, TypeOK
<1>1. CASE wk' = wk
  BY <1>1 DEF PassedInv, Refuses
<1>2. CASE wk'.call \notin PartCalls \cup {"ReconcileWithIdler"}
  BY <1>2 DEF PassedInv
<1>3. \A call, inst : Jump(call, inst).call = call
  BY DEF Jump, FreeWorker
<1>4. CASE Get
  <2>1. wk.call = "Get" /\ wk.part \in Parts /\ wk' = AfterGet(objCache[Slot])
    BY <1>0, <1>4 DEF Get, TypeOK
  <2>2. CASE wk' = AfterPart
    <3>1. wk.part \in Commands => ~Refuses(wk.key, wk.ir, wk.part)
      <4> SUFFICES ASSUME wk.part \in Commands, wk.ir.want[wk.part] # None PROVE FALSE
        BY DEF Refuses
      <4>1. wk' \in {[wk EXCEPT !.call = "Create"],
                     [wk EXCEPT !.call = "Update", !.obj = objCache[Slot]]}
        BY <2>1 DEF AfterGet, Commands, cronJobNeedChanges
      <4> QED BY <1>0, <2>1, <2>2, <4>1, AfterPartCalls DEF Worker
    <3> QED BY <2>1, <2>2, <3>1, PassedPart DEF PartCalls
  <2>3. CASE wk' # AfterPart
    <3>1. \/ wk' = [wk EXCEPT !.call = "Create"] \/ wk' = [wk EXCEPT !.call = "Delete"]
          \/ wk' = [wk EXCEPT !.call = "Update", !.obj = objCache[Slot]]
      BY <1>0, <2>1, <2>3, AfterGetCases, TypeParts
    <3>2. /\ wk'.call \in {"Create", "Update", "Delete"}
          /\ wk'.part = wk.part /\ wk'.key = wk.key /\ wk'.ir = wk.ir
      BY <1>0, <3>1 DEF Worker
    <3> QED BY <2>1, <3>2 DEF PassedInv, PartCalls, Refuses
  <2> QED BY <2>2, <2>3
<1>5. CASE Create \/ Update \/ Delete
  <2>1. wk.part \in Parts /\ wk.call \in PartCalls
    BY <1>0, <1>5 DEF Create, Update, Delete, TypeOK, PartCalls
  <2>2. CASE wk' = Jump("Err", NoCronIR)
    BY <1>2, <1>3, <2>2 DEF PartCalls
  <2>3. CASE wk' # Jump("Err", NoCronIR)
    <3>1. wk' = AfterPart
      BY <1>5, <2>3 DEF Create, Update, Delete
    <3>2. wk.part \in Commands => ~Refuses(wk.key, wk.ir, wk.part)
      <4>1. CASE Create \/ Update
        BY <2>3, <4>1 DEF Create, Update, Refused, Refuses
      <4>2. CASE Delete
        BY <1>0, <4>2 DEF Delete, WorkerInv, Refuses
      <4> QED BY <1>5, <4>1, <4>2
    <3> QED BY <2>1, <3>1, <3>2, PassedPart
  <2> QED BY <2>2, <2>3
<1>6. CASE AddFinalizer \/ GetIdlingResource \/ ReconcileWithIdler
  <2>1. \/ \E call \in {"AddFinalizer", "Ok", "RequeueAfter", "Err"} :
              \E inst : wk' = Jump(call, inst)
        \/ \E inst : wk' = [Jump("Get", inst) EXCEPT !.part = "sa"]
    BY <1>6 DEF AddFinalizer, GetIdlingResource, ReconcileWithIdler
  <2>2. CASE \E inst : wk' = [Jump("Get", inst) EXCEPT !.part = "sa"]
    <3>1. wk'.call = "Get" /\ wk'.part = "sa"
      BY <2>2 DEF Jump, FreeWorker
    <3> QED BY <3>1 DEF PassedInv
  <2> QED BY <1>2, <1>3, <2>1, <2>2 DEF PartCalls
<1>7. CASE ReturnOk \/ ReturnRequeueAfter \/ ReturnErr \/ CrashRestart \/ Panic
  <2>1. wk' = FreeWorker
    BY <1>7 DEF ReturnOk, ReturnRequeueAfter, ReturnErr, CrashRestart, Panic, Restarts
  <2> QED BY <1>2, <2>1 DEF FreeWorker, PartCalls
<1>8. CASE \E i \in IRs : Take(i)
  <2>1. wk'.call = "GetIdlingResource"
    BY <1>8 DEF Take, FreeWorker
  <2> QED BY <1>2, <2>1 DEF PartCalls
<1>9. CASE \/ \E i \in IRs : TimerFires(i) \/ PollFires(i) \/ DeliverIR(i)
           \/ \E k \in Slots : DeliverObject(k) \/ CollectGarbage(k)
           \/ Environment \/ UNCHANGED vars
  <2>1. wk' = wk
    BY <1>9 DEF TimerFires, PollFires, DeliverIR, DeliverObject, CollectGarbage, vars,
                Environment, Resync, CreateIR, DeleteIR, EditStrategy, DeleteObject,
                EditRole, EditJob, TouchJob, UserWritesIR, UserWritesObject
  <2> QED BY <1>1, <2>1
<1>10. CASE Fault
  <2>1. CASE wk' = Jump("Err", NoCronIR)
    BY <1>2, <1>3, <2>1 DEF PartCalls
  <2>2. CASE /\ wk.call = "Get" /\ wk.part \in Commands /\ wk.ir.want[wk.part] = None
             /\ wk' = AfterPart
    BY <2>2, PassedPart, PartNames DEF PartCalls, Refuses
  <2> QED BY <1>10, <2>1, <2>2, FaultStep
<1> QED BY <1>4, <1>5, <1>6, <1>7, <1>8, <1>9, <1>10 DEF Next, WorkerStep

LEMMA HeldKept ==
  ASSUME CacheInv, VersionsInv, PassedInv, [Next]_vars, NEW i \in IRs,
         Held(i), AsksForRefused(i)
  PROVE  Held(i)'
<1>1. TypeOK /\ ir \in [IRs -> CronIRObject] /\ ir[i] \in CronIRObject
  BY DEF CacheInv, TypeOK
<1>2. ASSUME NEW new \in CronIRObject, new.live, new.fin, WriteIR(i, new)
      PROVE  Held(i)'
  BY <1>1, <1>2 DEF WriteIR, NextVersion, CronIRObject, Held
<1>3. ASSUME NEW j \in IRs, NEW new, WriteIR(j, new), j # i
      PROVE  Held(i)'
  BY <1>1, <1>3 DEF WriteIR, Held
<1>4. ASSUME NEW j \in IRs,
             CreateIR(j) \/ DeleteIR(j) \/ \E c \in Strategies : EditStrategy(j, c)
      PROVE  Held(i)'
  <2>1. CASE j # i
    BY <1>3, <1>4, <2>1 DEF CreateIR, DeleteIR, EditStrategy, UserWritesIR
  <2>2. CASE j = i /\ DeleteIR(i)
    <3>1. LET new == [ir[i] EXCEPT !.deleting = TRUE] IN
          new \in CronIRObject /\ new.live /\ new.fin /\ WriteIR(i, new)
      BY <1>1, <2>2 DEF DeleteIR, UserWritesIR, CronIRObject, Held
    <3> QED BY <1>2, <3>1
  <2>3. ASSUME NEW c \in Strategies, EditStrategy(i, c) PROVE Held(i)'
    <3>1. PICK s \in Schedules \cup {None} : WriteIR(i, [ir[i] EXCEPT !.want[c] = s])
      BY <2>3 DEF EditStrategy, UserWritesIR
    <3>2. LET new == [ir[i] EXCEPT !.want[c] = s] IN
          new \in CronIRObject /\ new.live /\ new.fin
      BY <1>1 DEF CronIRObject, Held
    <3> QED BY <1>2, <3>1, <3>2
  <2> QED BY <1>4, <2>1, <2>2, <2>3 DEF CreateIR, Held
<1>5. CASE AddFinalizer
  <2>1. wk.key \in IRs /\ wk.call \in Busy
    BY <1>1, <1>5 DEF AddFinalizer, TypeOK, Busy
  <2>2. CASE UNCHANGED irVars
    BY <2>2 DEF irVars, Held
  <2>3. CASE ~UNCHANGED irVars
    <3>1. CanUpdate(ir[wk.key], wk.ir) /\ WriteIR(wk.key, [wk.ir EXCEPT !.fin = TRUE])
      BY <1>5, <2>3 DEF AddFinalizer
    <3>2. wk.ir = ir[wk.key]
      BY <2>1, <3>1, AcceptedIsRead
    <3>3. LET new == [ir[i] EXCEPT !.fin = TRUE] IN new \in CronIRObject /\ new.live /\ new.fin
      BY <1>1 DEF CronIRObject, Held
    <3> QED BY <1>2, <1>3, <2>1, <3>1, <3>2, <3>3
  <2> QED BY <2>2, <2>3
<1>6. CASE ReconcileWithIdler
  <2>1. wk.key \in IRs /\ wk.call \in Busy /\ wk.call = "ReconcileWithIdler"
    BY <1>1, <1>6 DEF ReconcileWithIdler, TypeOK, Busy
  <2>2. CASE UNCHANGED irVars
    BY <2>2 DEF irVars, Held
  <2>3. CASE ~UNCHANGED irVars
    <3>1. CanUpdate(ir[wk.key], wk.ir) /\ WriteIR(wk.key, RemovedIR(wk.key))
      BY <1>6, <2>3 DEF ReconcileWithIdler
    <3>2. wk.ir = ir[wk.key]
      BY <2>1, <3>1, AcceptedIsRead
    <3>3. wk.key # i
      BY <2>1, <3>2 DEF PassedInv, AsksForRefused, Commands
    <3> QED BY <1>3, <2>1, <3>1, <3>3
  <2> QED BY <2>2, <2>3
<1>7. CASE WorkerStep /\ ~AddFinalizer /\ ~ReconcileWithIdler
  <2>1. UNCHANGED ir
    BY <1>7 DEF WorkerStep, GetIdlingResource, Get, Create, Update, Delete, ReturnOk,
       ReturnRequeueAfter, ReturnErr, irVars
  <2> QED BY <2>1 DEF Held
<1>8. CASE \/ \E j \in IRs : Take(j) \/ TimerFires(j) \/ PollFires(j) \/ DeliverIR(j)
           \/ \E k \in Slots : DeliverObject(k) \/ CollectGarbage(k)
           \/ CrashRestart \/ Panic \/ Fault \/ UNCHANGED vars
  <2>1. UNCHANGED ir
    BY <1>8 DEF Take, TimerFires, PollFires, DeliverIR, DeliverObject, CollectGarbage, CrashRestart,
       Panic, Restarts, Fault, irVars, vars
  <2> QED BY <2>1 DEF Held
<1>9. CASE \/ Resync
           \/ \E k \in Slots : DeleteObject(k) \/ EditRole(k) \/ EditJob(k) \/ TouchJob(k)
  <2>1. UNCHANGED ir
    BY <1>9 DEF Resync, DeleteObject, EditRole, EditJob, TouchJob, UserWritesObject, irVars
  <2> QED BY <2>1 DEF Held
<1> QED BY <1>4, <1>5, <1>6, <1>7, <1>8, <1>9 DEF Next, Environment

(* An IdlingResource with the finalizer that asks for a CronJob the API    *)
(* server does not take stays as long as it does: Reconcile writes the     *)
(* CronJobs of the strategies before it looks at the deletion, and fails   *)
(* there each time.                                                        *)
THEOREM RefusedStays ==
  ASSUME NEW i \in IRs
  PROVE  Spec => [](Held(i) /\ []AsksForRefused(i) => []ir[i].live)
<1>1. Init => CacheInv /\ VersionsInv /\ PassedInv
  BY CacheInit, VersionsInit DEF Init, FreeWorker, PassedInv, PartCalls
<1>2. /\ CacheInv /\ VersionsInv /\ PassedInv /\ [Next]_vars
      => CacheInv' /\ VersionsInv' /\ PassedInv'
  BY CacheStep, VersionsStep, PassedStep
<1>3. /\ CacheInv /\ VersionsInv /\ PassedInv /\ Held(i) /\ AsksForRefused(i) /\ [Next]_vars
      => Held(i)'
  BY HeldKept
<1>4. Held(i) => ir[i].live
  BY DEF Held
<1> QED BY <1>1, <1>2, <1>3, <1>4, PTL DEF Spec
=============================================================================
