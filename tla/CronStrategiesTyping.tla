------------------------ MODULE CronStrategiesTyping ------------------------
(***************************************************************************)
(* What ToDNSName guarantees for names of any length, and what not; and    *)
(* CronStrategies is well-typed: for all IdlingResources, all schedules,   *)
(* valid or not, and every value of the bounds.  CronStrategiesSafety      *)
(* builds on the lemmas here.                                              *)
(***************************************************************************)
EXTENDS CronStrategies, TLAPS

-----------------------------------------------------------------------------
(* Names.                                                                  *)

(* The arithmetic of the five suffixes.                                    *)
LEMMA PartFacts ==
  ASSUME NEW p \in Parts
  PROVE  /\ SuffixLength[p] \in 3 .. 7
         /\ Kept(p) \in 43 .. 47
         /\ PrefixLength + Kept(p) + 7 + SuffixLength[p] = ResourceNameLengthLimit
<1>1. p \in {"sa", "role", "rb", "idle", "wakeup"}
  BY DEF Parts, SuffixLength
<1>2. /\ SuffixLength["sa"] = 3 /\ SuffixLength["role"] = 5 /\ SuffixLength["rb"] = 3
      /\ SuffixLength["idle"] = 5 /\ SuffixLength["wakeup"] = 7
  BY DEF SuffixLength
<1> QED BY <1>1, <1>2 DEF Kept, PrefixLength, ResourceNameLengthLimit

(* No name of an owned object is longer than 63 characters, however long   *)
(* the name of the IdlingResource (what name_test.go checks of examples).  *)
THEOREM NamesFit ==
  ASSUME NEW i \in IRs, NEW p \in Parts
  PROVE  Length(i, p) <= ResourceNameLengthLimit
<1>1. FullLength(i, p) \in Nat
  BY NamesAssumption, PartFacts DEF FullLength, PrefixLength
<1> QED BY <1>1, PartFacts DEF Length, Shortened, ResourceNameLengthLimit

(* The hash adds nothing: two shortened names are equal as soon as what is *)
(* kept of them is.                                                        *)
THEOREM HashAddsNothing ==
  ASSUME NEW i \in IRs, NEW j \in IRs, NEW p \in Parts, Shortened(i, p), Shortened(j, p)
  PROVE  SameName(i, j, p) <=> i = j \/ Common[i][j] >= Kept(p)
<1>1. Common[i][j] \in Nat
  BY NamesAssumption
<1> QED BY <1>1, PartFacts DEF SameName, SameBase64, Looks

(* IdlingResources whose names have up to 49 characters have all their     *)
(* objects to themselves.  At 50, "kidle-<name>-wakeup" fits into the 63   *)
(* characters, but may spell the shortened name of another one.            *)
THEOREM ShortNamesDistinct ==
  ASSUME NEW i \in IRs, NEW j \in IRs, NEW p \in Parts, NEW q \in Parts,
         NameLength[i] <= 49, ToDNSName(i, p) = ToDNSName(j, q)
  PROVE  i = j /\ p = q
<1>1. i \in ToDNSName(j, q)[1] /\ p = q
  BY DEF ToDNSName, SameName
<1>2. SameName(j, i, p)
  BY <1>1 DEF ToDNSName
<1>3. ~Looks(i, p)
  BY NamesAssumption, PartFacts
     DEF Looks, Shortened, FullLength, PrefixLength, ResourceNameLengthLimit
<1> QED BY <1>1, <1>2, <1>3 DEF SameName

(* No other has a name that ToDNSName confuses with this one.              *)
NameApart(i) == \A j \in IRs, p \in Parts : SameName(i, j, p) => i = j

(* Names that some ToDNSName shortens, or that look like it.                *)
Long(i) == NameLength[i] > 50 \/ (NameLength[i] = 50 /\ i \in Hashed)

(* When that is: of any other IdlingResource it differs within the first   *)
(* 43 characters, unless one of the two names is not long: it has up to 50 *)
(* characters and, if 50, does not end in the hash of its own beginning.   *)
THEOREM ApartNames ==
  ASSUME NEW i \in IRs
  PROVE  NameApart(i) <=> \A j \in IRs \ {i} : ~Long(i) \/ ~Long(j) \/ Common[i][j] < 43
<1>1. /\ "wakeup" \in Parts /\ Kept("wakeup") = 43
      /\ \A k \in IRs : Looks(k, "wakeup") <=> Long(k)
  BY NamesAssumption DEF Parts, SuffixLength, Kept, Looks, Shortened, FullLength, PrefixLength,
     ResourceNameLengthLimit, Long
<1>2. ASSUME NEW p \in Parts, NEW k \in IRs, Looks(k, p) PROVE Long(k)
  <2>1. NameLength[k] \in Nat /\ SuffixLength[p] \in 3 .. 7
    BY NamesAssumption, PartFacts
  <2>2. /\ Shortened(k, p) => NameLength[k] > 50
        /\ FullLength(k, p) = ResourceNameLengthLimit => NameLength[k] >= 50
    BY <2>1 DEF Shortened, FullLength, PrefixLength, ResourceNameLengthLimit
  <2>3. Shortened(k, p) \/ (k \in Hashed /\ FullLength(k, p) = ResourceNameLengthLimit)
    BY <1>2 DEF Looks
  <2> QED BY <2>1, <2>2, <2>3 DEF Long
<1>3. ASSUME NEW j \in IRs \ {i}
      PROVE  (\A p \in Parts : ~SameName(i, j, p))
                <=> ~Long(i) \/ ~Long(j) \/ Common[i][j] < 43
  <2>0. Common[i][j] \in Nat
    BY NamesAssumption
  <2>1. ASSUME NEW p \in Parts, SameName(i, j, p)
        PROVE  Long(i) /\ Long(j) /\ Common[i][j] >= 43
    BY <1>2, <2>0, <2>1, PartFacts DEF SameName
  <2>2. ASSUME Long(i), Long(j), Common[i][j] >= 43
        PROVE  SameName(i, j, "wakeup")
    BY <1>1, <2>0, <2>2 DEF SameName, SameBase64
  <2> QED BY <1>1, <2>0, <2>1, <2>2
<1> QED BY <1>3 DEF NameApart

(* It has all its objects to itself then.                                  *)
LEMMA ApartDistinct ==
  ASSUME NEW i \in IRs, NameApart(i), NEW j \in IRs, NEW p \in Parts, NEW q \in Parts,
         ToDNSName(i, p) = ToDNSName(j, q)
  PROVE  i = j /\ p = q
<1>1. j \in ToDNSName(i, p)[1] /\ p = q
  BY DEF ToDNSName, SameName
<1> QED BY <1>1 DEF ToDNSName, NameApart

(* Two objects of IdlingResources are the same object or have no           *)
(* IdlingResource in common: having one name is an equivalence.            *)
THEOREM SameOrApart ==
  ASSUME NEW i \in IRs, NEW j \in IRs, NEW p \in Parts, SameName(i, j, p)
  PROVE  ToDNSName(i, p) = ToDNSName(j, p)
<1>1. ASSUME NEW a \in IRs, NEW b \in IRs, SameName(a, b, p) PROVE SameName(b, a, p)
  BY <1>1, NamesAssumption DEF SameName, SameBase64
<1>2. ASSUME NEW a \in IRs, NEW b \in IRs, NEW c \in IRs, SameName(a, b, p), SameName(b, c, p)
      PROVE  SameName(a, c, p)
  <2>1. CASE a = b \/ b = c
    BY <1>2, <2>1
  <2>2. CASE a # b /\ b # c
    <3>1. /\ Looks(a, p) /\ Looks(c, p)
          /\ Common[a][b] >= Kept(p) /\ Common[b][c] >= Kept(p)
      BY <1>2, <2>2 DEF SameName
    <3>2. /\ Common[a][b] \in Nat /\ Common[b][c] \in Nat /\ Common[a][c] \in Nat
          /\ Common[a][c] >= Common[a][b] \/ Common[a][c] >= Common[b][c]
      BY NamesAssumption
    <3>3. Common[a][c] >= Kept(p) /\ Common[a][c] >= 5
      BY <3>1, <3>2, PartFacts
    <3> QED BY <3>1, <3>3 DEF SameName, SameBase64
  <2> QED BY <2>1, <2>2
<1>3. \A k \in IRs : SameName(i, k, p) <=> SameName(j, k, p)
  BY <1>1, <1>2
<1> QED BY <1>3 DEF ToDNSName

-----------------------------------------------------------------------------
(* Types of the objects and of the operators on them.                      *)

(* The five parts, and which of them are CronJobs.                         *)
LEMMA PartNames == Parts = {"sa", "role", "rb", "idle", "wakeup"} /\ Commands \subseteq Parts
  BY DEF Parts, SuffixLength, Commands

(* What stands for "not there" is of the type of what is.                  *)
LEMMA NullTypes ==
  NoCronIR \in CronIRObject /\ NoObject \in OwnedObject /\ FreeWorker \in Worker
<1>1. NoCronIR \in CronIRObject /\ NoObject \in OwnedObject
  BY DEF NoCronIR, NoObject, CronIRObject, OwnedObject
<1> QED BY <1>1 DEF FreeWorker, Worker, Calls

(* What the API server stores is of the type of what it is sent.           *)
LEMMA NextCronIRType ==
  ASSUME NEW stored \in CronIRObject, NEW new \in CronIRObject
  PROVE  NextVersion(stored, new) \in CronIRObject
  BY DEF NextVersion, CronIRObject

LEMMA NextObjectType ==
  ASSUME NEW stored \in OwnedObject, NEW new \in OwnedObject
  PROVE  NextVersion(stored, new) \in OwnedObject
  BY DEF NextVersion, OwnedObject

(* The object of a part of an IdlingResource is one of the slots.          *)
LEMMA SlotType ==
  ASSUME NEW i \in IRs, NEW p \in Parts
  PROVE  ToDNSName(i, p) \in Slots /\ ToDNSName(i, p)[2] = p
  BY DEF Slots, ToDNSName

-----------------------------------------------------------------------------
(* The type invariant in parts.                                            *)

IRsTyped ==
    /\ ir \in [IRs -> CronIRObject] /\ irCache \in [IRs -> CronIRObject]
    /\ irWatch \in [IRs -> Seq(CronIRObject)]

ObjectsTyped ==
    /\ obj \in [Slots -> OwnedObject] /\ objCache \in [Slots -> OwnedObject]
    /\ objWatch \in [Slots -> Seq(OwnedObject)]

WorkerTyped(w) ==
    /\ w \in Worker
    /\ w.call # "Free" => w.key \in IRs
    /\ w.call \in {"Get", "Create", "Update", "Delete"} => w.part \in Parts

QueueTyped  == queue \subseteq IRs /\ timers \subseteq IRs /\ polls \subseteq IRs
LeftTyped   == left \subseteq IRs \X Commands
BoundsTyped == env \in 0 .. MaxEnv /\ faults \in 0 .. MaxFaults

LEMMA TypeParts ==
  TypeOK <=> /\ IRsTyped /\ ObjectsTyped /\ WorkerTyped(wk)
             /\ QueueTyped /\ LeftTyped /\ BoundsTyped
  BY DEF TypeOK, IRsTyped, ObjectsTyped, WorkerTyped, QueueTyped, LeftTyped, BoundsTyped

LEMMA TypePartsAfter ==
  ASSUME IRsTyped', ObjectsTyped', WorkerTyped(wk'), QueueTyped', LeftTyped', BoundsTyped'
  PROVE  TypeOK'
  BY DEF TypeOK, IRsTyped, ObjectsTyped, WorkerTyped, QueueTyped, LeftTyped, BoundsTyped

(* Writes keep types.                                                      *)
LEMMA WriteIRTypes ==
  ASSUME IRsTyped, NEW i \in IRs, NEW new \in CronIRObject, WriteIR(i, new)
  PROVE  IRsTyped'
<1> DEFINE next == NextVersion(ir[i], new)
<1>1. next \in CronIRObject
  BY NextCronIRType DEF IRsTyped
<1>2. ir' = [ir EXCEPT ![i] = next] /\ irCache' = irCache
  BY DEF WriteIR
<1>3. irWatch' = irWatch \/ irWatch' = [irWatch EXCEPT ![i] = Append(@, next)]
  BY DEF WriteIR
<1> HIDE DEF next
<1>4. irWatch[i] \in Seq(CronIRObject)
  BY DEF IRsTyped
<1>5. Append(irWatch[i], next) \in Seq(CronIRObject)
  BY <1>1, <1>4
<1> QED BY <1>1, <1>2, <1>3, <1>5 DEF IRsTyped

LEMMA WriteObjectTypes ==
  ASSUME ObjectsTyped, NEW k \in Slots, NEW new \in OwnedObject, WriteObject(k, new)
  PROVE  ObjectsTyped'
<1> DEFINE next == NextVersion(obj[k], new)
<1>1. next \in OwnedObject
  BY NextObjectType DEF ObjectsTyped
<1>2. obj' = [obj EXCEPT ![k] = next] /\ objCache' = objCache
  BY DEF WriteObject
<1>3. objWatch' = objWatch \/ objWatch' = [objWatch EXCEPT ![k] = Append(@, next)]
  BY DEF WriteObject
<1> HIDE DEF next
<1>4. objWatch[k] \in Seq(OwnedObject)
  BY DEF ObjectsTyped
<1>5. Append(objWatch[k], next) \in Seq(OwnedObject)
  BY <1>1, <1>4
<1> QED BY <1>1, <1>2, <1>3, <1>5 DEF ObjectsTyped

(* What is left alone keeps its type.                                      *)
LEMMA UnchangedTypes ==
  /\ IRsTyped /\ UNCHANGED irVars => IRsTyped'
  /\ ObjectsTyped /\ UNCHANGED objVars => ObjectsTyped'
  /\ QueueTyped /\ UNCHANGED <<queue, timers, polls>> => QueueTyped'
  /\ LeftTyped /\ UNCHANGED left => LeftTyped'
  /\ BoundsTyped /\ UNCHANGED <<env, faults>> => BoundsTyped'
  BY DEF IRsTyped, ObjectsTyped, QueueTyped, LeftTyped, BoundsTyped, irVars, objVars

-----------------------------------------------------------------------------
(* The worker.                                                             *)

(* Where the worker goes next.                                             *)
LEMMA JumpTyped ==
  ASSUME WorkerTyped(wk), wk.call # "Free", NEW inst \in CronIRObject,
         NEW call \in {"AddFinalizer", "ReconcileWithIdler", "Ok", "RequeueAfter", "Err"}
  PROVE  WorkerTyped(Jump(call, inst))
  BY NullTypes DEF WorkerTyped, Jump, FreeWorker, Worker, Calls

LEMMA GetTyped ==
  ASSUME WorkerTyped(wk), wk.call # "Free", NEW inst \in CronIRObject, NEW p \in Parts
  PROVE  WorkerTyped([Jump("Get", inst) EXCEPT !.part = p])
  BY NullTypes DEF WorkerTyped, Jump, FreeWorker, Worker, Calls

LEMMA AfterPartTyped ==
  ASSUME WorkerTyped(wk), wk.call # "Free", wk.part \in Parts
  PROVE  WorkerTyped(AfterPart)
<1>1. wk.ir \in CronIRObject
  BY DEF WorkerTyped, Worker
<1>2. \A p \in Parts : WorkerTyped(GetPart(p))
  BY <1>1, GetTyped DEF GetPart
<1>3. WorkerTyped(Jump("ReconcileWithIdler", wk.ir))
  BY <1>1, JumpTyped
<1>4. AfterPart \in {GetPart(p) : p \in Parts} \cup {Jump("ReconcileWithIdler", wk.ir)}
  BY PartNames DEF AfterPart
<1> QED BY <1>2, <1>3, <1>4

LEMMA CallTyped ==
  ASSUME WorkerTyped(wk), wk.call # "Free", wk.part \in Parts, NEW o \in OwnedObject
  PROVE  /\ WorkerTyped([wk EXCEPT !.call = "Create"])
         /\ WorkerTyped([wk EXCEPT !.call = "Delete"])
         /\ WorkerTyped([wk EXCEPT !.call = "Update", !.obj = o])
  BY DEF WorkerTyped, Worker, Calls

(* What follows a Get, as a choice among the four continuations.           *)
LEMMA AfterGetCases ==
  ASSUME WorkerTyped(wk), wk.part \in Parts, NEW o
  PROVE  \/ AfterGet(o) = AfterPart
         \/ AfterGet(o) = [wk EXCEPT !.call = "Create"] /\ ~o.live
         \/ AfterGet(o) = [wk EXCEPT !.call = "Update", !.obj = o] /\ o.live
         \/ AfterGet(o) = [wk EXCEPT !.call = "Delete"] /\ o.live
<1>1. CASE wk.part \in {"sa", "rb"}
  BY <1>1 DEF AfterGet
<1>2. CASE wk.part = "role"
  BY <1>2 DEF AfterGet
<1>3. CASE wk.part \in Commands
  <2>1. wk.part \notin {"sa", "rb"} /\ wk.part # "role"
    BY <1>3 DEF Commands
  <2>2. CASE wk.ir.want[wk.part] # None
    BY <1>3, <2>1, <2>2 DEF AfterGet, cronJobNeedChanges
  <2>3. CASE wk.ir.want[wk.part] = None
    BY <1>3, <2>1, <2>3 DEF AfterGet
  <2> QED BY <2>2, <2>3
<1> QED BY <1>1, <1>2, <1>3, PartNames DEF Commands

(* The objects the operator writes.                                        *)
LEMMA SetValuesType ==
  ASSUME WorkerTyped(wk), wk.call # "Free", wk.part \in Parts, NEW o \in OwnedObject
  PROVE  /\ SetValues(o) \in OwnedObject
         /\ SetValues(o).live = o.live /\ SetValues(o).owner = o.owner
         /\ SetValues(o).uid = o.uid
         /\ wk.part = "role" => SetValues(o).names = wk.key
         /\ wk.part \in Commands => /\ SetValues(o).names = wk.key
                                   /\ SetValues(o).sched = wk.ir.want[wk.part]
<1>1. wk.key \in IRs /\ wk.ir \in CronIRObject
  BY DEF WorkerTyped, Worker
<1>2. CASE wk.part \in {"sa", "rb"}
  BY <1>2 DEF SetValues, Commands
<1>3. CASE wk.part = "role"
  <2>1. wk.part \notin {"sa", "rb"} /\ wk.part \notin Commands
    BY <1>3 DEF Commands
  <2>2. SetValues(o) = [o EXCEPT !.names = wk.key]
    BY <1>3, <2>1 DEF SetValues
  <2> QED BY <1>1, <2>1, <2>2 DEF OwnedObject
<1>4. CASE wk.part \in Commands
  <2> DEFINE want == wk.ir.want
  <2>1. want[wk.part] \in Schedules \cup {None}
    <3>1. want \in [Commands -> Schedules \cup {None}]
      BY <1>1 DEF CronIRObject
    <3> HIDE DEF want
    <3> QED BY <1>4, <3>1
  <2>2. wk.part \notin {"sa", "rb"} /\ wk.part # "role"
    BY <1>4 DEF Commands
  <2>3. SetValues(o) = [o EXCEPT !.names = wk.key, !.sched = want[wk.part]]
    BY <1>4, <2>2 DEF SetValues
  <2> HIDE DEF want
  <2>4. /\ SetValues(o) \in OwnedObject
        /\ SetValues(o).live = o.live /\ SetValues(o).owner = o.owner
        /\ SetValues(o).uid = o.uid
        /\ SetValues(o).names = wk.key /\ SetValues(o).sched = want[wk.part]
    BY <1>1, <2>1, <2>3 DEF OwnedObject
  <2> QED BY <2>2, <2>4 DEF want
<1> QED BY <1>2, <1>3, <1>4, PartNames DEF Commands

LEMMA NewObjectType ==
  ASSUME WorkerTyped(wk), wk.call # "Free", wk.part \in Parts
  PROVE  /\ NewObject \in OwnedObject /\ NewObject.live
         /\ NewObject.owner = wk.key /\ NewObject.uid = wk.ir.uid
         /\ wk.part \in Commands => /\ NewObject.names = wk.key
                                   /\ NewObject.sched = wk.ir.want[wk.part]
<1> DEFINE o == [NoObject EXCEPT !.live = TRUE, !.owner = wk.key, !.uid = wk.ir.uid]
<1>1. wk.key \in IRs /\ wk.ir.uid \in Nat
  BY DEF WorkerTyped, Worker, CronIRObject
<1>2. o \in OwnedObject /\ o.live /\ o.owner = wk.key /\ o.uid = wk.ir.uid
  BY <1>1, NullTypes DEF NoObject, OwnedObject
<1>3. NewObject = SetValues(o)
  BY DEF NewObject
<1> HIDE DEF o
<1> QED BY <1>2, <1>3, SetValuesType

-----------------------------------------------------------------------------
(* The steps of the worker.                                                *)

(* The steps that write nothing.                                           *)
LEMMA LocalSteps ==
  ASSUME TypeOK, \/ \E i \in IRs : Take(i)
                 \/ GetIdlingResource \/ Get
                 \/ ReturnOk \/ ReturnRequeueAfter \/ ReturnErr
                 \/ Fault
  PROVE  TypeOK'
<1>1. IRsTyped /\ ObjectsTyped /\ WorkerTyped(wk) /\ QueueTyped /\ LeftTyped /\ BoundsTyped
  BY TypeParts
<1>2. IRsTyped' /\ ObjectsTyped'
  BY <1>1, UnchangedTypes
     DEF Take, GetIdlingResource, Get, ReturnOk, ReturnRequeueAfter, ReturnErr, Fault
<1>3. CASE \E i \in IRs : Take(i)
  <2>1. PICK i \in IRs : Take(i)
    BY <1>3
  <2>2. WorkerTyped(wk')
    BY <2>1, NullTypes DEF Take, WorkerTyped, FreeWorker, Worker, Calls
  <2>3. QueueTyped' /\ LeftTyped' /\ BoundsTyped'
    BY <1>1, <2>1 DEF Take, QueueTyped, LeftTyped, BoundsTyped
  <2> QED BY <1>2, <2>2, <2>3, TypePartsAfter
<1>4. CASE GetIdlingResource
  <2>1. irCache[wk.key] \in CronIRObject /\ wk.call # "Free" /\ NoCronIR \in CronIRObject
    BY <1>1, <1>4, NullTypes DEF GetIdlingResource, WorkerTyped, IRsTyped
  <2>2. WorkerTyped(wk')
    <3>1. /\ WorkerTyped(Jump("Ok", NoCronIR))
          /\ WorkerTyped(Jump("AddFinalizer", irCache[wk.key]))
          /\ WorkerTyped([Jump("Get", irCache[wk.key]) EXCEPT !.part = "sa"])
      BY <1>1, <2>1, JumpTyped, GetTyped, PartNames
    <3> QED BY <1>4, <3>1 DEF GetIdlingResource
  <2> QED BY <1>1, <1>2, <1>4, <2>2, TypePartsAfter, UnchangedTypes DEF GetIdlingResource
<1>5. CASE Get
  <2>1. wk.part \in Parts /\ wk.call # "Free" /\ wk.key \in IRs
    BY <1>1, <1>5 DEF Get, WorkerTyped
  <2>2. objCache[Slot] \in OwnedObject
    BY <1>1, <2>1, SlotType DEF ObjectsTyped, Slot
  <2>3. WorkerTyped(AfterGet(objCache[Slot]))
    BY <1>1, <2>1, <2>2, AfterGetCases, AfterPartTyped, CallTyped
  <2>4. LeftTyped'
    BY <1>1, <1>5 DEF Get, LeftTyped
  <2> QED BY <1>1, <1>2, <1>5, <2>3, <2>4, TypePartsAfter, UnchangedTypes DEF Get
<1>6. CASE ReturnOk \/ ReturnRequeueAfter \/ ReturnErr
  <2>1. WorkerTyped(wk')
    BY <1>6, NullTypes DEF ReturnOk, ReturnRequeueAfter, ReturnErr, WorkerTyped, FreeWorker
  <2>2. QueueTyped' /\ LeftTyped' /\ BoundsTyped'
    BY <1>1, <1>6
       DEF ReturnOk, ReturnRequeueAfter, ReturnErr, QueueTyped, LeftTyped, BoundsTyped, WorkerTyped
  <2> QED BY <1>2, <2>1, <2>2, TypePartsAfter
<1>7. CASE Fault
  <2>1. QueueTyped' /\ BoundsTyped'
    BY <1>1, <1>7, CronBoundsAssumption DEF Fault, QueueTyped, BoundsTyped
  <2>2. CASE CallFails
    <3>1. WorkerTyped(wk') /\ LeftTyped'
      BY <1>1, <2>2, JumpTyped, NullTypes, UnchangedTypes DEF CallFails
    <3> QED BY <1>2, <2>1, <3>1, TypePartsAfter
  <2>3. CASE GetFailsUnnoticed
    <3>1. wk.call # "Free" /\ wk.key \in IRs /\ wk.part \in Commands
      BY <1>1, <2>3 DEF GetFailsUnnoticed, Unwanted, WorkerTyped
    <3>2. WorkerTyped(wk')
      BY <1>1, <2>3, <3>1, PartNames, AfterPartTyped DEF GetFailsUnnoticed
    <3>3. LeftTyped'
      BY <1>1, <2>3, <3>1 DEF GetFailsUnnoticed, LeftTyped
    <3> QED BY <1>2, <2>1, <3>2, <3>3, TypePartsAfter
  <2> QED BY <1>7, <2>2, <2>3 DEF Fault
<1> QED BY <1>3, <1>4, <1>5, <1>6, <1>7

(* The writes of the IdlingResource.                                       *)
LEMMA InstanceSteps ==
  ASSUME TypeOK, AddFinalizer \/ ReconcileWithIdler
  PROVE  TypeOK'
<1>1. IRsTyped /\ ObjectsTyped /\ WorkerTyped(wk) /\ QueueTyped /\ LeftTyped /\ BoundsTyped
  BY TypeParts
<1>2. wk.call # "Free" /\ wk.key \in IRs /\ wk.ir \in CronIRObject /\ NoCronIR \in CronIRObject
  BY <1>1, NullTypes DEF AddFinalizer, ReconcileWithIdler, WorkerTyped, Worker
<1>3. ir[wk.key] \in CronIRObject
  BY <1>1, <1>2 DEF IRsTyped
<1>4. ObjectsTyped' /\ QueueTyped' /\ LeftTyped' /\ BoundsTyped'
  BY <1>1, UnchangedTypes DEF AddFinalizer, ReconcileWithIdler
<1>5. CASE AddFinalizer
  <2> DEFINE new == [wk.ir EXCEPT !.fin = TRUE]
  <2>1. new \in CronIRObject
    BY <1>2 DEF CronIRObject
  <2>2. NextVersion(ir[wk.key], new) \in CronIRObject
    BY <1>3, <2>1, NextCronIRType
  <2>3. /\ WorkerTyped(Jump("Err", NoCronIR))
        /\ WorkerTyped([Jump("Get", NextVersion(ir[wk.key], new)) EXCEPT !.part = "sa"])
    BY <1>1, <1>2, <2>2, JumpTyped, GetTyped, PartNames
  <2>4. WorkerTyped(wk')
    BY <1>5, <2>3 DEF AddFinalizer
  <2>5. WriteIR(wk.key, new) \/ UNCHANGED irVars
    BY <1>5 DEF AddFinalizer
  <2>6. IRsTyped'
    BY <1>1, <1>2, <2>1, <2>5, WriteIRTypes, UnchangedTypes
  <2> QED BY <1>4, <2>4, <2>6, TypePartsAfter
<1>6. CASE ReconcileWithIdler
  <2>1. RemovedIR(wk.key) \in CronIRObject
    BY <1>2, <1>3 DEF RemovedIR, CronIRObject
  <2>2. WriteIR(wk.key, RemovedIR(wk.key)) \/ UNCHANGED irVars
    BY <1>6 DEF ReconcileWithIdler
  <2>3. IRsTyped'
    BY <1>1, <1>2, <2>1, <2>2, WriteIRTypes, UnchangedTypes
  <2>4. \A call \in {"Err", "Ok", "RequeueAfter"} : WorkerTyped(Jump(call, NoCronIR))
    BY <1>1, <1>2, JumpTyped
  <2>5. WorkerTyped(wk')
    BY <1>6, <2>4 DEF ReconcileWithIdler
  <2> QED BY <1>4, <2>3, <2>5, TypePartsAfter
<1> QED BY <1>5, <1>6

(* The writes of the owned objects.                                        *)
LEMMA ObjectSteps ==
  ASSUME TypeOK, Create \/ Update \/ Delete
  PROVE  TypeOK'
<1>1. IRsTyped /\ ObjectsTyped /\ WorkerTyped(wk) /\ QueueTyped /\ LeftTyped /\ BoundsTyped
  BY TypeParts
<1>2. /\ wk.call # "Free" /\ wk.key \in IRs /\ wk.part \in Parts /\ wk.obj \in OwnedObject
      /\ Slot \in Slots /\ NoObject \in OwnedObject
  BY <1>1, NullTypes, SlotType DEF Create, Update, Delete, WorkerTyped, Worker, Slot
<1>3. IRsTyped' /\ QueueTyped' /\ LeftTyped' /\ BoundsTyped'
  BY <1>1, UnchangedTypes DEF Create, Update, Delete
<1>4. WorkerTyped(wk')
  <2>1. WorkerTyped(Jump("Err", NoCronIR)) /\ WorkerTyped(AfterPart)
    BY <1>1, <1>2, JumpTyped, AfterPartTyped, NullTypes
  <2> QED BY <2>1 DEF Create, Update, Delete
<1>5. \/ UNCHANGED objVars
      \/ \E new \in {NewObject, SetValues(wk.obj), NoObject} : WriteObject(Slot, new)
  BY DEF Create, Update, Delete
<1>6. NewObject \in OwnedObject /\ SetValues(wk.obj) \in OwnedObject
  BY <1>1, <1>2, NewObjectType, SetValuesType
<1>7. ObjectsTyped'
  BY <1>1, <1>2, <1>5, <1>6, WriteObjectTypes, UnchangedTypes
<1> QED BY <1>3, <1>4, <1>7, TypePartsAfter

-----------------------------------------------------------------------------
(* The runtime and the environment.                                        *)

(* Owners are names of IdlingResources.                                    *)
LEMMA OwnerType == \A o \in OwnedObject : OwnerOf(o) \subseteq IRs
  BY DEF OwnerOf, OwnedObject

LEMMA RuntimeSteps ==
  ASSUME TypeOK,
         \/ \E i \in IRs : TimerFires(i) \/ PollFires(i) \/ DeliverIR(i)
         \/ \E k \in Slots : DeliverObject(k) \/ CollectGarbage(k)
         \/ CrashRestart \/ Panic
  PROVE  TypeOK'
<1>1. IRsTyped /\ ObjectsTyped /\ WorkerTyped(wk) /\ QueueTyped /\ LeftTyped /\ BoundsTyped
  BY TypeParts
<1>2. ASSUME NEW i \in IRs, TimerFires(i) \/ PollFires(i) PROVE TypeOK'
  <2>1. QueueTyped'
    BY <1>1, <1>2 DEF TimerFires, PollFires, QueueTyped
  <2> QED BY <1>1, <1>2, <2>1, TypePartsAfter, UnchangedTypes DEF TimerFires, PollFires
<1>3. ASSUME NEW i \in IRs, DeliverIR(i) PROVE TypeOK'
  <2>1. irWatch[i] \in Seq(CronIRObject) /\ irWatch[i] # <<>>
    BY <1>1, <1>3 DEF DeliverIR, IRsTyped
  <2>2. Head(irWatch[i]) \in CronIRObject /\ Tail(irWatch[i]) \in Seq(CronIRObject)
    BY <2>1
  <2>3. IRsTyped'
    BY <1>1, <1>3, <2>2 DEF DeliverIR, IRsTyped
  <2>4. QueueTyped'
    BY <1>1, <1>3 DEF DeliverIR, QueueTyped
  <2> QED BY <1>1, <1>3, <2>3, <2>4, TypePartsAfter, UnchangedTypes DEF DeliverIR
<1>4. ASSUME NEW k \in Slots, DeliverObject(k) PROVE TypeOK'
  <2>1. objWatch[k] \in Seq(OwnedObject) /\ objWatch[k] # <<>> /\ objCache[k] \in OwnedObject
    BY <1>1, <1>4 DEF DeliverObject, ObjectsTyped
  <2>2. Head(objWatch[k]) \in OwnedObject /\ Tail(objWatch[k]) \in Seq(OwnedObject)
    BY <2>1
  <2>3. ObjectsTyped'
    BY <1>1, <1>4, <2>2 DEF DeliverObject, ObjectsTyped
  <2>4. QueueTyped'
    BY <1>1, <1>4, <2>1, <2>2, OwnerType DEF DeliverObject, QueueTyped
  <2> QED BY <1>1, <1>4, <2>3, <2>4, TypePartsAfter, UnchangedTypes DEF DeliverObject
<1>5. ASSUME NEW k \in Slots, CollectGarbage(k) PROVE TypeOK'
  <2>1. ObjectsTyped'
    BY <1>1, <1>5, NullTypes, WriteObjectTypes DEF CollectGarbage
  <2> QED BY <1>1, <1>5, <2>1, TypePartsAfter, UnchangedTypes DEF CollectGarbage
<1>6. ASSUME Restarts
      PROVE  IRsTyped' /\ ObjectsTyped' /\ WorkerTyped(wk') /\ QueueTyped' /\ LeftTyped'
  <2>1. IRsTyped'
    BY <1>1, <1>6 DEF Restarts, IRsTyped
  <2>2. ObjectsTyped'
    BY <1>1, <1>6 DEF Restarts, ObjectsTyped
  <2>3. WorkerTyped(wk')
    BY <1>6, NullTypes DEF Restarts, WorkerTyped, FreeWorker
  <2>4. Listed \subseteq IRs
    BY <1>1, OwnerType DEF Listed, ObjectsTyped
  <2>5. QueueTyped'
    BY <1>6, <2>4 DEF Restarts, QueueTyped
  <2>6. LeftTyped'
    BY <1>1, <1>6, UnchangedTypes DEF Restarts
  <2> QED BY <2>1, <2>2, <2>3, <2>5, <2>6
<1>7. CASE CrashRestart
  <2>1. BoundsTyped'
    BY <1>1, <1>7, CronBoundsAssumption DEF CrashRestart, Restarts, BoundsTyped
  <2> QED BY <1>6, <1>7, <2>1, TypePartsAfter DEF CrashRestart
<1>8. CASE Panic
  <2>1. BoundsTyped'
    BY <1>1, <1>8 DEF Panic, Restarts, BoundsTyped
  <2> QED BY <1>6, <1>8, <2>1, TypePartsAfter DEF Panic
<1> QED BY <1>2, <1>3, <1>4, <1>5, <1>7, <1>8

(* The writes of others are of objects.                                    *)
LEMMA UserIRTypes ==
  ASSUME TypeOK, NEW name, NEW i \in IRs, NEW new \in CronIRObject, UserWritesIR(name, i, new)
  PROVE  TypeOK'
<1>1. IRsTyped /\ ObjectsTyped /\ WorkerTyped(wk) /\ QueueTyped /\ LeftTyped /\ BoundsTyped
  BY TypeParts
<1>2. IRsTyped'
  BY <1>1, WriteIRTypes DEF UserWritesIR
<1>3. BoundsTyped'
  BY <1>1, CronBoundsAssumption DEF UserWritesIR, BoundsTyped
<1>4. ObjectsTyped' /\ QueueTyped' /\ LeftTyped' /\ WorkerTyped(wk')
  BY <1>1, UnchangedTypes DEF UserWritesIR
<1> QED BY <1>2, <1>3, <1>4, TypePartsAfter

LEMMA UserObjectTypes ==
  ASSUME TypeOK, NEW name, NEW k \in Slots, NEW new \in OwnedObject,
         UserWritesObject(name, k, new)
  PROVE  TypeOK'
<1>1. IRsTyped /\ ObjectsTyped /\ WorkerTyped(wk) /\ QueueTyped /\ LeftTyped /\ BoundsTyped
  BY TypeParts
<1>2. ObjectsTyped'
  BY <1>1, WriteObjectTypes DEF UserWritesObject
<1>3. BoundsTyped'
  BY <1>1, CronBoundsAssumption DEF UserWritesObject, BoundsTyped
<1>4. IRsTyped' /\ QueueTyped' /\ LeftTyped' /\ WorkerTyped(wk')
  BY <1>1, UnchangedTypes DEF UserWritesObject
<1> QED BY <1>2, <1>3, <1>4, TypePartsAfter

(* What users write to an IdlingResource.                                  *)
LEMMA UserWritesOfIR ==
  ASSUME TypeOK, NEW i \in IRs,
         CreateIR(i) \/ DeleteIR(i) \/ \E c \in Strategies : EditStrategy(i, c)
  PROVE  \E name \in Writes, new \in CronIRObject : UserWritesIR(name, i, new)
<1>1. ir[i] \in CronIRObject /\ NoCronIR \in CronIRObject
  BY NullTypes DEF TypeOK
<1>2. CASE CreateIR(i)
  <2>1. PICK want \in Wants :
           UserWritesIR("CreateIR", i, [NoCronIR EXCEPT !.live = TRUE, !.uid = ir[i].uid + 1, !.want = want])
    BY <1>2 DEF CreateIR
  <2>2. want \in [Commands -> Schedules \cup {None}] /\ ir[i].uid + 1 \in Nat
    BY <1>1 DEF Wants, CronIRObject
  <2>3. [NoCronIR EXCEPT !.live = TRUE, !.uid = ir[i].uid + 1, !.want = want] \in CronIRObject
    BY <1>1, <2>2 DEF CronIRObject
  <2> QED BY <2>1, <2>3 DEF UserWritesIR
<1>3. CASE DeleteIR(i)
  <2>1. RemovedIR(i) \in CronIRObject /\ [ir[i] EXCEPT !.deleting = TRUE] \in CronIRObject
    BY <1>1 DEF RemovedIR, CronIRObject
  <2> QED BY <1>3, <2>1 DEF DeleteIR, UserWritesIR
<1>4. ASSUME NEW c \in Strategies, EditStrategy(i, c)
      PROVE  \E name \in Writes, new \in CronIRObject : UserWritesIR(name, i, new)
  <2>1. PICK s \in Schedules \cup {None} :
           UserWritesIR("EditStrategy", i, [ir[i] EXCEPT !.want[c] = s])
    BY <1>4 DEF EditStrategy
  <2>2. [ir[i] EXCEPT !.want[c] = s] \in CronIRObject
    BY <1>1 DEF CronIRObject
  <2> QED BY <2>1, <2>2 DEF UserWritesIR
<1> QED BY <1>2, <1>3, <1>4

(* What users and controllers write to an owned object: they remove it, or *)
(* change what is in it, but not whose it is.                              *)
LEMMA UserWritesOfObject ==
  ASSUME TypeOK, NEW k \in Slots,
         DeleteObject(k) \/ EditRole(k) \/ EditJob(k) \/ TouchJob(k)
  PROVE  /\ obj[k].live
         /\ \E name \in Writes, new \in OwnedObject :
               /\ UserWritesObject(name, k, new)
               /\ \/ new = NoObject
                  \/ new.live /\ new.owner = obj[k].owner /\ new.uid = obj[k].uid
<1>1. obj[k] \in OwnedObject /\ NoObject \in OwnedObject
  BY NullTypes DEF TypeOK
<1>2. CASE DeleteObject(k)
  BY <1>1, <1>2 DEF DeleteObject, UserWritesObject
<1>3. CASE EditRole(k)
  <2> DEFINE new(n) == [obj[k] EXCEPT !.names = n]
  <2>1. obj[k].live
    BY <1>3 DEF EditRole
  <2>2. \A n \in {None, NoRules} : /\ new(n) \in OwnedObject
                                   /\ new(n).live /\ new(n).owner = obj[k].owner
                                   /\ new(n).uid = obj[k].uid
    BY <1>1, <2>1 DEF OwnedObject
  <2>3. \E name \in {"EditRole", "EmptyRole"}, n \in {None, NoRules} :
           UserWritesObject(name, k, new(n))
    BY <1>3 DEF EditRole
  <2> HIDE DEF new
  <2> QED BY <2>1, <2>2, <2>3 DEF UserWritesObject
<1>4. CASE EditJob(k)
  <2> DEFINE new == [obj[k] EXCEPT !.sched = None]
  <2>1. obj[k].live /\ UserWritesObject("EditJob", k, new)
    BY <1>4 DEF EditJob
  <2>2. /\ new \in OwnedObject
        /\ new.live /\ new.owner = obj[k].owner /\ new.uid = obj[k].uid
    BY <1>1, <2>1 DEF OwnedObject
  <2> HIDE DEF new
  <2> QED BY <2>1, <2>2 DEF UserWritesObject
<1>5. CASE TouchJob(k)
  <2> DEFINE new == [obj[k] EXCEPT !.rv = @ + 1]
  <2>1. obj[k].live /\ UserWritesObject("TouchJob", k, new)
    BY <1>5 DEF TouchJob
  <2>2. /\ new \in OwnedObject
        /\ new.live /\ new.owner = obj[k].owner /\ new.uid = obj[k].uid
    BY <1>1, <2>1 DEF OwnedObject
  <2> HIDE DEF new
  <2> QED BY <2>1, <2>2 DEF UserWritesObject
<1> QED BY <1>2, <1>3, <1>4, <1>5

LEMMA ResyncTypes ==
  ASSUME TypeOK, Resync
  PROVE  TypeOK'
<1>1. IRsTyped /\ ObjectsTyped /\ WorkerTyped(wk) /\ QueueTyped /\ LeftTyped /\ BoundsTyped
  BY TypeParts
<1>2. \A k \in Slots : OwnerOf(objCache[k]) \subseteq IRs
  BY <1>1, OwnerType DEF ObjectsTyped
<1>3. QueueTyped'
  BY <1>1, <1>2 DEF Resync, QueueTyped
<1>4. BoundsTyped'
  BY <1>1, CronBoundsAssumption DEF Resync, BoundsTyped
<1> QED BY <1>1, <1>3, <1>4, TypePartsAfter, UnchangedTypes DEF Resync

-----------------------------------------------------------------------------
(* The invariant.                                                          *)

LEMMA TypedInit == Init => TypeOK
<1> SUFFICES ASSUME Init PROVE TypeOK
  OBVIOUS
<1>1. NoCronIR \in CronIRObject /\ NoObject \in OwnedObject /\ FreeWorker \in Worker
  BY NullTypes
<1>2. InitialIRs \subseteq CronIRObject
  <2>1. \A want \in Wants :
           [NoCronIR EXCEPT !.live = TRUE, !.uid = 1, !.want = want, !.rv = 1] \in CronIRObject
    BY <1>1 DEF Wants, CronIRObject
  <2> QED BY <1>1, <2>1 DEF InitialIRs
<1>3. IRsTyped
  BY <1>2 DEF Init, IRsTyped
<1>4. ObjectsTyped
  BY <1>1 DEF Init, ObjectsTyped
<1>5. WorkerTyped(wk)
  BY <1>1 DEF Init, WorkerTyped, FreeWorker
<1>6. QueueTyped /\ LeftTyped /\ BoundsTyped
  BY CronBoundsAssumption DEF Init, QueueTyped, LeftTyped, BoundsTyped
<1> QED BY <1>3, <1>4, <1>5, <1>6, TypeParts

LEMMA TypedStep == TypeOK /\ [Next]_vars => TypeOK'
<1> SUFFICES ASSUME TypeOK, [Next]_vars PROVE TypeOK'
  OBVIOUS
<1>1. CASE WorkerStep
  BY <1>1, LocalSteps, InstanceSteps, ObjectSteps DEF WorkerStep
<1>2. CASE \E i \in IRs : Take(i) \/ TimerFires(i) \/ PollFires(i) \/ DeliverIR(i)
  BY <1>2, LocalSteps, RuntimeSteps
<1>3. CASE \/ \E k \in Slots : DeliverObject(k) \/ CollectGarbage(k)
           \/ CrashRestart \/ Panic
  BY <1>3, RuntimeSteps
<1>4. CASE Fault
  BY <1>4, LocalSteps
<1>5. CASE Environment
  <2>1. CASE Resync
    BY <2>1, ResyncTypes
  <2>2. ASSUME NEW i \in IRs,
               CreateIR(i) \/ DeleteIR(i) \/ \E c \in Strategies : EditStrategy(i, c)
        PROVE  TypeOK'
    BY <2>2, UserWritesOfIR, UserIRTypes
  <2>3. ASSUME NEW k \in Slots, DeleteObject(k) \/ EditRole(k) \/ EditJob(k) \/ TouchJob(k)
        PROVE  TypeOK'
    BY <2>3, UserWritesOfObject, UserObjectTypes
  <2> QED BY <1>5, <2>1, <2>2, <2>3 DEF Environment
<1>6. CASE UNCHANGED vars
  <2>1. UNCHANGED <<ir, irWatch, irCache, obj, objWatch, objCache, queue, timers, polls, wk,
                    left, env, faults>>
    BY <1>6 DEF vars, irVars, objVars
  <2> QED BY <2>1 DEF TypeOK
<1> QED BY <1>1, <1>2, <1>3, <1>4, <1>5, <1>6 DEF Next

(* The model is well-typed: what the operator, its runtime, the garbage    *)
(* collector and users write are objects, and the worker is always at a    *)
(* call of a part of an IdlingResource.                                    *)
THEOREM TypeCorrect == Spec => []TypeOK
<1>1. Init => TypeOK
  BY TypedInit
<1>2. TypeOK /\ [Next]_vars => TypeOK'
  BY TypedStep
<1> QED BY <1>1, <1>2, PTL DEF Spec
=============================================================================
