--------------------------- MODULE CronStrategies ---------------------------
(***************************************************************************)
(* The cron strategies: the five objects the operator owns for an          *)
(* IdlingResource (service account, role, role binding, and the CronJobs   *)
(* that run "kidlectl idle" and "kidlectl wakeup"), created, rewritten and *)
(* deleted by ReconcileCronStrategies on what its caches say.              *)
(*                                                                         *)
(* The worker takes one step per call, as in KidleOperator.  The part of   *)
(* Reconcile that deals with the workload, modelled there, is one step     *)
(* here: of all it writes only the removal of the finalizer matters, and   *)
(* whether it has itself called again.                                     *)
(***************************************************************************)
EXTENDS ApiServer, DNSNames, FiniteSets, Sequences

CONSTANTS
    Schedules,  \* what users write for a cron expression
    Invalid,    \* those that are none: the API server refuses such a CronJob
    Strategies, \* the strategies users set: "idle", "wakeup"
    Writes,     \* the writes that happen, out of AllWrites
    None,       \* no schedule, no IdlingResource
    NoRules,    \* what a role names that has no rules left
    Referents,  \* what Reconcile may find where a reference leads, out of
                \* "workload", "missing" and "unknown": a kind it has no case for
    MaxLag,     \* bound: objects the caches lag behind on at a time
    MaxStale,   \* versions of an object after which the garbage collector is
                \* slower than the watch of the object's owner
    MaxEnv,     \* bound: writes of users, other controllers, and resyncs
    MaxFaults   \* bound: failed calls and crashes

ASSUME CronNoneAssumption == /\ None \notin IRs \cup Schedules
                             /\ NoRules \notin IRs \cup {None}
ASSUME InvalidAssumption == Invalid \subseteq Schedules
ASSUME ReferentsAssumption == /\ Referents \subseteq {"workload", "missing", "unknown"}
                              /\ Referents # {}
ASSUME StrategiesAssumption == Strategies \subseteq {"idle", "wakeup"}
ASSUME CronBoundsAssumption == /\ MaxLag \in Nat /\ MaxStale \in Nat
                               /\ MaxEnv \in Nat /\ MaxFaults \in Nat


AllWrites == {"CreateIR", "EditStrategy", "DeleteIR", "DeleteObject", "EditRole",
              "EmptyRole", "EditJob", "TouchJob", "Resync"}
ASSUME WritesAssumption == Writes \subseteq AllWrites

VARIABLES
    ir,        \* IdlingResources at the API server
    irWatch,   \* versions of each that the informer has not received yet
    irCache,   \* what the informer's cache holds
    obj,       \* the same three for the owned objects
    objWatch,
    objCache,
    queue,     \* IdlingResources waiting in the work queue
    timers,    \* IdlingResources to be queued after a back-off
    polls,     \* those to be queued after 2 seconds: the workload is missing
    wk,        \* the worker: what it is about to do, with its local copies
    left,      \* CronJobs left behind: the last look for them failed (history)
    env,       \* writes of users and other controllers, and resyncs so far
    faults     \* failed calls and crashes so far

irVars  == <<ir, irWatch, irCache>>
objVars == <<obj, objWatch, objCache>>
vars    == <<irVars, objVars, queue, timers, polls, wk, left, env, faults>>

-----------------------------------------------------------------------------
(* Objects.                                                                *)

Commands == {"idle", "wakeup"}
Slots    == {ToDNSName(i, p) : i \in IRs, p \in Parts}

(* uid tells apart the IdlingResources that had the same name.             *)
CronIRObject == [live : BOOLEAN, deleting : BOOLEAN, fin : BOOLEAN, uid : Nat,
                 want : [Commands -> Schedules \cup {None}], rv : Nat]

(* owner and uid are the controller reference; names is the IdlingResource *)
(* that Rules[0] of a role, or the arguments of a CronJob, name; sched is  *)
(* a CronJob's schedule, None for one that is suspended.                   *)
OwnedObject == [live : BOOLEAN, owner : IRs \cup {None}, uid : Nat,
                names : IRs \cup {None, NoRules}, sched : Schedules \cup {None}, rv : Nat]

NoCronIR == [live |-> FALSE, deleting |-> FALSE, fin |-> FALSE, uid |-> 0,
             want |-> [c \in Commands |-> None], rv |-> 0]

NoObject == [live |-> FALSE, owner |-> None, uid |-> 0, names |-> None,
             sched |-> None, rv |-> 0]

(* The objects with versions the caches have not received yet.             *)
Lagging == {i \in IRs : irWatch[i] # <<>>} \cup {k \in Slots : objWatch[k] # <<>>}

WriteIR(i, new) ==
    LET next == NextVersion(ir[i], new)
    IN  /\ Cardinality(Lagging \cup {i}) <= MaxLag
        /\ ir' = [ir EXCEPT ![i] = next]
        /\ irWatch' = IF next = ir[i] THEN irWatch
                      ELSE [irWatch EXCEPT ![i] = Append(@, next)]
        /\ UNCHANGED irCache

WriteObject(k, new) ==
    LET next == NextVersion(obj[k], new)
    IN  /\ Cardinality(Lagging \cup {k}) <= MaxLag
        /\ obj' = [obj EXCEPT ![k] = next]
        /\ objWatch' = IF next = obj[k] THEN objWatch
                       ELSE [objWatch EXCEPT ![k] = Append(@, next)]
        /\ UNCHANGED objCache

(* The garbage collector's view: the owner is gone, or is another object   *)
(* of the same name.                                                       *)
Orphan(o) ==
    o.live /\ o.owner # None /\ ~(ir[o.owner].live /\ ir[o.owner].uid = o.uid)

-----------------------------------------------------------------------------
(* The worker.  part is the object ReconcileCronStrategies has got to.     *)

Calls == {"Free", "GetIdlingResource", "AddFinalizer", "Get", "Create", "Update",
          "Delete", "ReconcileWithIdler", "Ok", "RequeueAfter", "Err"}

Worker == [call : Calls, part : Parts \cup {None}, key : IRs \cup {None},
           ir : CronIRObject, obj : OwnedObject]

FreeWorker == [call |-> "Free", part |-> None, key |-> None,
               ir |-> NoCronIR, obj |-> NoObject]

Jump(call, inst) == [FreeWorker EXCEPT !.call = call, !.key = wk.key, !.ir = inst]

(* The object the worker is at; IdlingResources share it if ToDNSName      *)
(* gives them the same name.                                               *)
Slot == ToDNSName(wk.key, wk.part)

GetPart(p) == [Jump("Get", wk.ir) EXCEPT !.part = p]

(* createRBAC, then the idle job, then the wakeup job.                     *)
AfterPart ==
    CASE wk.part = "sa"     -> GetPart("role")
      [] wk.part = "role"   -> GetPart("rb")
      [] wk.part = "rb"     -> GetPart("idle")
      [] wk.part = "idle"   -> GetPart("wakeup")
      [] wk.part = "wakeup" -> Jump("ReconcileWithIdler", wk.ir)

(* Mutant: the CronJob's arguments name the CronJob.                       *)
SetValuesCronJobName(o) ==
    CASE wk.part \in {"sa", "rb"} -> o
      [] wk.part = "role"         -> [o EXCEPT !.names = wk.key]
      [] wk.part \in Commands     -> [o EXCEPT !.names = Slot, !.sched = wk.ir.want[wk.part]]

(* setCronjobValues, and the policy rule of the role.                      *)
SetValues(o) ==
    CASE wk.part \in {"sa", "rb"} -> o
      [] wk.part = "role"         -> [o EXCEPT !.names = wk.key]
      [] wk.part \in Commands     -> [o EXCEPT !.names = wk.key,
                                               !.sched = wk.ir.want[wk.part]]

(* Mutant: suspend compared by its value, and the arguments with the name  *)
(* of the IdlingResource.                                                  *)
cronJobNeedChangesByValue(o) ==
    o.sched # wk.ir.want[wk.part] \/ o.names # wk.key

(* suspend is compared as a pointer with a fresh one, and the second       *)
(* argument with the name of the CronJob: there is always a change.        *)
cronJobNeedChanges(o) == TRUE

(* Mutant: created without SetControllerReference.                         *)
NewObjectUnowned == SetValues([NoObject EXCEPT !.live = TRUE])

(* A new object with its controller reference.                             *)
NewObject == SetValues([NoObject EXCEPT !.live = TRUE, !.owner = wk.key, !.uid = wk.ir.uid])

(* What follows a Get from the cache.  A role is written without being     *)
(* compared, a service account and a role binding never again.             *)
AfterGet(o) ==
    CASE wk.part \in {"sa", "rb"} ->
            IF o.live THEN AfterPart ELSE [wk EXCEPT !.call = "Create"]
      [] wk.part = "role" ->
            IF o.live THEN [wk EXCEPT !.call = "Update", !.obj = o]
            ELSE [wk EXCEPT !.call = "Create"]
      [] wk.part \in Commands /\ wk.ir.want[wk.part] # None ->
            IF ~o.live THEN [wk EXCEPT !.call = "Create"]
            ELSE IF cronJobNeedChanges(o) THEN [wk EXCEPT !.call = "Update", !.obj = o]
            ELSE AfterPart
      [] OTHER ->
            IF o.live THEN [wk EXCEPT !.call = "Delete"] ELSE AfterPart

Take(i) ==
    /\ wk.call = "Free"
    /\ i \in queue
    /\ queue' = queue \ {i}
    /\ wk' = [FreeWorker EXCEPT !.call = "GetIdlingResource", !.key = i]
    /\ UNCHANGED <<irVars, objVars, timers, polls, left, env, faults>>

GetIdlingResource ==
    /\ wk.call = "GetIdlingResource"
    /\ LET inst == irCache[wk.key]
       IN  wk' = IF ~inst.live THEN Jump("Ok", NoCronIR)
                 ELSE IF ~inst.fin THEN Jump("AddFinalizer", inst)
                 ELSE [Jump("Get", inst) EXCEPT !.part = "sa"]
    /\ UNCHANGED <<irVars, objVars, queue, timers, polls, left, env, faults>>

AddFinalizer ==
    /\ wk.call = "AddFinalizer"
    /\ LET new == NextVersion(ir[wk.key], [wk.ir EXCEPT !.fin = TRUE])
       IN  IF CanUpdate(ir[wk.key], wk.ir)
           THEN WriteIR(wk.key, [wk.ir EXCEPT !.fin = TRUE])
                /\ wk' = [Jump("Get", new) EXCEPT !.part = "sa"]
           ELSE UNCHANGED irVars /\ wk' = Jump("Err", NoCronIR)
    /\ UNCHANGED <<objVars, queue, timers, polls, left, env, faults>>

(* Rules[0] of a role without rules.                                       *)
OutOfRange(o) == wk.part = "role" /\ o.live /\ o.names = NoRules

Get ==
    /\ wk.call = "Get"
    /\ ~OutOfRange(objCache[Slot])
    /\ wk' = AfterGet(objCache[Slot])
    /\ left' = left \ {<<wk.key, wk.part>>}
    /\ UNCHANGED <<irVars, objVars, queue, timers, polls, env, faults>>

(* The API server refuses a CronJob whose schedule it cannot parse, and    *)
(* one whose name leaves no room for the names of its Jobs.                *)
Refused ==
    /\ wk.part \in Commands
    /\ wk.ir.want[wk.part] \in Invalid \/ Length(wk.key, wk.part) > 52

(* AlreadyExists is an error, which a stale cache may cause.                *)
Create ==
    /\ wk.call = "Create"
    /\ IF obj[Slot].live \/ Refused
       THEN UNCHANGED objVars /\ wk' = Jump("Err", NoCronIR)
       ELSE WriteObject(Slot, NewObject) /\ wk' = AfterPart
    /\ UNCHANGED <<irVars, queue, timers, polls, left, env, faults>>

(* Mutant: the role is stamped with the time, so that a write that changes *)
(* nothing else is an event too.                                           *)
UpdateStamped ==
    /\ wk.call = "Update"
    /\ IF CanUpdate(obj[Slot], wk.obj) /\ ~Refused
       THEN /\ wk' = AfterPart
            /\ IF wk.part # "role" \/ SetValues(wk.obj) # obj[Slot]
               THEN WriteObject(Slot, SetValues(wk.obj))
               ELSE /\ Cardinality(Lagging \cup {Slot}) <= MaxLag
                    /\ objWatch' = [objWatch EXCEPT ![Slot] = <<obj[Slot]>>]
                    /\ UNCHANGED <<obj, objCache>>
       ELSE UNCHANGED objVars /\ wk' = Jump("Err", NoCronIR)
    /\ UNCHANGED <<irVars, queue, timers, polls, left, env, faults>>

(* Not retried in place: a conflict is an error of the reconciliation.     *)
Update ==
    /\ wk.call = "Update"
    /\ IF CanUpdate(obj[Slot], wk.obj) /\ ~Refused
       THEN WriteObject(Slot, SetValues(wk.obj)) /\ wk' = AfterPart
       ELSE UNCHANGED objVars /\ wk' = Jump("Err", NoCronIR)
    /\ UNCHANGED <<irVars, queue, timers, polls, left, env, faults>>

(* By name, whatever the version; one that is gone already is no error.    *)
Delete ==
    /\ wk.call = "Delete"
    /\ IF obj[Slot].live THEN WriteObject(Slot, NoObject) ELSE UNCHANGED objVars
    /\ wk' = AfterPart
    /\ UNCHANGED <<irVars, queue, timers, polls, left, env, faults>>

RemovedIR(i) == [NoCronIR EXCEPT !.uid = ir[i].uid]

(* The rest of Reconcile.  A kind it has no case for ends it; otherwise it *)
(* removes the finalizer at a deletion, and the API server the object, and *)
(* a workload that is missing has it called again.                         *)
ReconcileWithIdler ==
    /\ wk.call = "ReconcileWithIdler"
    /\ \/ /\ "unknown" \in Referents
          /\ UNCHANGED irVars /\ wk' = Jump("Ok", NoCronIR)
       \/ /\ wk.ir.deleting /\ Referents # {"unknown"}
          /\ IF CanUpdate(ir[wk.key], wk.ir)
             THEN WriteIR(wk.key, RemovedIR(wk.key)) /\ wk' = Jump("Ok", NoCronIR)
             ELSE UNCHANGED irVars /\ wk' = Jump("Err", NoCronIR)
       \/ /\ ~wk.ir.deleting /\ "workload" \in Referents
          /\ UNCHANGED irVars /\ wk' = Jump("Ok", NoCronIR)
       \/ /\ ~wk.ir.deleting /\ "missing" \in Referents
          /\ UNCHANGED irVars /\ wk' = Jump("RequeueAfter", NoCronIR)
    /\ UNCHANGED <<objVars, queue, timers, polls, left, env, faults>>

ReturnOk ==
    /\ wk.call = "Ok"
    /\ wk' = FreeWorker
    /\ UNCHANGED <<irVars, objVars, queue, timers, polls, left, env, faults>>

(* A timer of the same IdlingResource that runs already is sooner.         *)
ReturnRequeueAfter ==
    /\ wk.call = "RequeueAfter"
    /\ wk' = FreeWorker
    /\ polls' = polls \cup ({wk.key} \ timers)
    /\ UNCHANGED <<irVars, objVars, queue, timers, left, env, faults>>

(* Mutant: the error is swallowed.                                         *)
ReturnErrSwallowed ==
    /\ wk.call = "Err"
    /\ wk' = FreeWorker
    /\ UNCHANGED <<irVars, objVars, queue, timers, polls, left, env, faults>>

ReturnErr ==
    /\ wk.call = "Err"
    /\ wk' = FreeWorker
    /\ timers' = timers \cup {wk.key}
    /\ polls' = polls \ {wk.key}
    /\ UNCHANGED <<irVars, objVars, queue, left, env, faults>>

WorkerStep ==
    \/ GetIdlingResource \/ AddFinalizer \/ Get \/ Create \/ Update \/ Delete
    \/ ReconcileWithIdler \/ ReturnOk \/ ReturnRequeueAfter \/ ReturnErr

-----------------------------------------------------------------------------
(* The controller's runtime.                                               *)

TimerFires(i) ==
    /\ i \in timers
    /\ timers' = timers \ {i}
    /\ queue' = queue \cup {i}
    /\ UNCHANGED <<irVars, objVars, polls, wk, left, env, faults>>

PollFires(i) ==
    /\ i \in polls
    /\ polls' = polls \ {i}
    /\ queue' = queue \cup {i}
    /\ UNCHANGED <<irVars, objVars, timers, wk, left, env, faults>>

(* Mutant: only a new generation of the spec is an event.                  *)
DeliverIRSpecOnly(i) ==
    /\ irWatch[i] # <<>>
    /\ irCache' = [irCache EXCEPT ![i] = Head(irWatch[i])]
    /\ irWatch' = [irWatch EXCEPT ![i] = Tail(@)]
    /\ queue' = IF irCache[i].live /\ irCache'[i].live /\ irCache[i].want = irCache'[i].want
                THEN queue ELSE queue \cup {i}
    /\ UNCHANGED <<ir, objVars, timers, polls, wk, left, env, faults>>

DeliverIR(i) ==
    /\ irWatch[i] # <<>>
    /\ irCache' = [irCache EXCEPT ![i] = Head(irWatch[i])]
    /\ irWatch' = [irWatch EXCEPT ![i] = Tail(@)]
    /\ queue' = queue \cup {i}
    /\ UNCHANGED <<ir, objVars, timers, polls, wk, left, env, faults>>

OwnerOf(o) == IF o.live /\ o.owner # None THEN {o.owner} ELSE {}

(* Mutant: the deletion of an owned object is not an event.                *)
PassesFilterUndeleted(k, old, new) == new.live /\ (old.live => k[2] \notin Commands)

(* The filter drops every update of an owned CronJob: such a CronJob does  *)
(* not carry the annotation it asks for.                                   *)
PassesFilter(k, old, new) == old.live /\ new.live => k[2] \notin Commands

DeliverObject(k) ==
    /\ objWatch[k] # <<>>
    /\ LET old == objCache[k]
           new == Head(objWatch[k])
       IN  /\ objCache' = [objCache EXCEPT ![k] = new]
           /\ queue' = IF PassesFilter(k, old, new)
                       THEN queue \cup OwnerOf(old) \cup OwnerOf(new) ELSE queue
    /\ objWatch' = [objWatch EXCEPT ![k] = Tail(@)]
    /\ UNCHANGED <<irVars, obj, timers, polls, wk, left, env, faults>>

Listed == {i \in IRs : ir[i].live} \cup UNION {OwnerOf(obj[k]) : k \in Slots}

(* What was in memory is lost; every object listed is a create event.      *)
Restarts ==
    /\ wk' = FreeWorker
    /\ irWatch' = [i \in IRs |-> <<>>] /\ irCache' = ir
    /\ objWatch' = [k \in Slots |-> <<>>] /\ objCache' = obj
    /\ queue' = Listed
    /\ timers' = {} /\ polls' = {}
    /\ UNCHANGED <<ir, obj, left, env>>

CrashRestart ==
    /\ faults < MaxFaults
    /\ faults' = faults + 1
    /\ Restarts

(* The process panics, and is started again by the kubelet.                *)
Panic ==
    /\ wk.call = "Get"
    /\ OutOfRange(objCache[Slot])
    /\ Restarts
    /\ UNCHANGED faults

(* The CronJob the worker is at is looked for to be deleted.               *)
Unwanted == wk.part \in Commands /\ wk.ir.want[wk.part] = None

(* A call fails: before it took effect (taken at the call itself) or with  *)
(* its response lost (taken at the call that follows it).                  *)
CallFails ==
    /\ wk.call \notin {"Free", "Err"}
    /\ wk' = Jump("Err", NoCronIR)
    /\ UNCHANGED left

(* But a CronJob is deleted if Get returns no error, and that it returned  *)
(* one is not looked at again: the CronJob passes for one that is gone.    *)
GetFailsUnnoticed ==
    /\ wk.call = "Get" /\ Unwanted
    /\ wk' = AfterPart
    /\ left' = IF obj[Slot].live THEN left \cup {<<wk.key, wk.part>>} ELSE left

Fault ==
    /\ faults < MaxFaults
    /\ faults' = faults + 1
    /\ CallFails \/ GetFailsUnnoticed
    /\ UNCHANGED <<irVars, objVars, queue, timers, polls, env>>

(* An operator that does not know yet that the owner is gone creates the   *)
(* object anew; MaxStale bounds how often.                                 *)
CollectGarbage(k) ==
    /\ Orphan(obj[k])
    /\ obj[k].rv <= MaxStale \/ irWatch[obj[k].owner] = <<>>
    /\ WriteObject(k, NoObject)
    /\ UNCHANGED <<irVars, queue, timers, polls, wk, left, env, faults>>

-----------------------------------------------------------------------------
(* Users, and the controllers of the owned objects.                        *)

UserWritesIR(name, i, new) ==
    /\ name \in Writes
    /\ env < MaxEnv
    /\ env' = env + 1
    /\ WriteIR(i, new)
    /\ UNCHANGED <<objVars, queue, timers, polls, wk, left, faults>>

UserWritesObject(name, k, new) ==
    /\ name \in Writes
    /\ env < MaxEnv
    /\ env' = env + 1
    /\ WriteObject(k, new)
    /\ UNCHANGED <<irVars, queue, timers, polls, wk, left, faults>>

Wants == {want \in [Commands -> Schedules \cup {None}] :
             \A c \in Commands \ Strategies : want[c] = None}

CreateIR(i) ==
    /\ ~ir[i].live
    /\ \E want \in Wants :
          UserWritesIR("CreateIR", i, [NoCronIR EXCEPT !.live = TRUE, !.uid = ir[i].uid + 1, !.want = want])

EditStrategy(i, c) ==
    /\ ir[i].live
    /\ \E s \in (Schedules \cup {None}) \ {ir[i].want[c]} :
          UserWritesIR("EditStrategy", i, [ir[i] EXCEPT !.want[c] = s])

DeleteIR(i) ==
    /\ ir[i].live /\ ~ir[i].deleting
    /\ UserWritesIR("DeleteIR", i, IF ir[i].fin THEN [ir[i] EXCEPT !.deleting = TRUE]
                                   ELSE RemovedIR(i))

DeleteObject(k) == obj[k].live /\ UserWritesObject("DeleteObject", k, NoObject)

(* Rules[0] changed, or all rules removed.                                 *)
EditRole(k) ==
    /\ obj[k].live /\ k[2] = "role"
    /\ \/ UserWritesObject("EditRole", k, [obj[k] EXCEPT !.names = None])
       \/ UserWritesObject("EmptyRole", k, [obj[k] EXCEPT !.names = NoRules])

EditJob(k) ==
    /\ obj[k].live /\ k[2] \in Commands
    /\ UserWritesObject("EditJob", k, [obj[k] EXCEPT !.sched = None])

(* The CronJob controller writes the status: only the version changes.     *)
TouchJob(k) ==
    /\ obj[k].live /\ k[2] \in Commands
    /\ UserWritesObject("TouchJob", k, [obj[k] EXCEPT !.rv = @ + 1])

(* The periodic resync: an update event from every object to itself.       *)
Resync ==
    /\ "Resync" \in Writes
    /\ env < MaxEnv
    /\ env' = env + 1
    /\ queue' = queue \cup {i \in IRs : irCache[i].live}
                \cup UNION {OwnerOf(objCache[k]) :
                               k \in {x \in Slots : PassesFilter(x, objCache[x], objCache[x])}}
    /\ UNCHANGED <<irVars, objVars, timers, polls, wk, left, faults>>

Environment ==
    \/ Resync
    \/ \E i \in IRs : CreateIR(i) \/ DeleteIR(i) \/ \E c \in Strategies : EditStrategy(i, c)
    \/ \E k \in Slots : DeleteObject(k) \/ EditRole(k) \/ EditJob(k) \/ TouchJob(k)

-----------------------------------------------------------------------------
(* The operator's first start: users may already have created              *)
(* IdlingResources; it owns nothing yet.                                   *)
InitialIRs == {NoCronIR} \cup
    {[NoCronIR EXCEPT !.live = TRUE, !.uid = 1, !.want = want, !.rv = 1] : want \in Wants}

Init ==
    /\ ir \in [IRs -> InitialIRs]
    /\ irWatch = [i \in IRs |-> <<>>] /\ irCache = ir
    /\ obj = [k \in Slots |-> NoObject]
    /\ objWatch = [k \in Slots |-> <<>>] /\ objCache = obj
    /\ queue = {i \in IRs : ir[i].live}
    /\ timers = {} /\ polls = {}
    /\ wk = FreeWorker
    /\ left = {}
    /\ env = 0 /\ faults = 0

Next ==
    \/ WorkerStep
    \/ \E i \in IRs : Take(i) \/ TimerFires(i) \/ PollFires(i) \/ DeliverIR(i)
    \/ \E k \in Slots : DeliverObject(k) \/ CollectGarbage(k)
    \/ CrashRestart \/ Panic
    \/ Fault
    \/ Environment

Spec == Init /\ [][Next]_vars

(* As in KidleOperator; the garbage collector gets round to every orphan.  *)
Fairness ==
    /\ WF_vars(WorkerStep \/ Panic)
    /\ \A i \in IRs : /\ SF_vars(Take(i)) /\ WF_vars(TimerFires(i)) /\ WF_vars(PollFires(i))
                      /\ WF_vars(DeliverIR(i))
    /\ \A k \in Slots : WF_vars(DeliverObject(k)) /\ WF_vars(CollectGarbage(k))

LiveSpec == Spec /\ Fairness

-----------------------------------------------------------------------------
(* Properties.                                                             *)

(* Every variable keeps its type.                                          *)
TypeOK ==
    /\ ir \in [IRs -> CronIRObject] /\ irCache \in [IRs -> CronIRObject]
    /\ irWatch \in [IRs -> Seq(CronIRObject)]
    /\ obj \in [Slots -> OwnedObject] /\ objCache \in [Slots -> OwnedObject]
    /\ objWatch \in [Slots -> Seq(OwnedObject)]
    /\ queue \subseteq IRs /\ timers \subseteq IRs /\ polls \subseteq IRs
    /\ left \subseteq IRs \X Commands
    /\ wk \in Worker
    /\ wk.call # "Free" => wk.key \in IRs
    /\ wk.call \in {"Get", "Create", "Update", "Delete"} => wk.part \in Parts
    /\ env \in 0 .. MaxEnv /\ faults \in 0 .. MaxFaults

(* The operator has nothing to do, nothing is on its way to it and there   *)
(* is no garbage left to collect.  It may look again, every 2 seconds, for *)
(* a workload that is missing.                                             *)
AtRest ==
    /\ wk.call = "Free" /\ queue = {} /\ timers = {}
    /\ \A i \in IRs : irWatch[i] = <<>>
    /\ \A k \in Slots : objWatch[k] = <<>> /\ ~Orphan(obj[k])

Owns(i, p) ==
    LET o == obj[ToDNSName(i, p)]
    IN  o.live /\ o.owner = i /\ o.uid = ir[i].uid

HasRBAC(i) ==
    ir[i].live => /\ \A p \in {"sa", "role", "rb"} : Owns(i, p)
                  /\ obj[ToDNSName(i, "role")].names = i

(* At rest every IdlingResource has its own service account, its own role, *)
(* which names it, and its own role binding.                               *)
RBACAtRest == AtRest => \A i \in IRs : HasRBAC(i)

HasJobs(i) ==
    ir[i].live => \A c \in Commands :
        LET o == obj[ToDNSName(i, c)]
        IN  IF ir[i].want[c] = None THEN ~o.live \/ <<i, c>> \in left
            ELSE Owns(i, c) /\ o.names = i /\ o.sched = ir[i].want[c]

(* At rest the CronJobs are those the strategies ask for: one per strategy *)
(* that is set, on its schedule and for this IdlingResource, and none for  *)
(* a strategy that was taken away, unless the last look for it failed.     *)
JobsAtRest == AtRest => \A i \in IRs : HasJobs(i)

(* No deletion is forgotten: the operator never comes to rest while an     *)
(* IdlingResource waits for its finalizer to be removed, although the      *)
(* deletion may have come after the worker read the IdlingResource, or     *)
(* have failed at any of the objects that are written before it.           *)
NoDeletionForgotten == AtRest => \A i \in IRs : ~(ir[i].live /\ ir[i].deleting)

(* A role someone has emptied stops the operator, for all IdlingResources: *)
(* it panics after each restart until someone repairs the role.            *)
Emptied == \E k \in Slots : obj[k].live /\ obj[k].names = NoRules

(* The operator's own writes of owned objects bring it new events, but not *)
(* for ever: from some point on it writes nothing any more and nothing     *)
(* fails, though it goes on looking for a workload that is missing and     *)
(* each time writes the role and the CronJobs as they are.                 *)
Quiesces ==
    <>[](/\ timers = {}
         /\ \A i \in IRs : irWatch[i] = <<>>
         /\ \A k \in Slots : objWatch[k] = <<>>)

(* Nothing outlives its IdlingResource for good: a stale cache makes the   *)
(* operator create objects for one that is gone already, or that another   *)
(* of the same name has taken the place of, but it does not go on to, and  *)
(* the garbage collector gets hold of all of them.                         *)
NothingLeftBehind ==
    <>[](\A k \in Slots : obj[k].live => \E i \in IRs : /\ ir[i].live
                                                       /\ obj[k].owner = i
                                                       /\ obj[k].uid = ir[i].uid)

(* An IdlingResource that is deleted goes away, although its RBAC objects  *)
(* and CronJobs are written once more before its finalizer is removed.     *)
DeletionCompletes == \A i \in IRs : ir[i].deleting ~> (~ir[i].live \/ Emptied)
=============================================================================
