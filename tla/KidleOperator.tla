---------------------------- MODULE KidleOperator ----------------------------
(***************************************************************************)
(* The kidle operator: one worker that reconciles IdlingResources against  *)
(* the workloads they refer to, the informer caches it reads from, the     *)
(* work queue and its timers, and the users who edit both kinds of object  *)
(* while it runs.                                                          *)
(*                                                                         *)
(* One step of the worker is one call it makes: a read of a cache or an    *)
(* Update at the API server, with the decisions the code takes on the      *)
(* result up to its next call.  Between two calls anything may happen:     *)
(* users write, caches advance, the operator crashes.                      *)
(***************************************************************************)
EXTENDS Idlers, Sequences

CONSTANTS
    UserLevels,   \* levels users give to workloads
    MaxTries,     \* tries of retry.RetryOnConflict (DefaultRetry: 5)
    FreshReads,   \* TRUE: an object is read only when its cache has caught up
    MaxBackoff,   \* failures after which a back-off outlasts any cache lag
    MaxEnv,       \* bound: writes of users, and resyncs
    MaxFaults     \* bound: failed calls and crashes

ASSUME LevelsAssumption == UserLevels \subseteq Nat
ASSUME BoundsAssumption == /\ MaxTries \in Nat \ {0}
                           /\ MaxBackoff \in Nat \ {0}
                           /\ MaxEnv \in Nat /\ MaxFaults \in Nat
ASSUME FreshReadsAssumption == FreshReads \in BOOLEAN

VARIABLES
    ir,       \* IdlingResources at the API server
    irWatch,  \* versions of each that the informer has not received yet
    irCache,  \* what the informer's cache holds
    wl,       \* the same three for workloads
    wlWatch,
    wlCache,
    queue,    \* IdlingResources waiting in the work queue
    timers,   \* IdlingResources to be queued after a delay
    fails,    \* failures the rate limiter counts for each, up to MaxBackoff
    wk,       \* the worker: what it is about to do, with its local copies
    acted,    \* history: version each IdlingResource was last reconciled at
    env,      \* writes of users and resyncs so far
    faults    \* failed calls and crashes so far

irVars   == <<ir, irWatch, irCache>>
wlVars   == <<wl, wlWatch, wlCache>>
runVars  == <<queue, timers, fails>>
vars     == <<irVars, wlVars, runVars, wk, acted, env, faults>>

RetryCalls == {"SetReference", "Wakeup", "Idle", "RemoveAnnotations"}
Calls == RetryCalls \cup
         {"Free", "GetIdlingResource", "AddFinalizer", "ReconcileCronStrategies",
          "GetWorkload", "RemoveFinalizer", "Ok", "RequeueAfter", "Err"}

(* key is the request; ir and wl the copies in memory; target the level     *)
(* Wakeup restores; phase and tries the state of a RetryOnConflict loop.    *)
Worker == [call : Calls, phase : {"get", "put"}, key : IRs \cup {None},
           ir : IRObject, wl : WorkloadObject, target : Nat, tries : Nat]

FreeWorker == [call |-> "Free", phase |-> "get", key |-> None, ir |-> NoIR,
               wl |-> NoWorkload, target |-> 0, tries |-> 0]

LevelsOf(w) == {n \in UserLevels : KindOf[w] = "CronJob" => n <= 1}

IRSynced(i)       == irWatch[i] = <<>>
WorkloadSynced(w) == wlWatch[w] = <<>>
AllSynced == (\A i \in IRs : IRSynced(i)) /\ (\A w \in Workloads : WorkloadSynced(w))

-----------------------------------------------------------------------------
(* Writes at the API server; each new version goes to the watch.           *)

WriteIR(i, obj) ==
    LET new == NextVersion(ir[i], obj)
    IN  /\ ir' = [ir EXCEPT ![i] = new]
        /\ irWatch' = IF new = ir[i] THEN irWatch
                      ELSE [irWatch EXCEPT ![i] = Append(irWatch[i], new)]
        /\ UNCHANGED irCache

WriteWorkload(w, obj) ==
    LET new == NextVersion(wl[w], obj)
    IN  /\ wl' = [wl EXCEPT ![w] = new]
        /\ wlWatch' = IF new = wl[w] THEN wlWatch
                      ELSE [wlWatch EXCEPT ![w] = Append(wlWatch[w], new)]
        /\ UNCHANGED wlCache

(* The version that records the removal of an IdlingResource.              *)
Removed(obj) == [obj EXCEPT !.live = FALSE, !.fin = FALSE, !.deleting = FALSE]

-----------------------------------------------------------------------------
(* The worker.                                                             *)

(* Goes on to another call of the same reconciliation.                     *)
Jump(call, inst) == [FreeWorker EXCEPT !.call = call, !.key = wk.key, !.ir = inst]

Kind == KindOf[wk.ir.ref]

(* ReconcileWithIdler once the annotations are gone (o is the workload as  *)
(* last read or written) ...                                               *)
AfterRemoveAnnotations(o) ==
    IF wk.ir.fin THEN Jump("RemoveFinalizer", wk.ir) ELSE Jump("Ok", wk.ir)

(* Mutant: the finalizer goes while the annotations are still there.       *)
AfterWakeupUnreleased(o) ==
    IF ~wk.ir.deleting THEN Jump("Ok", wk.ir) ELSE AfterRemoveAnnotations(o)

(* ... once the workload is woken up ...                                   *)
AfterWakeup(o) ==
    IF ~wk.ir.deleting THEN Jump("Ok", wk.ir)
    ELSE IF HasAnnotationsToRemove(o) THEN Jump("RemoveAnnotations", wk.ir)
    ELSE AfterRemoveAnnotations(o)

(* Mutants: deletion not handled; no new attempt.                          *)
reconcileResourceNotFoundRequeues(o) == Jump("RequeueAfter", wk.ir)
reconcileResourceNotFoundGivesUp(o) ==
    IF wk.ir.deleting THEN AfterRemoveAnnotations(o) ELSE Jump("Ok", wk.ir)

reconcileResourceNotFoundReturns(o) ==
    IF wk.ir.deleting THEN Jump("Ok", wk.ir) ELSE Jump("RequeueAfter", wk.ir)

reconcileResourceNotFound(o) ==
    IF wk.ir.deleting THEN AfterRemoveAnnotations(o)
    ELSE Jump("RequeueAfter", wk.ir)

AfterIdle(o) == Jump("Ok", wk.ir)

StartWakeup(o) ==
    IF WakeupSkips(Kind, o) THEN AfterWakeup(o)
    ELSE [Jump("Wakeup", wk.ir) EXCEPT !.target = WakeupLevel(Kind, o)]

(* Mutant: a deletion does not wake the workload up.                       *)
AfterSetReferenceNoWakeup(o) ==
    IF wk.ir.deleting THEN AfterWakeup(o)
    ELSE IF NeedWakeup(Kind, wk.ir, o) THEN StartWakeup(o)
    ELSE IF NeedIdle(Kind, wk.ir, o) THEN Jump("Idle", wk.ir)
    ELSE Jump("Ok", wk.ir)

(* Mutant: the flag looked at before the deletion.                         *)
AfterSetReferenceIdleFirst(o) ==
    IF NeedIdle(Kind, wk.ir, o) THEN Jump("Idle", wk.ir)
    ELSE IF wk.ir.deleting \/ NeedWakeup(Kind, wk.ir, o) THEN StartWakeup(o)
    ELSE Jump("Ok", wk.ir)

(* ... and once the workload carries a reference.                          *)
AfterSetReference(o) ==
    IF wk.ir.deleting THEN StartWakeup(o)
    ELSE IF NeedWakeup(Kind, wk.ir, o) THEN StartWakeup(o)
    ELSE IF NeedIdle(Kind, wk.ir, o) THEN Jump("Idle", wk.ir)
    ELSE Jump("Ok", wk.ir)

ReconcileWithIdler(o) ==
    IF o.ref = None THEN Jump("SetReference", wk.ir) ELSE AfterSetReference(o)

Take(i) ==
    /\ wk.call = "Free"
    /\ i \in queue
    /\ queue' = queue \ {i}
    /\ wk' = [FreeWorker EXCEPT !.call = "GetIdlingResource", !.key = i]
    /\ UNCHANGED <<irVars, wlVars, timers, fails, acted, env, faults>>

GetIdlingResource ==
    /\ wk.call = "GetIdlingResource"
    /\ FreshReads => IRSynced(wk.key)
    /\ LET inst == irCache[wk.key]
       IN  wk' = IF ~inst.live THEN Jump("Ok", NoIR)
                 ELSE IF ~inst.fin THEN Jump("AddFinalizer", inst)
                 ELSE Jump("ReconcileCronStrategies", inst)
    /\ UNCHANGED <<irVars, wlVars, runVars, acted, env, faults>>

(* Mutant: written whatever the version at the API server.                 *)
AddFinalizerForced ==
    /\ wk.call = "AddFinalizer"
    /\ IF ir[wk.key].live
       THEN WriteIR(wk.key, [wk.ir EXCEPT !.fin = TRUE])
            /\ wk' = Jump("ReconcileCronStrategies", wk.ir)
       ELSE UNCHANGED irVars /\ wk' = Jump("Err", wk.ir)
    /\ UNCHANGED <<wlVars, runVars, acted, env, faults>>

AddFinalizer ==
    /\ wk.call = "AddFinalizer"
    /\ LET new == NextVersion(ir[wk.key], [wk.ir EXCEPT !.fin = TRUE])
       IN  IF CanUpdate(ir[wk.key], wk.ir)
           THEN WriteIR(wk.key, [wk.ir EXCEPT !.fin = TRUE])
                /\ wk' = Jump("ReconcileCronStrategies", new)
           ELSE UNCHANGED irVars /\ wk' = Jump("Err", wk.ir)
    /\ UNCHANGED <<wlVars, runVars, acted, env, faults>>

(* Writes the objects CronStrategies models, none of these.  A kind that   *)
(* Reconcile has no case for ends here, successfully.                      *)
ReconcileCronStrategies ==
    /\ wk.call = "ReconcileCronStrategies"
    /\ wk' = Jump(IF Kind \in SupportedKinds THEN "GetWorkload" ELSE "Ok", wk.ir)
    /\ UNCHANGED <<irVars, wlVars, runVars, acted, env, faults>>

GetWorkload ==
    /\ wk.call = "GetWorkload"
    /\ FreshReads => WorkloadSynced(wk.ir.ref)
    /\ LET o == wlCache[wk.ir.ref]
       IN  wk' = IF o.live THEN ReconcileWithIdler(o)
                 ELSE reconcileResourceNotFound(o)
    /\ UNCHANGED <<irVars, wlVars, runVars, acted, env, faults>>

(* A try of retry.RetryOnConflict: read the workload again ...             *)
RetryGet(call) ==
    /\ wk.call = call /\ wk.phase = "get"
    /\ FreshReads => WorkloadSynced(wk.ir.ref)
    /\ LET o == wlCache[wk.ir.ref]
       IN  wk' = IF o.live THEN [wk EXCEPT !.phase = "put", !.wl = o]
                 ELSE Jump("Err", wk.ir)
    /\ UNCHANGED <<irVars, wlVars, runVars, acted, env, faults>>

(* ... then write it and go on; a conflict starts another try, or is the   *)
(* error after the last one.                                               *)
RetryPut(call, edited, next) ==
    /\ wk.call = call /\ wk.phase = "put"
    /\ LET w == wk.ir.ref
       IN  IF CanUpdate(wl[w], wk.wl)
           THEN WriteWorkload(w, edited) /\ wk' = next
           ELSE /\ UNCHANGED wlVars
                /\ wk' = IF wl[w].live /\ wk.tries + 1 < MaxTries
                         THEN [wk EXCEPT !.phase = "get", !.wl = NoWorkload,
                                         !.tries = wk.tries + 1]
                         ELSE Jump("Err", wk.ir)
    /\ UNCHANGED <<irVars, runVars, acted, env, faults>>

SetReference ==
    \/ RetryGet("SetReference")
    \/ RetryPut("SetReference", SetReferenceEdit(wk.wl, wk.key),
                AfterSetReference(NextVersion(wl[wk.ir.ref], SetReferenceEdit(wk.wl, wk.key))))

Wakeup ==
    \/ RetryGet("Wakeup")
    \/ RetryPut("Wakeup", WakeupEdit(wk.wl, wk.target),
                AfterWakeup(NextVersion(wl[wk.ir.ref], WakeupEdit(wk.wl, wk.target))))

Idle ==
    \/ RetryGet("Idle")
    \/ RetryPut("Idle", IdleEdit(Kind, wk.wl),
                AfterIdle(NextVersion(wl[wk.ir.ref], IdleEdit(Kind, wk.wl))))

RemoveAnnotations ==
    \/ RetryGet("RemoveAnnotations")
    \/ RetryPut("RemoveAnnotations", RemoveAnnotationsEdit(wk.wl),
                AfterRemoveAnnotations(NextVersion(wl[wk.ir.ref], RemoveAnnotationsEdit(wk.wl))))

(* The only finalizer of an object that is being deleted: the API server   *)
(* then removes the object.                                                *)
RemoveFinalizer ==
    /\ wk.call = "RemoveFinalizer"
    /\ IF CanUpdate(ir[wk.key], wk.ir)
       THEN WriteIR(wk.key, Removed(wk.ir)) /\ wk' = Jump("Ok", wk.ir)
       ELSE UNCHANGED irVars /\ wk' = Jump("Err", wk.ir)
    /\ UNCHANGED <<wlVars, runVars, acted, env, faults>>

(* The three ways Reconcile returns.                                       *)
ReturnOk ==
    /\ wk.call = "Ok"
    /\ wk' = FreeWorker
    /\ acted' = [acted EXCEPT ![wk.key] = wk.ir.rv]
    /\ fails' = [fails EXCEPT ![wk.key] = 0]
    /\ UNCHANGED <<irVars, wlVars, queue, timers, env, faults>>

ReturnRequeueAfter ==
    /\ wk.call = "RequeueAfter"
    /\ wk' = FreeWorker
    /\ timers' = timers \cup {wk.key}
    /\ fails' = [fails EXCEPT ![wk.key] = 0]
    /\ UNCHANGED <<irVars, wlVars, queue, acted, env, faults>>

(* Mutant: the error is swallowed.                                         *)
ReturnErrSwallowed ==
    /\ wk.call = "Err"
    /\ wk' = FreeWorker
    /\ UNCHANGED <<irVars, wlVars, runVars, acted, env, faults>>

ReturnErr ==
    /\ wk.call = "Err"
    /\ wk' = FreeWorker
    /\ timers' = timers \cup {wk.key}
    /\ fails' = [fails EXCEPT ![wk.key] = IF @ < MaxBackoff THEN @ + 1 ELSE @]
    /\ UNCHANGED <<irVars, wlVars, queue, acted, env, faults>>

WorkerStep ==
    \/ GetIdlingResource \/ AddFinalizer \/ ReconcileCronStrategies
    \/ GetWorkload \/ SetReference \/ Wakeup \/ Idle \/ RemoveAnnotations
    \/ RemoveFinalizer \/ ReturnOk \/ ReturnRequeueAfter \/ ReturnErr

-----------------------------------------------------------------------------
(* The controller's runtime: delayed requests, watch events, resyncs.      *)

TimerFires(i) ==
    /\ i \in timers
    /\ fails[i] < MaxBackoff \/ AllSynced
    /\ timers' = timers \ {i}
    /\ queue' = queue \cup {i}
    /\ UNCHANGED <<irVars, wlVars, fails, wk, acted, env, faults>>

(* Mutant: only a change of idle, a creation or a deletion counts.         *)
DeliverIRIdleOnly(i) ==
    /\ irWatch[i] # <<>>
    /\ irCache' = [irCache EXCEPT ![i] = Head(irWatch[i])]
    /\ irWatch' = [irWatch EXCEPT ![i] = Tail(@)]
    /\ LET new == Head(irWatch[i]) old == irCache[i]
       IN  queue' = IF <<new.live, new.idle, new.deleting>> = <<old.live, old.idle, old.deleting>>
                    THEN queue ELSE queue \cup {i}
    /\ UNCHANGED <<ir, wlVars, timers, fails, wk, acted, env, faults>>

(* Every event of an IdlingResource passes the event filter.               *)
DeliverIR(i) ==
    /\ irWatch[i] # <<>>
    /\ irCache' = [irCache EXCEPT ![i] = Head(irWatch[i])]
    /\ irWatch' = [irWatch EXCEPT ![i] = Tail(@)]
    /\ queue' = queue \cup {i}
    /\ UNCHANGED <<ir, wlVars, timers, fails, wk, acted, env, faults>>

DeliverWorkload(w) ==
    /\ wlWatch[w] # <<>>
    /\ wlCache' = [wlCache EXCEPT ![w] = Head(wlWatch[w])]
    /\ wlWatch' = [wlWatch EXCEPT ![w] = Tail(@)]
    /\ queue' = queue \cup WorkloadRequests(wlCache[w], Head(wlWatch[w]))
    /\ UNCHANGED <<irVars, wl, timers, fails, wk, acted, env, faults>>

LiveIRs(objects) == {i \in IRs : objects[i].live}

ReferencesIn(objects) ==
    UNION {objectForIdlingResourceMapper(objects[w]) :
              w \in {x \in Workloads : objects[x].live}}

(* The periodic resync: an update event from every object to itself.       *)
Resync ==
    /\ env < MaxEnv
    /\ env' = env + 1
    /\ queue' = queue \cup LiveIRs(irCache)
                \cup UNION {WorkloadRequests(wlCache[w], wlCache[w]) : w \in Workloads}
    /\ UNCHANGED <<irVars, wlVars, timers, fails, wk, acted, faults>>

(* The operator stops and starts again: what it had in memory is lost, the *)
(* caches are listed anew and every object listed is a create event.       *)
CrashRestart ==
    /\ faults < MaxFaults
    /\ faults' = faults + 1
    /\ wk' = FreeWorker
    /\ irWatch' = [i \in IRs |-> <<>>] /\ irCache' = ir
    /\ wlWatch' = [w \in Workloads |-> <<>>] /\ wlCache' = wl
    /\ queue' = LiveIRs(ir) \cup ReferencesIn(wl)
    /\ timers' = {}
    /\ fails' = [i \in IRs |-> 0]
    /\ UNCHANGED <<ir, wl, acted, env>>

(* A call fails: before it took effect (taken at the call itself) or with  *)
(* its response lost (taken at the call that follows it).                  *)
Fault ==
    /\ faults < MaxFaults
    /\ faults' = faults + 1
    /\ wk.call \notin {"Free", "Err"}
    /\ wk' = Jump("Err", wk.ir)
    /\ UNCHANGED <<irVars, wlVars, runVars, acted, env>>

-----------------------------------------------------------------------------
(* Users, kidlectl and the jobs of the cron strategies.                    *)

NewIR(idle, w) == [NoIR EXCEPT !.live = TRUE, !.idle = idle, !.ref = w]
NewWorkload(n) == [NoWorkload EXCEPT !.live = TRUE, !.level = n]

UserWritesIR(i, obj) ==
    /\ env < MaxEnv
    /\ env' = env + 1
    /\ WriteIR(i, obj)
    /\ UNCHANGED <<wlVars, runVars, wk, acted, faults>>

UserWritesWorkload(w, obj) ==
    /\ env < MaxEnv
    /\ env' = env + 1
    /\ WriteWorkload(w, obj)
    /\ UNCHANGED <<irVars, runVars, wk, acted, faults>>

CreateIR(i) ==
    /\ ~ir[i].live
    /\ \E idle \in BOOLEAN, w \in Workloads : UserWritesIR(i, NewIR(idle, w))

SetIdle(i) ==
    /\ ir[i].live
    /\ UserWritesIR(i, [ir[i] EXCEPT !.idle = ~@])

EditRef(i) ==
    /\ ir[i].live
    /\ \E w \in Workloads \ {ir[i].ref} : UserWritesIR(i, [ir[i] EXCEPT !.ref = w])

(* Without a finalizer the object goes at once.                            *)
DeleteIR(i) ==
    /\ ir[i].live /\ ~ir[i].deleting
    /\ UserWritesIR(i, IF ir[i].fin THEN [ir[i] EXCEPT !.deleting = TRUE]
                       ELSE Removed(ir[i]))

CreateWorkload(w) ==
    /\ ~wl[w].live
    /\ \E n \in LevelsOf(w) : UserWritesWorkload(w, NewWorkload(n))

ScaleWorkload(w) ==
    /\ wl[w].live
    /\ \E n \in LevelsOf(w) \ {wl[w].level} :
          UserWritesWorkload(w, [wl[w] EXCEPT !.level = n])

(* Another controller writes the status: only the version changes.         *)
TouchWorkload(w) ==
    /\ wl[w].live
    /\ UserWritesWorkload(w, [wl[w] EXCEPT !.rv = @ + 1])

DeleteWorkload(w) ==
    /\ wl[w].live
    /\ UserWritesWorkload(w, NoWorkload)

Environment ==
    \/ Resync
    \/ \E i \in IRs : CreateIR(i) \/ SetIdle(i) \/ EditRef(i) \/ DeleteIR(i)
    \/ \E w \in Workloads : \/ CreateWorkload(w) \/ ScaleWorkload(w)
                            \/ TouchWorkload(w) \/ DeleteWorkload(w)

-----------------------------------------------------------------------------
(* The operator's first start: users may already have created objects, no  *)
(* object carries a trace of kidle.                                        *)
InitialIRs == {NoIR} \cup {[NewIR(idle, w) EXCEPT !.rv = 1] : idle \in BOOLEAN, w \in Workloads}
InitialWorkloads(w) == {NoWorkload} \cup {NewWorkload(n) : n \in LevelsOf(w)}

Init ==
    /\ ir \in [IRs -> InitialIRs]
    /\ wl \in {f \in [Workloads -> UNION {InitialWorkloads(w) : w \in Workloads}] :
                   \A w \in Workloads : f[w] \in InitialWorkloads(w)}
    /\ irWatch = [i \in IRs |-> <<>>] /\ irCache = ir
    /\ wlWatch = [w \in Workloads |-> <<>>] /\ wlCache = wl
    /\ queue = LiveIRs(ir)
    /\ timers = {}
    /\ fails = [i \in IRs |-> 0]
    /\ wk = FreeWorker
    /\ acted = [i \in IRs |-> 0]
    /\ env = 0 /\ faults = 0

Next ==
    \/ WorkerStep
    \/ \E i \in IRs : Take(i) \/ TimerFires(i) \/ DeliverIR(i)
    \/ \E w \in Workloads : DeliverWorkload(w)
    \/ CrashRestart
    \/ Fault
    \/ Environment

Spec == Init /\ [][Next]_vars

(* The worker goes on while there is work, a queued request is taken in    *)
(* its turn, delays end and watches deliver.  Users owe nothing.           *)
Fairness ==
    /\ WF_vars(WorkerStep)
    /\ \A i \in IRs : SF_vars(Take(i)) /\ WF_vars(TimerFires(i)) /\ WF_vars(DeliverIR(i))
    /\ \A w \in Workloads : WF_vars(DeliverWorkload(w))

LiveSpec == Spec /\ Fairness

-----------------------------------------------------------------------------
(* Properties.                                                             *)

(* Every variable keeps its type; what a Reconcile holds in memory is an   *)
(* object the API server could have stored.                                *)
TypeOK ==
    /\ ir \in [IRs -> IRObject] /\ irCache \in [IRs -> IRObject]
    /\ irWatch \in [IRs -> Seq(IRObject)]
    /\ wl \in [Workloads -> WorkloadObject] /\ wlCache \in [Workloads -> WorkloadObject]
    /\ wlWatch \in [Workloads -> Seq(WorkloadObject)]
    /\ queue \subseteq IRs /\ timers \subseteq IRs
    /\ fails \in [IRs -> 0 .. MaxBackoff]
    /\ wk \in Worker
    /\ wk.call # "Free" => wk.key \in IRs
    /\ acted \in [IRs -> Nat]
    /\ env \in 0 .. MaxEnv /\ faults \in 0 .. MaxFaults

(* The operator has nothing to do and nothing is on its way to it.         *)
AtRest == wk.call = "Free" /\ queue = {} /\ timers = {} /\ AllSynced

(* No update of an IdlingResource is forgotten: whatever mix of stale      *)
(* reads, conflicts, failed calls and crashes came before, the operator    *)
(* never comes to rest before it reconciled the last version of each.      *)
NoLostRequest ==
    AtRest => \A i \in IRs : ir[i].live => acted[i] = ir[i].rv

(* No deletion is forgotten: the operator never comes to rest while an     *)
(* IdlingResource of a kind it has an idler for waits for its finalizer to *)
(* be removed, whichever of the writes on the way there failed or was made *)
(* on a stale copy.                                                        *)
NoDeletionForgotten ==
    AtRest => \A i \in IRs : ir[i].live /\ KindOf[ir[i].ref] \in SupportedKinds
                                => ~ir[i].deleting

(* The operator's two Updates of an IdlingResource send the whole object   *)
(* it read earlier; they never undo what a user wrote to its spec since,   *)
(* and remove only an IdlingResource whose deletion a user asked for.      *)
KeepsIntent ==
    wk' # wk => \A i \in IRs :
        /\ ir[i].live /\ ir'[i].live => /\ ir'[i].idle = ir[i].idle
                                       /\ ir'[i].ref = ir[i].ref
        /\ ir[i].live /\ ~ir'[i].live => ir[i].deleting

OperatorKeepsIntent == [][KeepsIntent]_vars

QuietAt(w) == ~KidleChangedPredicate(wl[w], wl'[w]) \/ wl'[w] = wl[w]

(* The operator's own writes of a workload never pass the event filter: it *)
(* does not wake itself up, so a reconciliation cannot feed the next one.  *)
QuietWrites == [][wk' # wk => \A w \in Workloads : QuietAt(w)]_vars

Scaled(w) == KindOf[w] \in {"Deployment", "StatefulSet"}

(* Replicas taken away are saved: the write by which Idle scales a         *)
(* workload to zero records the number it had in that very version, also   *)
(* when the copy first read was stale and users scaled it in between.      *)
SavesReplicas ==
    wk' # wk /\ wk.call = "Idle" => \A w \in Workloads :
        Scaled(w) /\ wl[w].level > 0 /\ wl'[w].level = 0
           => wl'[w].prev = wl[w].level

IdleSavesReplicas == [][SavesReplicas]_vars

(* owner says which workloads are whose: users point no IdlingResource but *)
(* its owner at a workload that has one, and share the others as they      *)
(* like.                                                                   *)
MayReferTo(owner, i, w) == owner[w] \in IRs => owner[w] = i
Dedicated(owner) == \A i \in IRs : ir[i].live => MayReferTo(owner, i, ir[i].ref)

(* The workload, if there is one, is as the IdlingResource asks.           *)
Follows(i) ==
    ir[i].live /\ wl[ir[i].ref].live => (ir[i].idle <=> wl[ir[i].ref].level = 0)

(* At rest each workload is in the state its IdlingResource asks for.      *)
AtRestAgrees == AtRest => \A i \in IRs : Follows(i)

(* The wakeup that brings a workload up from zero restores the replicas    *)
(* its annotation holds at that moment, or 1 where there is none.          *)
WakeRestores ==
    [][wk' # wk => \A w \in Workloads :
          wl[w].level = 0 /\ wl'[w].level > 0
             => wl'[w].level = IF wl[w].prev = None THEN 1 ELSE wl[w].prev]_vars

(* The saved replicas never say zero: a wakeup always starts something.    *)
SavedReplicasPositive == \A w \in Workloads : wl[w].prev # 0

(* The finalizer comes off last: at that moment the workload, if it still  *)
(* exists, neither refers to the IdlingResource nor holds saved replicas   *)
(* that a later IdlingResource would restore.                              *)
ReleasedAtRemoval ==
    [][wk' # wk => \A i \in IRs : ir[i].live /\ ~ir'[i].live
          => LET o == wl[ir[i].ref]
             IN  o.live => o.ref = None /\ o.prev = None]_vars

(* ... and it runs again.                                                  *)
WokenAtRemoval ==
    [][wk' # wk => \A i \in IRs : ir[i].live /\ ~ir'[i].live
          => LET o == wl[ir[i].ref] IN o.live => o.level > 0]_vars

(* The operator leaves the number of replicas of a running workload alone, *)
(* unless it idles it.                                                     *)
AwakeUntouched ==
    [][wk' # wk => \A w \in Workloads :
          wl[w].level > 0 => wl'[w].level \in {0, wl[w].level}]_vars

(* Every IdlingResource whose deletion was asked for is let go.            *)
DeletionCompletes ==
    \A i \in IRs : ir[i].live /\ ir[i].deleting ~> ~ir[i].live

(* Once users are done, every workload reaches the state its               *)
(* IdlingResource asks for and stays in it.                                *)
Convergence == \A i \in IRs : <>[]Follows(i)
=============================================================================
