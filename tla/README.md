# Verification of kidle

TLA+ models of the kidle operator and of `kidlectl`, model-checked with TLC, and
theorems about them checked with TLAPS. Paths below are relative to the
repository.

## 1. The system

Kidle is a Kubernetes operator. Users create an `IdlingResource` (IR) that refers
to one workload (Deployment, StatefulSet or CronJob) and has a flag `spec.idle`;
the operator scales the workload to zero (suspends it) or wakes it up, and runs
CronJobs that set the flag on a schedule with `kidlectl`.

| Component | Source | State it keeps | Operations |
|---|---|---|---|
| Reconcile loop | `pkg/controllers/idlingresource_controller.go` | none between calls; in a call, the copies it read | `Reconcile`, `ReconcileWithIdler`, `reconcileResourceNotFound`, `addFinalizer`, `removeFinalizer` |
| Idlers | `pkg/controllers/idler/*.go` | three annotations on the workload: reference, previous replicas, expected state | `SetReference`, `NeedIdle`, `NeedWakeup`, `Idle`, `Wakeup`, `RemoveAnnotations` |
| Watches, event filter, mapper | `idlingresource_controller.go` 274-379 | informer caches, work queue (library) | `SetupWithManager`, `KidleChangedPredicate`, `objectForIdlingResourceMapper` |
| Cron strategies | `pkg/controllers/cron_strategies.go` | a service account, a role, a role binding and up to two CronJobs per IR | `ReconcileCronStrategies`, `createRBAC`, `createOrUpdateCronJob` |
| Names | `pkg/utils/k8s/name.go` | none | `ToDNSName` |
| kidlectl | `cmd/kidlectl/` | none | `ApplyDesiredIdleState`, `CreateIdlingResource` |
| Operator process | `cmd/operator/main.go` | none persisted | start, crash, restart |
| API types, manifests, events, logs | `pkg/api`, `config` | | data, not modelled as such |

**How they interact.** All state is at the API server. Every client (operator,
`kidlectl`, users, controllers of workloads) reads an object and writes it back
whole; the server refuses an Update of a version that is not the last one. The
operator reads from informer caches that lag behind, and is woken up by watch
events that pass `KidleChangedPredicate`, by delayed requests and by its own
errors through the rate limiter. One worker handles one request at a time.

**What is hard.** Decisions taken on stale cached copies and applied to later
versions; errors, lost responses and crashes between two of the half-dozen
writes of a reconciliation; the operator's own writes coming back as events; an
event filter that may drop the only event that would have repaired a missed
decision; deletion with a finalizer racing users and workloads that come and go;
objects re-created under the same name; several IRs for one workload. The list
with lines is in `PROJECT.json` under `hazards`.

**What makes each part correct.** Reconcile: no change of an IR is forgotten, its
spec is never overwritten, deletion always completes and leaves the workload
released and running. Idlers: the workload ends up as the flag says, and gets
back exactly the replicas taken away. Filter: the operator does not feed itself.
Cron strategies: at rest the objects are those the strategies call for, and none
outlives its owner for good. kidlectl: exit code 0 is true, only the flag is touched, and
a scheduled change is not lost.

## 2. Modules

| Module | Models |
|---|---|
| `ApiServer` | optimistic concurrency: `CanUpdate`, `NextVersion` |
| `Idlers` | the records of both kinds of object; the decisions and edits of the three idlers; the event filter and mapper as functions of two versions |
| `KidleOperator` | the operator at work: API server, watches, caches, queue, timers, worker, crash, users |
| `IdleContract` | abstract: what may happen to a workload, and on whose order |
| `KidleOperatorContract` | the refinement mapping from `KidleOperator` to `IdleContract` |
| `DNSNames` | `ToDNSName`: lengths, shortening, which names are equal |
| `CronStrategies` | the owned objects: API server, watches, caches, the steps of `ReconcileCronStrategies`, garbage collector, users |
| `CronContract` | abstract: what the operator may do to an owned object, and on whose order |
| `CronStrategiesContract` | the refinement mapping from `CronStrategies` to `CronContract` |
| `Kidlectl` | concurrent `idle`, `wakeup` and `create` commands on one IR |
| `AtomicFlag` | abstract: each command takes effect in one step, or fails |
| `KidlectlAtomic` | the refinement mapping from `Kidlectl` to `AtomicFlag` |
| `MCKidleOperator`, `MCCronStrategies`, `MCKidlectl` | constant values for TLC |
| `KidleOperatorTyping`, `KidleOperatorSafety`, `KidleOperatorRelease`, `KidleOperatorFresh`, `KidleOperatorRefinement` | theorems about `KidleOperator`, with proofs |
| `CronStrategiesTyping`, `CronStrategiesSafety` | theorems about `DNSNames` and `CronStrategies` |
| `KidlectlSafety` | theorems about `Kidlectl` |

**A level instead of replicas.** In `Idlers` and `KidleOperator` a workload has a
`level`: its replicas, or for a CronJob 1 when it runs and 0 when it is suspended.
The expected-state annotation is written in the same terms.

**Actions and code (KidleOperator).** `wk` is the worker: `wk.call` is the call
it is about to make, `wk.ir` the IR in memory, `wk.wl` the workload read in a
retry loop. One action is one call of the code to the cache or the API server,
with the decisions up to the next call: `GetIdlingResource`, `AddFinalizer`,
`GetWorkload`, and for each of `SetReference`, `Wakeup`, `Idle`,
`RemoveAnnotations` a get and a put (one try of `retry.RetryOnConflict`).
`After...` operators say where the code goes on, so a call that the code skips is
skipped in the same step. `ReturnOk`, `ReturnRequeueAfter` and `ReturnErr` are
the three results of `Reconcile`. `Take`, `TimerFires`, `DeliverIR`,
`DeliverWorkload`, `Resync` are the controller's runtime, from how the code sets
it up; `CrashRestart` loses everything in memory and lists again. `Fault` makes a
call fail; taken at the call after a write it is that write's lost response.
`acted` is a history variable: the version each IR was last reconciled at.

**Actions and code (CronStrategies).** `Get`, `Create`, `Update`, `Delete` with
`wk.part` for the object the code is at, in the order service account, role, role
binding, idle job, wakeup job. An owned object carries its controller reference
(`owner`, `uid`), the IR its rule or arguments name, and its schedule. Its name is
the set of IRs `ToDNSName` gives that name: two long names that begin alike have
the same objects, and so have a long one and one that fits in full and spells the
shortened form of the other (`Hashed`). `Panic` is `role.Rules[0]` of a role without rules: the process
ends, and its restart lists everything again. The workload's half of `Reconcile`
is one step, `ReconcileWithIdler`, on what the reference may lead to
(`Referents`): a workload; none, which has Reconcile called again after two
seconds, again and again (`polls`, line 143); or a kind without a case, which
ends it before the deletion is looked at. `GetFailsUnnoticed` is the Get before
the deletion of an unwanted CronJob: lines 65 and 97 delete if it returned no
error, and go on if it did, whatever the error. `left` is a history variable, the
CronJobs that stay because of that. `Refused` is the API server's
validation of a CronJob (external): a schedule it cannot parse, or a name of more
than 52 characters. `cronJobNeedChanges` is TRUE: line 173 compares two pointers, and line 186
compares the argument with another name than line 202 writes.

**The contract (IdleContract).** Its operator has no caches, retries, versions or
queue. It takes an order (the content of an IR), and changes only the workload
the order names: claims it, idles it if the order says idle and no deletion,
wakes it up if not, releases it in a deletion, and removes the IR last, when no
reference and no saved replicas are left. `KidleOperatorContract` maps the worker's copy of
the IR to the order, and drops version numbers and all else. With fresh reads
(`Prompt`) the order is the last word of its IR when it is taken.

**The contract of the cron strategies (CronContract).** Its order is the content
of an IR and `todo`, the parts not seen to yet. `SeeTo` takes one of them off, the
RBAC objects before the CronJobs, and does one of four things to the object:
makes it, for the order's IR and only where none is (`Provide`); sets right what
is there now, and leaves its owner (`Repair`); takes it away with its strategy
(`Withdraw`); or leaves it as it is (`PassOver`), which the contract does not
allow for a role, nor for a CronJob that is wanted: a stale cache is no reason.
`Finalize` and `Remove` are allowed only while the IR is what the order says, so
an edit or a deletion made since it was read is never overwritten. In the mapping
the order is the worker's copy of the IR, and `todo` follows from `wk.part`.

**Actions and code (Kidlectl).** `Get` and `Update` are the two halves of
`ApplyDesiredIdleState`, `Validate` and `Create` those of `CreateIdlingResource`
(`GetAllowedResources` says which kinds may be typed). `Start` starts a command,
or the pod of a Job again after a failure. `CallFails` is a failed call or a lost
response. `seen`, `over` and `flagBy` are history variables. `KidlectlAtomic` maps
the states of a command to ready, running, done and failed.

**What differs from the code.** Reconcile's other half is one step in each of the
two modules. Events, logs, images and names of service accounts are left out.
Objects are kept at their first incarnation's version count when re-created, so
versions never repeat.

## 3. Model checking

All runs set `CHECK_DEADLOCK FALSE`: once users stop, the system comes to rest.

Constants that bound or restrict:

- `MaxEnv`, `MaxWrites`: writes of users, other controllers, resyncs, beyond the
  IR and the workload there may be at the start. Two are enough for every finding
  below, and the passing runs allow 2 (`live_cron`: 1, the write that the operator
  has to come to rest after).
- `MaxFaults`: failed calls and crashes, at any step. Two in `stale_deployment` and
  `live_statefulset`, for a fault during the recovery from another.
- `MaxTries`: tries of a retry loop; 2 instead of 5 reaches both outcomes of a
  conflict (another try, giving up) in fewer states.
- `FreshReads`: TRUE means an object is read only once its cache has caught up.
  This splits the questions: what holds whatever the lag (`FALSE`), and what holds
  only for an up-to-date cache. `violation_stale_wakeup` shows why some runs need
  TRUE.
- `MaxBackoff`: failures after which a back-off outlasts any lag of the caches;
  needed for liveness, where the rate limiter's delays grow without bound.
- `MaxLag`: objects the caches lag behind on at a time (CronStrategies). Two are
  the IR and one of its objects.
- `MaxStale`: how many versions an object may have had for the garbage collector
  to be faster than the watch that tells the operator of its owner's end. With 1
  (`cron_objects`) it may overtake the watch while an object has its first
  version; in `live_cron`, with 0, it always comes after the watch.
- `Referents`: where the references lead (CronStrategies). A workload or a kind
  without a case in `cron_strategies`, a workload or none in `live_cron`, a
  workload elsewhere: a deletion is completed for the first two only.
- `Writes`: which writes of users happen, so that a run can go deeper on one
  question.

| Run | Question | Holds |
|---|---|---|
| `stale_deployment` | what survives any lag of the caches, two faults: `TypeOK`, `NoLostRequest`, `OperatorKeepsIntent`, `QuietWrites`, `IdleSavesReplicas`, `ReleasedAtRemoval`, `NoDeletionForgotten`, `ImplementsContract` | yes |
| `fresh_workloads` | a Deployment and a CronJob, the reference moved between them: does each follow the flag and get its level back? `SavedReplicasPositive`, `AtRestAgrees`, `WakeRestores`, `WokenAtRemoval` | yes, for fresh reads |
| `live_statefulset` | `WakeRestores`, `DeletionCompletes`, `Convergence` and `ImplementsContract` (with prompt orders) of a StatefulSet, two faults | yes, for fresh reads |
| `cron_strategies` | schedules of both strategies edited, two caches behind, one fault, a dropped error included: `TypeOK`, `JobsAtRest`, `ImplementsContract` | yes |
| `cron_objects` | objects deleted, a role edited or emptied, garbage collection and re-creation, one fault: `RBACAtRest`, `NoDeletionForgotten` | yes |
| `live_cron` | the workload there or missing: do the operator's own writes keep it busy (`Quiesces`), does what it makes go with the IR (`NothingLeftBehind`), does a deletion get past its writes (`DeletionCompletes`, unless a role was emptied)? `ImplementsContract`, with objects and roles that users changed | yes |
| `kidlectl_commands` | an idle and a wakeup Job and two creates race: `TypeOK`, `SuccessIsTrue`, `LaterPhaseWins`, `OnlyTheFlag`, `JobSucceeds`, `CommandsAreAtomic` | yes |
| `violation_stale_wakeup` | `AtRestAgrees` with stale reads | no: a wakeup is missed |
| `violation_awake_rescaled` | `AwakeUntouched` | no: a deletion rescales a running workload |
| `violation_stuck_deletion` | `DeletionCompletes`, the kind as `kidlectl create` writes it | no: the finalizer stays |
| `violation_cron_deletion` | `DeletionCompletes`, a schedule that is no cron expression | no: the deletion is never looked at |
| `violation_name_collision` | `RBACAtRest`, two names of 60 characters that differ in the last ten | no |

Each violation contradicts a sentence of `docs/userguide.md`, a comment or a
test; `findings` in `PROJECT.json` quotes it. Each property of a passing run is
violated when one mapped definition is replaced by the mutant `mutants` names. One
mutant is worth a remark: with a comparison by value in `cronJobNeedChanges`,
`JobsAtRest` fails. The comparison that never matches makes every
reconciliation write, so a stale copy meets a conflict and is retried; a
comparison that works would take a stale copy for up to date, and no event of the
CronJob would come to correct it.

**Other settings, same properties.** The passing runs say where a property
holds; these changes to a cfg, one at a time, show where it stops:

- `SavedReplicasPositive` with `FreshReads = FALSE`: `NeedIdle` is decided on a
  cached copy and the retry closure (`deployment.go:47`) does not look at the
  replicas again, so a second `Idle` saves 0.
- `AtRestAgrees` with 0 among `UserLevels`: a workload that is at 0 when it is to
  be idled gets no expected state, and the filter drops its later scale-up.
- `AtRestAgrees` with `KindOf <- MCLowerCase`: `kidlectl create -r deployment/x`
  writes a kind `Reconcile` has no case for, and nothing is idled.
- `QuietWrites` of `stale_deployment` with `IRs = {i1, i2}`, `MaxEnv = 3` and no
  faults, both idle: a workload
  is deleted, created again and scaled while one IR is idling it; the other, whose
  look at it came before the reference was set, takes the reference over from a
  workload that is not at its expected state, and the filter lets that write pass.
- `ReleasedAtRemoval` with the expected state in it (`o.exp = None`):
  `RemoveAnnotations` looks at the reference and the saved replicas of the copy
  `Wakeup` has written (`idler.go:62`). When the copy read before it is older than a
  re-creation of the workload, `SetReference` is skipped, `Wakeup` writes an
  expected state to the new workload, which has neither of the two, and that
  annotation stays for good.
- All properties of `stale_deployment` hold with `IRs = {i1, i2}`, `MaxEnv = 1` and
  no faults: two IRs, one workload, 2.1 million states.
- `JobsAtRest` without the exception for `left`, in `cron_strategies`: the CronJob of
  a strategy that was taken away stays after a failed Get, nothing brings the
  operator back to it, and it goes on setting the flag.
- `Quiesces` with `polls = {}` in it: with a missing workload the operator never
  stops looking, and each look reads all five objects and writes the role and the
  CronJobs.
- `JobsAtRest` with `EditJob` among `Writes`: updates of owned CronJobs are
  filtered, so a CronJob suspended by hand stays so.
- `DeletionCompletes` of `CronStrategies` with `NameLength <- MCLong` and
  `Common <- MCAlike` and a valid schedule: the CronJob's name is too long, with
  the same end as `violation_cron_deletion`.

**Fairness.** The worker goes on (`WF`): the process runs. A queued request is
taken (`SF`, since taking is disabled while the worker is busy): the work queue is
first in, first out. Timers fire and watches deliver (`WF`): the library's
promises. The garbage collector reaches every orphan (`WF`). A started command
ends, and the pod of a Job is started again when it fails
(`restartPolicy: OnFailure`, `cron_strategies.go:153`), within the Job's limit.
Users, faults and crashes have no fairness.

## 4. Proofs

For all sets of IRs and workloads, all kinds, levels and bounds, with stale or
fresh reads:

- `TypeCorrect`: `Spec => []TypeOK` (with `CallInv`: the worker is at a workload's
  call, or at the removal of the finalizer, only for a supported kind, and at a
  release only in a deletion).
- `Invariance`: `Spec => []IInv`, the inductive invariant.
- `NoLostRequestHolds`, `KeepsIntentHolds`, `SavesReplicasHolds`: the three safety
  properties that hold whatever the lag.
- `ReleasedAtRemovalHolds`: when an IR goes, its workload carries neither its
  reference nor saved replicas.
- `NoDeletionForgottenHolds`, of both `KidleOperator` and `CronStrategies` (there
  under a condition, see below): the
  operator never rests with a deletion left to complete. It is the safety half of
  `DeletionCompletes` and needs no fairness.
- `ContractImplemented`, of both: `Spec => ImplementsContract`.
- `TypeCorrect` of `CronStrategiesTyping`.
- `NamesFit`, `HashAddsNothing`, `ShortNamesDistinct`, `SameOrApart`: what
  `ToDNSName` gives for names of any length. `ApartNames` says exactly when an IR
  shares no object with another (`NameApart`): if each other name differs from its
  own within the first 43 characters, or one of the two is not `Long`: it has up to
  50 characters and, if 50, does not end in the hash of its own beginning.
  `ShortNamesDistinct` needs no look at the other name: 49 characters.
- `UnknownKindStays` and `RefusedStays`: two of the findings in general. An IR that
  has the finalizer is never removed as long as it refers to a workload of a kind
  `Reconcile` has no case for, or as long as a strategy of it asks for a CronJob
  the API server refuses (its schedule, or a name of more than 52 characters).
  The runs show one such deletion that hangs; the theorems, that none can end
  by itself, with any lag, fault or restart.
- `TypeCorrect` of `KidlectlSafety`, `SuccessIsTrueHolds`, `LaterPhaseWinsHolds`, `OnlyTheFlagHolds` and
  `CommandsAreAtomicHolds` (`Spec => CommandsAreAtomic`): kidlectl, any number of
  commands.

Under conditions, each of them an `ASSUME` of the theorem, or the antecedent
`[]Dedicated(owner)`: users point no IR but its owner at a workload that has one.
`owner` is any assignment of IRs to some of the workloads or all; the others may
be shared in any way, and how users come to keep to it does not matter. Two
theorems are about one workload that has an owner: what the IRs that share
others do to each other does not reach it.

- `OwnedWritesQuiet`: no write to a workload with an owner passes the filter.
  `QuietWritesHold`: no write at all, if every workload has an owner.
  `QuietWritesOfOne`: a single IR. `QuietWritesFresh`: fresh reads, and IRs that share workloads as
  they like. Without any of these a write can come back as an event (see *Other
  settings* above).
- `SavedReplicasPositiveHolds`, `WakeRestoresHolds`, `WokenAtRemovalHolds`: fresh
  reads, and no user level 0. With a stale read `Idle` saves the 0 it wrote
  itself; with a level 0 it saves the one a user has set between the decision and
  the write, and a workload may be at 0 when its IR goes.
- `OwnedFollowAtRest`: the same, for a workload that has an owner and a supported
  kind: at rest it is as its owner asks. `AtRestAgreesHolds`: every workload is so;
  `AtRestAgreesOfOne`: a single IR, whose reference users move between any number
  of workloads. An unknown kind is never reconciled, and two IRs may ask for
  opposite things of one workload.
- `RBACOfApart`: the name of the IR in question is apart from the others'
  (`NameApart`), which may share objects among themselves
  (`violation_name_collision`). `RBACHolds`: all names are.
- `JobsOfApart`, `JobsHold`: the same, and no `EditJob` among `Writes`, whose
  events are filtered out. A CronJob in `left` is excepted by `JobsAtRest` itself.
- `NoDeletionForgottenHolds` of `CronStrategies`: no reference leads to a kind
  without a case.

*Argument.* The inductive invariants are in the modules of the proofs, not in the
models. `NoLostRequest` speaks of a system at rest and says nothing about the
way there. What is inductive is `RequestInv`: at each moment every live IR is
accounted for by an undelivered event, a queued request, a timer, a worker whose
copy is the last version or who will read again, or by `acted`. Its step for
`GetIdlingResource` needs that a cache without pending events equals the store,
and its step for the writes that the worker's copy, if the server accepts it, is
the stored version: hence `IRWatchesInv` and `WorkerInv`, both in terms of
`VersionOf` (a version number at or before the stored one identifies the
version). The same facts give `OperatorKeepsIntent` (an accepted Update differs
from the store in the finalizer only) and `IdleSavesReplicas` (an accepted Idle
edits the stored replicas).

`ReleasedAtRemoval` needs more: between `RemoveAnnotations` and
`RemoveFinalizer` another step may mark the workload again, but only one of the
same worker. `ReleaseInv` adds that versions in a watch strictly increase
(`StrictWatch`), that a workload the worker has found without annotations is one
the store has too or will refuse the write of (`AcceptedCopyInv`), that objects
users create carry no annotations (`NewWorkloadInv`), and `RemovalInv`: at the
call that removes the finalizer the stored workload is not marked. The refinement
uses the same invariants: an accepted write is to the version that was read, so
each write of the retry loops is a `Claim`, `Idle`, `Wake` or `Release` of the
order in memory, and `RemovalInv` is the guard of `Remove`.

`NoDeletionForgotten` follows from `NoLostRequest` and `PastInv`: a version of an
IR that is marked for deletion and was reconciled (`acted`) is not the stored one
any more, unless the reconciliation goes on or will be repeated. What that
needs is `FinalizedInv` (only an IR with a finalizer is ever marked), and that the
worker goes past `AddFinalizer` only with a copy that has the finalizer: a
reconciliation of a marked IR ends in `RemoveFinalizer` or in an error.

`QuietWrites` for several IRs needs `OwnedInv(owner)`: while `Dedicated(owner)`
holds, no version of an IR, stored, cached or in the worker's hands, refers to
another's workload, and a workload with an owner refers to it or to none, so
that `SetReference` never takes one over. With fresh reads
`UnclaimedInv` replaces it: a workload the worker has found without a reference
has none until its own write, for there is only one worker.

`KidleOperatorFresh` is about what the worker does between its look at a workload
and its write. With fresh reads the look sees the stored version, and each move of
the worker is one of five (`FreshMoves`): it stays, fails, looks, writes, or does
what no workload is touched by. `LevelInv` says what users and the operator leave
on a workload: no saved zero, nothing saved on a CronJob, and a workload that is
down has expected state 0. `StageInv` says what each call may rely on: `Wakeup`
has the level to restore in hand as long as the workload is down; at `Idle`,
`RemoveAnnotations` and `RemoveFinalizer` it is up. The two support each other:
`Idle` saves a positive number because the workload is up, and what `Wakeup`
restores is positive because that number was. For `AtRestAgrees`, `SettledInv(owner)`
says that every live IR that refers to a workload of its own is asked for (`Requested`: an event of its own, a request,
a timer, or an event of its workload that will pass the filter), in the worker's
hands (`OnIt`), or agrees with its workload. The delicate point is the filter: a
change of the workload is reported only if the workload refers to the IR and has
an expected state. That is why `Agrees` includes the reference, why `OnIt` demands
it at the two calls that end a reconciliation, and why `LevelInv` includes the
expected state.

For `CronStrategies`, `CacheInv` says that each version of an object, stored,
cached or on its way, belongs to an IR its name can be made from, that the last
of them is the stored one, and that each event has an owner to ask for: an event
always leads to a request. `RBACInv` walks along the parts of a reconciliation:
each RBAC object of a live IR is right, or has an event on its way or to come
from the garbage collector, or its IR is asked for, or it is still ahead of the
worker. `JobsInv` says the same of CronJobs. It needs besides that the worker's
copy of the IR is the stored one or will be replaced (`CopyInv`), and that
the events of CronJobs that appear or go pass the filter, where those of changed
ones do not (`EventAhead`); a worker that leaves a CronJob behind says so in
`left`. `DeletionInv` uses the same `CopyInv`: an IR that is
marked is asked for, or in the hands of a worker that goes on to the removal of
its finalizer or ends in an error. `RefusedStays` needs `PassedInv`: a worker that
is past a CronJob holds a copy of the IR the API server does not refuse it for.
To have the finalizer removed, that copy must be the stored version
(`VersionsInv`), and the stored one is refused.

For the contract of the cron strategies, `VersionsInv` says of each version that
is cached, on its way or in the worker's memory that it is the stored one or has
a smaller number (`VersionOf`): an Update the server accepts is therefore made to
what was read (`AcceptedIsRead`), which is what `Finalize`, `Remove` and `Repair`
demand. A step of the worker at a part is then a `SeeTo` of that part (`SeesTo`,
`PartDone`), or leaves the order as it is.

For kidlectl, `CopyInv` is `WorkerInv` again, `SeenInv` keeps the history of the
flag up to date, `FlagInv` and `OverInv` say that the flag is what its last
writer wants and that who is over stays so. An accepted Update is therefore made
to what is stored now, and its effect is that of one atomic step: the proof of
`CommandsAreAtomic` maps it to `Succeed` (or, with its response lost, to `Fail`).

*Assumptions:* those named in the modules (`NoneAssumption`,
`WorkloadsAssumption`, `LevelsAssumption`, `BoundsAssumption`,
`FreshReadsAssumption`, `WantsAssumption`, `JobsAssumption`,
`CreatesAssumption`, `WritesAssumption`, `NamesAssumption`, `CronNoneAssumption`,
`CronBoundsAssumption`, `InvalidAssumption`, `StrategiesAssumption`,
`HashedAssumption`, `ReferentsAssumption`); TLC
evaluates each of them in the runs.

*Only model-checked:* liveness under fairness (`Convergence`, `DeletionCompletes`,
`Quiesces`, `NothingLeftBehind`, `JobSucceeds`), which is out of the prover's reach. Every invariant
and every action property of the passing runs is a theorem.

## 5. Not modelled

Flags, probes and metrics; leader election (one active manager is assumed, as
`config/manager/manager.yaml:31` asks for); the kubeconfig and the `version`
command of `kidlectl`; annotations whose text is no number; the characters of
names (a shortened name may end in a dot before its hyphen, which no Create
accepts); the contents of a role binding and of a CronJob's container, which
users may change for good; generated deep copies; manifests; events and logs,
which the program never reads. Two IRs for one
workload are in no run (a small one is among the *Other settings*); the theorems
cover them, for they hold of any number of IRs, except what needs an owner of the
workload. Which of two that ask for
opposite things prevails is left open.

## 6. Plan

Next:

1. `Schedules`: the CronJobs of `CronStrategies` starting commands of
   `Kidlectl`: overlapping and late phases across several firings.
2. Several IRs that share a workload: what `AtRestAgrees` becomes when all of
   them ask for the same.
3. `SavedReplicasPositive` for stale reads of other objects: which of the reads
   have to be fresh for it.
