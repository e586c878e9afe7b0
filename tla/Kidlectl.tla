------------------------------ MODULE Kidlectl ------------------------------
(***************************************************************************)
(* "kidlectl idle", "wakeup" and "create": commands typed by users, and    *)
(* the pods the CronJobs of the cron strategies start.  The first two read *)
(* the IdlingResource at the API server, compare, and write it back whole. *)
(* Other clients (the operator adding a finalizer, users editing a         *)
(* strategy, other commands) write the same object in between.             *)
(***************************************************************************)
EXTENDS ApiServer, Sequences

CONSTANTS
    Commands,   \* invocations of kidlectl
    Wants,      \* the value of spec.idle each command is for
    Creates,    \* those that create the IdlingResource
    Refs,       \* the --ref of these, split at the slashes
    Contents,   \* what they put into the rest of it
    Served,     \* the resources the API server lists
    Nobody,     \* no command
    Jobs,       \* those that are pods of a Job, started again on failure
    Others,     \* what the rest of an IdlingResource may hold
    MaxWrites   \* bound: writes of other clients, and failed calls

ASSUME WantsAssumption == Wants \in [Commands -> BOOLEAN]
ASSUME JobsAssumption == Jobs \subseteq Commands
ASSUME CreatesAssumption == /\ Creates \subseteq Commands
                            /\ Contents \in [Creates -> Others]
                            /\ Nobody \notin Commands
ASSUME WritesAssumption == MaxWrites \in Nat /\ Others # {}

VARIABLES
    ir,      \* the IdlingResource at the API server
    cmd,     \* what each command is about to do, with the copy it read
    seen,    \* history: the values of spec.idle since each command started
    over,    \* history: the commands that were over when each started
    flagBy,  \* history: the command that set spec.idle, if none has since
    writes   \* writes of other clients and failed calls so far

vars == <<ir, cmd, seen, over, flagBy, writes>>

Object == [live : BOOLEAN, idle : BOOLEAN, other : Others, rv : Nat]

(* Exit codes: 0 whether or not there was anything to do, 3 on an error.   *)
States  == {"new", "get", "update", "create", "exit0", "exit3"}
Running == {"get", "update", "create"}
Command == [at : States, copy : Object]

(* No copy is needed outside of Update.                                    *)
Nothing == [live |-> FALSE, idle |-> FALSE, other |-> CHOOSE o \in Others : TRUE, rv |-> 0]

Moved(c, at, copy) == cmd' = [cmd EXCEPT ![c] = [at |-> at, copy |-> copy]]
Goes(c, at)        == Moved(c, at, Nothing)

(* Every write is seen by the commands that are under way.                 *)
Write(obj, by) ==
    /\ ir' = NextVersion(ir, obj)
    /\ seen' = [c \in Commands |->
                  IF cmd[c].at \in Running THEN seen[c] \cup {obj.idle} ELSE seen[c]]
    /\ flagBy' = by
    /\ UNCHANGED over

NoWrite == UNCHANGED <<ir, seen, over, flagBy>>

(* A command that will do nothing more: the pod of a Job that failed will. *)
Over(c) == cmd[c].at = "exit0" \/ (cmd[c].at = "exit3" /\ c \notin Jobs)

Starts(c) ==
    /\ Goes(c, "get")
    /\ seen' = [seen EXCEPT ![c] = {ir.idle}]
    /\ over' = [over EXCEPT ![c] = {d \in Commands : Over(d)}]
    /\ UNCHANGED <<ir, flagBy, writes>>

(* Mutant: a Job whose restartPolicy is Never.                             *)
StartOnce(c) == cmd[c].at = "new" /\ Starts(c)

(* Mutant: ... or Always.                                                  *)
StartAlways(c) == (cmd[c].at = "new" \/ (cmd[c].at \in {"exit0", "exit3"} /\ c \in Jobs)) /\ Starts(c)

(* A command starts; the pod of a Job also after it failed, fewer times    *)
(* than the Job's limit.                                                   *)
Start(c) == (cmd[c].at = "new" \/ (cmd[c].at = "exit3" /\ c \in Jobs)) /\ Starts(c)

-----------------------------------------------------------------------------
(* idle and wakeup.                                                        *)

(* Mutant: exits with the code that is for a client that cannot be made.   *)
GetExit2(c) ==
    /\ c \notin Creates /\ cmd[c].at = "get"
    /\ IF ir.live /\ ir.idle # Wants[c] THEN Moved(c, "update", ir)
       ELSE Goes(c, IF ir.live THEN "exit0" ELSE "exit2")
    /\ NoWrite /\ UNCHANGED writes

(* ApplyDesiredIdleState up to its Update.                                 *)
Get(c) ==
    /\ c \notin Creates /\ cmd[c].at = "get"
    /\ IF ir.live /\ ir.idle # Wants[c] THEN Moved(c, "update", ir)
       ELSE Goes(c, IF ir.live THEN "exit0" ELSE "exit3")
    /\ NoWrite /\ UNCHANGED writes

Sent(c) == [cmd[c].copy EXCEPT !.idle = Wants[c]]

(* Mutant: written whatever the version at the API server.                 *)
UpdateForced(c) ==
    /\ cmd[c].at = "update"
    /\ IF ir.live THEN Write(Sent(c), c) /\ Goes(c, "exit0")
                  ELSE NoWrite /\ Goes(c, "exit3")
    /\ UNCHANGED writes

(* Mutant: the error of Update is not returned.                            *)
UpdateUnchecked(c) ==
    /\ cmd[c].at = "update"
    /\ IF CanUpdate(ir, cmd[c].copy) THEN Write(Sent(c), c) ELSE NoWrite
    /\ Goes(c, "exit0")
    /\ UNCHANGED writes

(* ... and from there on.  A conflict is not retried.                      *)
Update(c) ==
    /\ cmd[c].at = "update"
    /\ IF CanUpdate(ir, cmd[c].copy) THEN Write(Sent(c), c) /\ Goes(c, "exit0")
                                     ELSE NoWrite /\ Goes(c, "exit3")
    /\ UNCHANGED writes

-----------------------------------------------------------------------------
(* create.                                                                 *)

AllowedGVK == {<<"apps", "v1", "deployments">>, <<"apps", "v1", "statefulsets">>,
               <<"batch", "v1beta1", "cronjobs">>, <<"batch", "v1", "cronjobs">>}

(* The names a reference may begin with: those the API server has for the  *)
(* kinds kidle knows.                                                      *)
GetAllowedResources ==
    UNION {r.shortNames \cup {r.singular, r.name} :
             r \in {s \in Served : <<s.group, s.version, s.name>> \in AllowedGVK}}

ValidRef(c) == Len(Refs[c]) >= 2 /\ Refs[c][1] \in GetAllowedResources

(* CreateIdlingResource up to its Create.                                  *)
Validate(c) ==
    /\ c \in Creates /\ cmd[c].at = "get"
    /\ Goes(c, IF ValidRef(c) THEN "create" ELSE "exit3")
    /\ NoWrite /\ UNCHANGED writes

New(c) == [live |-> TRUE, idle |-> Wants[c], other |-> Contents[c], rv |-> 0]

(* Mutant: an IdlingResource that exists is a success.                     *)
CreateTolerant(c) ==
    /\ cmd[c].at = "create"
    /\ IF ir.live THEN NoWrite ELSE Write(New(c), c)
    /\ Goes(c, "exit0")
    /\ UNCHANGED writes

(* ... and from there on: an IdlingResource that exists is an error.       *)
Create(c) ==
    /\ cmd[c].at = "create"
    /\ IF ir.live THEN NoWrite /\ Goes(c, "exit3")
                  ELSE Write(New(c), c) /\ Goes(c, "exit0")
    /\ UNCHANGED writes

-----------------------------------------------------------------------------
(* A call fails, or its response is lost.                                  *)
CallFails(c) ==
    /\ cmd[c].at \in Running
    /\ writes < MaxWrites
    /\ writes' = writes + 1
    /\ Goes(c, "exit3")
    /\ \/ NoWrite
       \/ cmd[c].at = "update" /\ CanUpdate(ir, cmd[c].copy) /\ Write(Sent(c), c)
       \/ cmd[c].at = "create" /\ ~ir.live /\ Write(New(c), c)

OtherWrites ==
    /\ ir.live
    /\ writes < MaxWrites
    /\ writes' = writes + 1
    /\ \/ \E o \in Others \ {ir.other} : Write([ir EXCEPT !.other = o], flagBy)
       \/ Write([ir EXCEPT !.idle = ~@], Nobody)
    /\ UNCHANGED cmd

Deleted ==
    /\ ir.live
    /\ writes < MaxWrites
    /\ writes' = writes + 1
    /\ Write([ir EXCEPT !.live = FALSE], Nobody)
    /\ UNCHANGED cmd

Run(c) == Start(c) \/ Get(c) \/ Update(c) \/ Validate(c) \/ Create(c)

(* Without commands that create it, the IdlingResource is there.           *)
Init ==
    /\ \E live, idle \in BOOLEAN, o \in Others :
          /\ Creates = {} => live
          /\ ir = [live |-> live, idle |-> idle, other |-> o, rv |-> 0]
    /\ cmd = [c \in Commands |-> [at |-> "new", copy |-> Nothing]]
    /\ seen = [c \in Commands |-> {}]
    /\ over = [c \in Commands |-> {}]
    /\ flagBy = Nobody
    /\ writes = 0

Next ==
    \/ \E c \in Commands : Run(c) \/ CallFails(c)
    \/ OtherWrites
    \/ Deleted

Spec == Init /\ [][Next]_vars

(* A command that was started goes on; a Job starts its pod again.         *)
Fairness ==
    \A c \in Commands : WF_vars(\/ Get(c) \/ Update(c) \/ Validate(c) \/ Create(c)
                                 \/ (c \in Jobs /\ Start(c)))

LiveSpec == Spec /\ Fairness

-----------------------------------------------------------------------------
(* Properties.                                                             *)

(* Every variable keeps its type.                                          *)
TypeOK ==
    /\ ir \in Object
    /\ cmd \in [Commands -> Command]
    /\ seen \in [Commands -> SUBSET BOOLEAN]
    /\ over \in [Commands -> SUBSET Commands]
    /\ flagBy \in Commands \cup {Nobody}
    /\ writes \in 0 .. MaxWrites

(* A command that exits with 0 tells the truth: while it ran the flag had  *)
(* the value it was to get.                                                *)
SuccessIsTrue == \A c \in Commands : cmd[c].at = "exit0" => Wants[c] \in seen[c]

(* A command never undoes what other clients wrote to the rest of the      *)
(* object, however long ago it read it, and brings no object back that was *)
(* removed.                                                                *)
OnlyTheFlag ==
    [][\A c \in Commands \ Creates : cmd'[c] # cmd[c]
          => ir'.other = ir.other /\ ir'.live = ir.live]_vars

(* The later phase wins: once a wakeup has succeeded, the flag is not what *)
(* an idle set that was over when the wakeup started, whatever conflicts   *)
(* and failures there were.  The pod of an idle Job that failed is not     *)
(* over: it may set the flag again after the wakeup.                       *)
LaterPhaseWins ==
    \A d \in Commands : cmd[d].at = "exit0" =>
        \A c \in over[d] : Wants[c] # Wants[d] => flagBy # c

(* The pods of a Job are started again until one succeeds: a schedule that *)
(* fires is not lost to conflicts and failures while the object exists.    *)
JobSucceeds ==
    \A c \in Jobs : cmd[c].at = "get" ~> (cmd[c].at = "exit0" \/ ~ir.live)
=============================================================================
