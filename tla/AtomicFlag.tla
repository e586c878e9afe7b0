------------------------------ MODULE AtomicFlag ------------------------------
(***************************************************************************)
(* What kidlectl promises: each command takes effect at once, at some      *)
(* moment between its start and its end, or fails.  A command that fails   *)
(* has taken effect or not.                                                *)
(***************************************************************************)
CONSTANTS
    Commands,  \* invocations of kidlectl
    Creates,   \* those that create the IdlingResource
    Refused,   \* those whose arguments are wrong
    Wants,     \* the value of the flag each is for
    Contents   \* what the created IdlingResource holds beside the flag

VARIABLES
    obj,   \* the IdlingResource
    stage  \* how far each command is

Begin(c) ==
    /\ stage[c] \in {"ready", "failed"}
    /\ stage' = [stage EXCEPT ![c] = "running"]
    /\ UNCHANGED obj

(* "idle" and "wakeup" set the flag of an IdlingResource that exists and   *)
(* leave the rest alone; "create" makes one where there is none.           *)
Effect(c) ==
    \/ c \notin Creates /\ obj.live /\ obj' = [obj EXCEPT !.idle = Wants[c]]
    \/ /\ c \in Creates \ Refused /\ ~obj.live
       /\ obj' = [live |-> TRUE, idle |-> Wants[c], other |-> Contents[c]]

Succeed(c) ==
    /\ stage[c] = "running" /\ stage' = [stage EXCEPT ![c] = "done"]
    /\ Effect(c)

Fail(c) ==
    /\ stage[c] = "running" /\ stage' = [stage EXCEPT ![c] = "failed"]
    /\ Effect(c) \/ UNCHANGED obj

(* Other clients change or remove what is there.                           *)
OthersWrite == obj.live /\ UNCHANGED stage

Init == stage = [c \in Commands |-> "ready"]

Next == OthersWrite \/ \E c \in Commands : Begin(c) \/ Succeed(c) \/ Fail(c)

Spec == Init /\ [][Next]_<<obj, stage>>
=============================================================================
