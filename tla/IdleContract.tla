----------------------------- MODULE IdleContract -----------------------------
(***************************************************************************)
(* What kidle promises its users, free of versions, caches, retries, the   *)
(* queue and the order in which the annotations are written: whatever the  *)
(* operator does to a workload it does under an order, the content of an   *)
(* IdlingResource that it has read, and only what that order asks for.     *)
(***************************************************************************)
EXTENDS Naturals

CONSTANTS
    IRs,        \* names of IdlingResources
    Workloads,  \* names of workloads
    KindOf,     \* the kind each workload is referred to by
    None,       \* an annotation that is not there, no IdlingResource
    Prompt      \* TRUE: an order is what its IdlingResource asks for when it
                \* is taken

VARIABLES
    asked,  \* what each IdlingResource asks for
    load,   \* the workloads, with what the operator left on them
    order   \* what the operator acts upon

NoOrder == [key |-> None]

Unmarked(o) == o.ref = None /\ o.prev = None /\ o.exp = None

-----------------------------------------------------------------------------
(* Users create, edit and delete both kinds of object at any time; they    *)
(* leave the finalizer and the annotations alone.                          *)

UserAsks(i) ==
    /\ asked' = [asked EXCEPT ![i] = asked'[i]]
    /\ \/ ~asked[i].live /\ asked'[i].live /\ ~asked'[i].fin /\ ~asked'[i].deleting
       \/ asked[i].live /\ asked'[i].live /\ asked'[i].fin = asked[i].fin
       \/ asked[i].live /\ ~asked[i].fin /\ ~asked'[i].live
    /\ UNCHANGED <<load, order>>

UserScales(w) ==
    /\ load' = [load EXCEPT ![w] = load'[w]]
    /\ \/ ~load[w].live /\ load'[w].live /\ Unmarked(load'[w])
       \/ load[w].live /\ load' = [load EXCEPT ![w].level = load'[w].level]
       \/ load[w].live /\ ~load'[w].live
    /\ UNCHANGED <<asked, order>>

-----------------------------------------------------------------------------
(* The operator takes an order, and is done with it or gives it up.        *)

TakeOrder(i) ==
    /\ order.key = None
    /\ order'.key = i /\ order'.inst.live
    /\ Prompt => order'.inst = asked[i]
    /\ UNCHANGED <<asked, load>>

DropOrder == order' = NoOrder /\ UNCHANGED <<asked, load>>

(* It goes on with an order after a write, or is done.                     *)
Continues == order' \in {order, NoOrder}

(* The finalizer is added to what was read and nothing newer.              *)
Finalize(i) ==
    /\ order.key = i /\ asked[i] = order.inst
    /\ asked' = [asked EXCEPT ![i].fin = asked'[i].fin] /\ asked'[i].fin
    /\ order' = [order EXCEPT !.inst = asked'[i]]
    /\ UNCHANGED load

Claim(w) ==
    /\ load' = [load EXCEPT ![w].ref = order.key]

(* Takes everything away, and writes down how much it was.                 *)
Idle(w) ==
    /\ order.inst.idle /\ ~order.inst.deleting
    /\ load' = [load EXCEPT ![w] =
          [@ EXCEPT !.level = 0, !.exp = 0,
                    !.prev = IF KindOf[w] = "CronJob" THEN load[w].prev ELSE load[w].level]]

Wake(w) ==
    /\ order.inst.deleting \/ ~order.inst.idle
    /\ load' = [load EXCEPT ![w] = [@ EXCEPT !.level = load'[w].level, !.exp = load'[w].level]]

Release(w) ==
    /\ order.inst.deleting
    /\ load' = [load EXCEPT ![w] = [@ EXCEPT !.ref = None, !.prev = None, !.exp = None]]

ChangeWorkload(w) ==
    /\ order.key \in IRs /\ order.inst.ref = w /\ load[w].live
    /\ Claim(w) \/ Idle(w) \/ Wake(w) \/ Release(w)
    /\ Continues
    /\ UNCHANGED asked

(* An IdlingResource goes on its users' last word only, and leaves no      *)
(* trace on its workload that a later one would take for its own.          *)
Remove(i) ==
    /\ order.key = i /\ asked[i] = order.inst /\ order.inst.deleting
    /\ LET o == load[order.inst.ref] IN o.live => o.ref = None /\ o.prev = None
    /\ ~asked'[i].live
    /\ asked' = [asked EXCEPT ![i] = asked'[i]]
    /\ Continues
    /\ UNCHANGED load

-----------------------------------------------------------------------------
Init ==
    /\ \A i \in IRs : ~asked[i].fin /\ ~asked[i].deleting
    /\ \A w \in Workloads : Unmarked(load[w])
    /\ order = NoOrder

Next ==
    \/ \E i \in IRs : UserAsks(i) \/ TakeOrder(i) \/ Finalize(i) \/ Remove(i)
    \/ \E w \in Workloads : UserScales(w) \/ ChangeWorkload(w)
    \/ DropOrder

contractVars == <<asked, load, order>>

Spec == Init /\ [][Next]_contractVars
=============================================================================
