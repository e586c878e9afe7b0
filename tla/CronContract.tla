----------------------------- MODULE CronContract -----------------------------
(***************************************************************************)
(* What the cron strategies promise about the objects kidle owns, free of  *)
(* versions, caches, the queue and conflicts: whatever the operator does   *)
(* to such an object it does under an order, the content of an             *)
(* IdlingResource that it has read, once per order, and the objects a      *)
(* CronJob needs to run come before it.                                    *)
(***************************************************************************)
EXTENDS DNSNames

CONSTANT None   \* no schedule, no IdlingResource

VARIABLES
    asked,  \* what each IdlingResource asks for
    owned,  \* the objects, by their names
    order   \* what the operator acts upon, and the parts it is still to see to

NoOrder  == [key |-> None]
Commands == {"idle", "wakeup"}
Names    == {ToDNSName(i, p) : i \in IRs, p \in Parts}

-----------------------------------------------------------------------------
(* Users create, edit and delete IdlingResources, and leave the finalizer  *)
(* alone; one that is created is not taken for an earlier one of its name. *)
UserAsks(i) ==
    /\ asked' = [asked EXCEPT ![i] = asked'[i]]
    /\ \/ /\ ~asked[i].live /\ asked'[i].live /\ asked'[i].uid > asked[i].uid
          /\ ~asked'[i].fin /\ ~asked'[i].deleting
       \/ /\ asked[i].live /\ asked'[i].live /\ asked'[i].uid = asked[i].uid
          /\ asked'[i].fin = asked[i].fin /\ (asked[i].deleting => asked'[i].deleting)
       \/ asked[i].live /\ ~asked[i].fin /\ ~asked'[i].live
    /\ UNCHANGED <<owned, order>>

(* Others edit objects that are there, or remove them.                     *)
OthersChange(k) ==
    /\ owned[k].live
    /\ owned' = [owned EXCEPT ![k] = owned'[k]]
    /\ owned'[k].live => owned'[k].owner = owned[k].owner /\ owned'[k].uid = owned[k].uid
    /\ UNCHANGED <<asked, order>>

-----------------------------------------------------------------------------
(* The operator takes an order, and is done with it or gives it up.        *)

TakeOrder(i) ==
    /\ order = NoOrder
    /\ order'.key = i /\ order'.inst.live /\ order'.todo = Parts
    /\ UNCHANGED <<asked, owned>>

DropOrder == order' = NoOrder /\ UNCHANGED <<asked, owned>>

(* The finalizer is added to what was read and nothing newer.              *)
Finalize(i) ==
    /\ order.key = i /\ asked[i] = order.inst
    /\ asked'[i].fin /\ asked' = [asked EXCEPT ![i].fin = asked'[i].fin]
    /\ order' = [order EXCEPT !.inst = asked'[i]]
    /\ UNCHANGED owned

(* A CronJob is wanted on the schedule of its strategy, the others always. *)
Wanted(p) == p \in Commands => order.inst.want[p] # None

Values(p, o) ==
    CASE p \in {"sa", "rb"} -> o
      [] p = "role"         -> [o EXCEPT !.names = order.key]
      [] p \in Commands     -> [o EXCEPT !.names = order.key, !.sched = order.inst.want[p]]

New(p) == Values(p, [live |-> TRUE, owner |-> order.key, uid |-> order.inst.uid,
                     names |-> None, sched |-> None])

(* Made, for the IdlingResource of the order, where none is.               *)
Provide(p, k) == Wanted(p) /\ ~owned[k].live /\ owned' = [owned EXCEPT ![k] = New(p)]

(* Set right, whatever others have made of it since it was looked at; it   *)
(* stays with the owner it has.                                            *)
Repair(p, k) ==
    Wanted(p) /\ owned[k].live /\ owned' = [owned EXCEPT ![k] = Values(p, owned[k])]

(* Taken away with its strategy.                                           *)
Withdraw(p, k) ==
    ~Wanted(p) /\ owned' = [owned EXCEPT ![k] = owned'[k]] /\ ~owned'[k].live

(* Taken for right as it is: but a role, and a CronJob that is wanted, are *)
(* right once they have been seen to, whatever a cache says of them.       *)
PassOver(p) == (p \in {"sa", "rb"} \/ ~Wanted(p)) /\ UNCHANGED owned

SeeTo(p) ==
    /\ order.key \in IRs /\ p \in order.todo
    /\ p \in Commands => order.todo \subseteq Commands
    /\ order' = [order EXCEPT !.todo = @ \ {p}]
    /\ LET k == ToDNSName(order.key, p)
       IN  Provide(p, k) \/ Repair(p, k) \/ Withdraw(p, k) \/ PassOver(p)
    /\ UNCHANGED asked

(* An IdlingResource goes on its users' last word only.                    *)
Remove(i) ==
    /\ order.key = i /\ asked[i] = order.inst /\ order.inst.deleting
    /\ ~asked'[i].live /\ asked'[i].uid = asked[i].uid
    /\ asked' = [asked EXCEPT ![i] = asked'[i]]
    /\ order' = NoOrder
    /\ UNCHANGED owned

-----------------------------------------------------------------------------
Init ==
    /\ \A i \in IRs : ~asked[i].fin /\ ~asked[i].deleting
    /\ \A k \in Names : ~owned[k].live
    /\ order = NoOrder

Next ==
    \/ \E i \in IRs : UserAsks(i) \/ TakeOrder(i) \/ Finalize(i) \/ Remove(i)
    \/ \E k \in Names : OthersChange(k)
    \/ \E p \in Parts : SeeTo(p)
    \/ DropOrder

contractVars == <<asked, owned, order>>

Spec == Init /\ [][Next]_contractVars
=============================================================================
