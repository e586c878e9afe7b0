------------------------ MODULE KidleOperatorContract ------------------------
(***************************************************************************)
(* How the operator keeps its promises: KidleOperator implements           *)
(* IdleContract, with the objects at the API server, version numbers       *)
(* aside, and the IdlingResource in the worker's memory as its order.      *)
(***************************************************************************)
EXTENDS KidleOperator

AskedBy(o) == [live |-> o.live, idle |-> o.idle, ref |-> o.ref,
               deleting |-> o.deleting, fin |-> o.fin]

LoadOf(o) == [live |-> o.live, level |-> o.level, ref |-> o.ref,
              prev |-> o.prev, exp |-> o.exp]

(* Nothing of the IdlingResource is in memory, or will be used.            *)
Orderless == {"Free", "GetIdlingResource", "Ok", "RequeueAfter", "Err"}

Order == IF wk.call \in Orderless THEN [key |-> None]
         ELSE [key |-> wk.key, inst |-> AskedBy(wk.ir)]

Asked == [i \in IRs |-> AskedBy(ir[i])]
Load  == [w \in Workloads |-> LoadOf(wl[w])]

Contract == INSTANCE IdleContract WITH
    asked <- Asked, load <- Load, order <- Order, Prompt <- FreshReads

(* Every write of the operator is asked for by an order it has taken, is   *)
(* made to the workload the order names and is of the shape the contract   *)
(* allows: nothing is idled in a deletion, and the finalizer goes last.    *)
ImplementsContract == Contract!Spec
=============================================================================
