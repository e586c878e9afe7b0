---------------------------- MODULE KidlectlAtomic ----------------------------
(***************************************************************************)
(* How kidlectl keeps its promise: Kidlectl implements AtomicFlag, though  *)
(* each command makes two calls.                                           *)
(***************************************************************************)
EXTENDS Kidlectl

StageOf(at) == CASE at = "new"       -> "ready"
                 [] at \in Running  -> "running"
                 [] at = "exit0"     -> "done"
                 [] at = "exit3"     -> "failed"

Stage == [c \in Commands |-> StageOf(cmd[c].at)]
Shown == [live |-> ir.live, idle |-> ir.idle, other |-> ir.other]

Flag == INSTANCE AtomicFlag WITH
    obj <- Shown, stage <- Stage, Refused <- {c \in Creates : ~ValidRef(c)}

(* Commands that overlap, with each other or with other writers, have the  *)
(* outcome of commands run one after the other, each in one step between   *)
(* its start and its end (the two calls of ApplyDesiredIdleState and of    *)
(* CreateIdlingResource are not interrupted in effect).                    *)
CommandsAreAtomic == Flag!Spec
=============================================================================
