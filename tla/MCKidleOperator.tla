--------------------------- MODULE MCKidleOperator ---------------------------
(* Values for the constants of KidleOperator: which kind each workload is   *)
(* referred to by.                                                          *)
EXTENDS KidleOperatorContract

CONSTANTS w1, w2

MCDeployments  == [w \in Workloads |-> "Deployment"]
MCStatefulSets == [w \in Workloads |-> "StatefulSet"]
MCMixed        == [w \in Workloads |-> IF w = w1 THEN "Deployment" ELSE "CronJob"]

(* What "kidlectl create --ref deployment/w1" writes as the kind.          *)
MCLowerCase    == [w \in Workloads |-> "deployment"]
=============================================================================
