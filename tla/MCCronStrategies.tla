-------------------------- MODULE MCCronStrategies --------------------------
(* Values for the constants of CronStrategies: the names that are given to *)
(* IdlingResources.                                                        *)
EXTENDS CronStrategiesContract

(* "podinfo".                                                              *)
MCShort  == [i \in IRs |-> 7]
MCApart  == [i \in IRs |-> [j \in IRs |-> IF i = j THEN 7 ELSE 0]]

(* Names of 60 characters that differ in the last ten.                     *)
MCLong   == [i \in IRs |-> 60]
MCAlike  == [i \in IRs |-> [j \in IRs |-> IF i = j THEN 60 ELSE 50]]
=============================================================================
