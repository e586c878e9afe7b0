----------------------------- MODULE MCKidlectl -----------------------------
(* Values for the constants of Kidlectl: which commands idle, which wake up *)
(* and which create, and what the API server serves.                        *)
EXTENDS KidlectlAtomic

CONSTANTS idle1, wakeup1, create1, create2, o1

MCWants    == [c \in Commands |-> c \in {idle1, create1}]
MCRefs     == [c \in Creates |-> IF c = create1 THEN <<"deploy", "podinfo">>
                                                ELSE <<"pods", "podinfo">>]
MCContents == [c \in Creates |-> o1]
MCServed   == {[group |-> "apps", version |-> "v1", name |-> "deployments",
                singular |-> "deployment", shortNames |-> {"deploy"}],
               [group |-> "", version |-> "v1", name |-> "pods",
                singular |-> "pod", shortNames |-> {"po"}]}
=============================================================================
