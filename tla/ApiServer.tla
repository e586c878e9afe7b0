------------------------------ MODULE ApiServer ------------------------------
(***************************************************************************)
(* Optimistic concurrency at the Kubernetes API server, as the calls of    *)
(* the kidle sources rely on it.  Every stored object has a field rv, its  *)
(* metadata.resourceVersion, and a field live, FALSE in the version that   *)
(* records the removal of the object.                                      *)
(***************************************************************************)
EXTENDS Naturals

(* The API server accepts an Update only on the version that was read ...  *)
CanUpdate(stored, copy) == stored.live /\ stored.rv = copy.rv

(* ... and makes a new version only if something changed.                  *)
NextVersion(stored, obj) ==
    IF obj = stored THEN stored ELSE [obj EXCEPT !.rv = stored.rv + 1]
=============================================================================
