---------------------------- MODULE MCMitsubishi ----------------------------
(* Instances of MitsubishiSystem for TLC. *)
EXTENDS MitsubishiSystem, TLC

\* A negative maxRetries is among what SetRetryPolicy is given.
MCPolicies == {-1, 1}

\* The policy of the liveness run stays as it is.
MCNoRetry == {0}

Symmetric == Permutations(Calls) \cup Permutations(Conns)
=============================================================================
