---------------------------- MODULE MCOmronFins ----------------------------
(* Instances of OmronFinsClient for TLC. *)
EXTENDS OmronFinsClient

\* A negative MaxRetries is among what SetRetryPolicy is given.
MCPolicies == {-1}

\* The device minds the node.
MCChecking == {TRUE}
=============================================================================
