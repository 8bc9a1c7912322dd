--------------------------- MODULE MCAllenBradley ---------------------------
(* Instances of AllenBradleyClient for TLC. *)
EXTENDS AllenBradleyClient

\* A negative MaxRetries is what SetRetryPolicy is given.
MCPolicies == {-1, 1}
MCNegative == {-1}

\* The devices of the instances.
MCLenient  == {FALSE}
MCChecking == {TRUE}
=============================================================================
