----------------------------- MODULE MCSiemens -----------------------------
(* Instances of SiemensClient for TLC. *)
EXTENDS SiemensClient

\* A negative MaxRetries is what SetRetryPolicy is given.
MCPolicies == {-1}
=============================================================================
