--------------------------- MODULE MCModbusClient ---------------------------
(* Instances of ModbusClient for TLC. *)
EXTENDS ModbusClient, TLC

\* A negative MaxRetries is among what SetRetryPolicy is given.
MCPolicies == {-1, 1}

Symmetric == Permutations(Calls) \cup Permutations(Conns)
=============================================================================
