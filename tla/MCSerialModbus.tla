--------------------------- MODULE MCSerialModbus ---------------------------
(* Instances of SerialModbusClient for TLC. *)
EXTENDS SerialModbusClient

\* A negative MaxRetries is what SetRetryPolicy is given.
MCPolicies == {-1}
=============================================================================
