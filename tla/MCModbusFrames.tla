--------------------------- MODULE MCModbusFrames ---------------------------
(* Instances of ModbusFrames for TLC. *)
EXTENDS ModbusFrames, ModbusChecksums

\* From one register to two, and the lengths whose register count wraps.
MCReadLengths == 0 .. 4 \cup {2^17, 2^17 + 1}

\* Coil 131 of unit 3: one bit turned in the function code of the echo of "off"
\* makes an empty read of it, with a checksum that matches.  The high byte of
\* the other address is a function code.
MCAddresses == {<<0, 131>>, <<16, 1>>}
=============================================================================
