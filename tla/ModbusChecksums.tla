-------------------------- MODULE ModbusChecksums ---------------------------
(* The checksums of frames on serial lines, over sequences of bytes. *)
EXTENDS Integers, SequencesExt, Bitwise

CrcShift(c) == IF c % 2 = 1 THEN (c \div 2) ^^ 40961 ELSE c \div 2

\* Variant: the checksum sees nothing.
CrcOfNothing(data) == 65535

Crc16(data) ==
    LET Byte(c, b) == FoldLeft(LAMBDA x, n : CrcShift(x), c ^^ b, [n \in 1 .. 8 |-> n])
    IN  FoldLeft(Byte, 65535, data)

Lrc(data) == (256 - FoldLeft(LAMBDA s, b : (s + b) % 256, 0, data)) % 256

=============================================================================
