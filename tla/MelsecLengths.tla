--------------------------- MODULE MelsecLengths ----------------------------
(***************************************************************************)
(* The lengths in MELSEC frames.  MitsubishiClient and mock.Server count   *)
(* words and bytes in uint16, and size their buffers by these counts while *)
(* they fill them by others; MelsecProofs has the limits that follow.      *)
(***************************************************************************)
EXTENDS Integers

Uint16 == {n \in Nat : n <= 65535}

\* What is left of n in a uint16.
U16(n) == n % 65536

\* Go evaluates buf[lo:hi] for len(buf) = size without a panic.
InBounds(lo, hi, size) == 0 <= lo /\ lo <= hi /\ hi <= size

-----------------------------------------------------------------------------
\* MitsubishiClient.writeWords of n values.

PayloadSize(n) == 6 + 2 * U16(n)

WriteWordsStores(n) ==
    \A i \in 0 .. n - 1 : InBounds(6 + i * 2, 6 + i * 2 + 2, PayloadSize(n))

\* sendRequestOnceLocked: the length of command, subcommand, timer and payload.
DataLen(size) == U16(2 + 2 + 2 + size)

\* ReadString: the registers it asks for, and for 0 of them readWords asks nobody.
WordCount(readLength) == U16((readLength + 1) \div 2)

-----------------------------------------------------------------------------
\* mock.Server.handleRead of count words, a uint16 as is its loop variable.

BodySize(count) == U16(count * 2)

HandleReadStores(count) ==
    \A i \in 0 .. count - 1 : InBounds(U16(i * 2), U16(U16(i * 2) + 2), BodySize(count))

ReplyLen(count) == U16(2 + BodySize(count))

=============================================================================
