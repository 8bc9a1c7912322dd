--------------------------- MODULE MelsecMessages ---------------------------
(***************************************************************************)
(* What travels between MitsubishiClient and the mock server: requests to  *)
(* read or write consecutive D registers, and their replies.  Frames carry *)
(* no identifier; the call in a message is there for properties to follow. *)
(***************************************************************************)
EXTENDS Wire

CONSTANTS
    Calls,      \* Method calls of the client.
    NoCall,     \* No call.
    AddrMod,    \* D registers are numbered modulo this, 2^16.
    Words,      \* What a register can hold.
    InitWord,   \* What every register holds at first, 0.
    MaxWords    \* The longest run of registers a request names.

ASSUME CallAssumption == NoCall \notin Calls
ASSUME AddrAssumption == AddrMod \in Nat \ {0} /\ MaxWords \in 0 .. AddrMod
ASSUME WordAssumption == InitWord \in Words

Regs == 0 .. AddrMod - 1

Runs == UNION {[1 .. n -> Words] : n \in 0 .. MaxWords}

\* "other": anything the server does not know: a short frame, another
\* command, subcommand or device code.
Request ==
    [call : Calls, cmd : {"read"}, addr : Regs, count : 0 .. MaxWords, words : {<<>>}]
        \cup {q \in [call : Calls, cmd : {"write"}, addr : Regs,
                     count : 0 .. MaxWords, words : Runs] : q.count = Len(q.words)}
        \cup [call : Calls, cmd : {"other"}, addr : {0}, count : {0}, words : {<<>>}]

\* Where there is no request.
NoRequest == [call |-> NoCall, cmd |-> "other", addr |-> 0, count |-> 0, words |-> <<>>]

\* A reply ends with code 0, then with the words read, or with an error code.
Reply == [call : Calls, end : {"zero", "error"}, words : Runs]

\* The registers that a request names, as offsets from the first; addr + i is
\* a uint16, so a run that passes the last register goes on at the first.
Reg(q, n) == (q.addr + n) % AddrMod

\* What a read finds in the memory w.
Block(q, w) == [n \in 1 .. q.count |-> w[Reg(q, n - 1)]]

\* The memory w after a write has stored its words from offset n on.
StoredFrom(q, n, w) ==
    [a \in Regs |->
        LET over == {j \in n .. q.count - 1 : Reg(q, j) = a}
        IN  IF over = {} THEN w[a] ELSE q.words[1 + CHOOSE j \in over : \A l \in over : j >= l]]

=============================================================================
