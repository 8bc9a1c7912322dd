---------------------------- MODULE ModbusFrames ----------------------------
(***************************************************************************)
(* One exchange of the Modbus client in bytes: the reply of the device in  *)
(* the frame of the wire mode, what a line may do to it, what the three    *)
(* readers take from it and what readRegisters, writeRegisters and         *)
(* writeCoil make of that.  ModbusClient has only the verdicts.            *)
(*                                                                         *)
(* The device takes the request as it was sent; it answers like the server *)
(* of the repository's tests.  A reader that wants more bytes than there   *)
(* are waits, until its deadline if it has one.  The zero bytes at the end *)
(* of a string, which ReadString cuts, are left on.                        *)
(***************************************************************************)
EXTENDS Integers, SequencesExt

CONSTANTS
    Modes,       \* The wire modes of the clients.
    Unit,        \* The unit identifier.
    Addresses,   \* Where writes go: pairs of bytes.
    ReadLengths, \* What ReadString is asked for, in bytes.
    WriteCounts, \* How many registers are written.
    Bytes,       \* What half a register holds.
    CRC(_),      \* The checksum of RTU frames.
    LRC(_)       \* The checksum of ASCII frames.

Byte == 0 .. 255

ConstantTypes ==
    /\ Modes \subseteq {"modeTCP", "modeRTU", "modeASCII"}
    /\ Unit \in Byte /\ Bytes \subseteq Byte /\ Addresses \subseteq [1 .. 2 -> Byte]
    /\ ReadLengths \subseteq Int /\ WriteCounts \subseteq Nat

ASSUME ConstantAssumption == ConstantTypes

VARIABLES
    stage,       \* "idle", "asked", "answered" or "done".
    ask,         \* The call: its wire mode, function code, length and address.
    pdu,         \* History: what the device answered.
    line,        \* The bytes on their way to the client.
    harmed,      \* History: the line has changed them.
    out          \* The outcome of the call, and what is left on the line.

exchangeVars == <<stage, ask, pdu, line, harmed, out>>

Asks ==
    [mode : Modes, fc : {3}, n : ReadLengths, addr : {<<0, 0>>}]
        \cup [mode : Modes, fc : {5}, n : {1}, addr : Addresses]
        \cup [mode : Modes, fc : {16}, n : WriteCounts, addr : Addresses]

TransID == <<0, 1>>

Pending == [verdict |-> "none", bytes |-> <<>>, rest |-> <<>>]

ExchangeInit ==
    /\ stage = "idle"
    /\ ask \in Asks
    /\ pdu = <<>>
    /\ line = <<>>
    /\ harmed = FALSE
    /\ out = Pending

-----------------------------------------------------------------------------
\* The request

\* Variant: the last byte of an odd string gets no register.
CountRoundedDown(n) == (n \div 2) % 65536

\* ReadString computes the number of registers in an int and keeps 16 bits.
RegisterCount(n) == ((n + 1) \div 2) % 65536

\* The registers that the call asks for or writes.
Registers(q) == IF q.fc = 3 THEN RegisterCount(q.n) ELSE q.n

\* A length below 1, nothing to write or more than a frame can hold: the call
\* ends before sendPDU.
Local(q) ==
    \/ q.fc = 3 /\ q.n <= 0
    \/ q.fc = 16 /\ (q.n = 0 \/ q.n > 123)

EndLocally ==
    /\ stage = "idle"
    /\ Local(ask)
    /\ stage' = "done"
    /\ out' = [Pending EXCEPT !.verdict = IF ask.fc = 16 /\ ask.n = 0 THEN "ok" ELSE "failed"]
    /\ UNCHANGED <<ask, pdu, line, harmed>>

Send ==
    /\ stage = "idle"
    /\ ~ Local(ask)
    /\ stage' = "asked"
    /\ UNCHANGED <<ask, pdu, line, harmed, out>>

-----------------------------------------------------------------------------
\* Frames

\* Hexadecimal digits as characters; hex.DecodeString takes either case.
Digit(d) == IF d < 10 THEN 48 + d ELSE 55 + d

DigitValue(c) ==
    CASE c \in 48 .. 57  -> c - 48
      [] c \in 65 .. 70  -> c - 55
      [] c \in 97 .. 102 -> c - 87
      [] OTHER           -> 16

HexOf(data) ==
    [n \in 1 .. 2 * Len(data) |->
        LET b == data[(n + 1) \div 2] IN Digit(IF n % 2 = 1 THEN b \div 16 ELSE b % 16)]

LF == 10

\* The frame of an answer p.
Framed(mode, p) ==
    LET body == <<Unit>> \o p
        size == Len(p) + 1
        crc  == CRC(body)
    IN  CASE mode = "modeTCP"   -> TransID \o <<0, 0, size \div 256, size % 256>> \o body
          [] mode = "modeRTU"   -> body \o <<crc % 256, crc \div 256>>
          [] mode = "modeASCII" -> <<58>> \o HexOf(Append(body, LRC(body))) \o <<13, LF>>

-----------------------------------------------------------------------------
\* The device and the line.

\* What the device may answer: the registers, an echo, or an exception.
Answers(q) ==
    {<<q.fc + 128, 2>>}
        \cup CASE q.fc = 3 ->
                    {<<3, (2 * Registers(q)) % 256>> \o d : d \in [1 .. 2 * Registers(q) -> Bytes]}
               [] q.fc = 5  -> {<<5>> \o q.addr \o v : v \in {<<0, 0>>, <<255, 0>>}}
               [] q.fc = 16 -> {<<16>> \o q.addr \o <<0, q.n>>}

Answer(p) ==
    /\ stage = "asked"
    /\ stage' = "answered"
    /\ pdu' = p
    /\ line' = Framed(ask.mode, p)
    /\ UNCHANGED <<ask, harmed, out>>

\* What the bits of a byte are worth.
Bits == {1, 2, 4, 8, 16, 32, 64, 128}

\* One bit of one byte is turned.
Flip(n, b) ==
    /\ stage = "answered"
    /\ ~ harmed
    /\ line' = [line EXCEPT ![n] = IF (@ \div b) % 2 = 0 THEN @ + b ELSE @ - b]
    /\ harmed' = TRUE
    /\ UNCHANGED <<stage, ask, pdu, out>>

\* One byte is lost.
Lose(n) ==
    /\ stage = "answered"
    /\ ~ harmed
    /\ line' = RemoveAt(line, n)
    /\ harmed' = TRUE
    /\ UNCHANGED <<stage, ask, pdu, out>>

-----------------------------------------------------------------------------
\* The readers.  What they give: a PDU, an error, or no end; and what they
\* leave on the line.

Got(p, s, used) == [end |-> "pdu", pdu |-> p, rest |-> SubSeq(s, used + 1, Len(s))]
Bad(s, used)    == [end |-> "error", pdu |-> <<>>, rest |-> SubSeq(s, used + 1, Len(s))]
Waits           == [end |-> "waits", pdu |-> <<>>, rest |-> <<>>]

\* An exception is an error of the attempt.
Exceptional(p) == Len(p) >= 2 /\ p[1] >= 128

Sound(p, s, used) == IF Exceptional(p) THEN Bad(s, used) ELSE Got(p, s, used)

\* sendTCPFrameLocked; the protocol identifier is not looked at.
ReadTCP(s) ==
    LET body == 256 * s[5] + s[6] - 1 IN
    IF Len(s) < 7 THEN Waits
    ELSE IF SubSeq(s, 1, 2) # TransID \/ s[7] # Unit \/ body <= 0 THEN Bad(s, 7)
    ELSE IF Len(s) < 7 + body THEN Waits
    ELSE Sound(SubSeq(s, 8, 7 + body), s, 7 + body)

\* Variant: the checksum after the data of a read is not read.
RTUSizeShort(s) ==
    CASE s[2] >= 128           -> 5
      [] s[2] \in 1 .. 4       -> IF Len(s) < 3 THEN 3 ELSE s[3] + 3
      [] s[2] \in {5, 6, 15, 16} -> 8
      [] OTHER                 -> 2

\* How many bytes readRTUResponse wants, by those it has; 2 of a function it
\* does not know.
RTUSize(s) ==
    CASE s[2] >= 128           -> 5
      [] s[2] \in 1 .. 4       -> IF Len(s) < 3 THEN 3 ELSE s[3] + 5
      [] s[2] \in {5, 6, 15, 16} -> 8
      [] OTHER                 -> 2

\* readRTUResponse and the checks of sendRTUFrameLocked.
ReadRTU(s) ==
    IF Len(s) < 2 \/ Len(s) < RTUSize(s) THEN Waits
    ELSE LET size == RTUSize(s)
             crc  == CRC(SubSeq(s, 1, size - 2))
         IN  IF size < 4 \/ s[1] # Unit \/ crc # s[size - 1] + 256 * s[size]
             THEN Bad(s, size)
             ELSE Sound(SubSeq(s, 2, size - 2), s, size)

\* The characters that strings.TrimSpace cuts off both ends.
Spaces == {9, 10, 11, 12, 13, 32}

Trimmed(s) ==
    LET ink == {n \in DOMAIN s : s[n] \notin Spaces}
    IN  IF ink = {} THEN <<>> ELSE SubSeq(s, Min(ink), Max(ink))

\* The bytes of a hexadecimal text of even length.
Decoded(t) == [n \in 1 .. Len(t) \div 2 |-> 16 * DigitValue(t[2 * n - 1]) + DigitValue(t[2 * n])]

\* readASCIIResponseLine, whose limit of 1024 no line here reaches, and the
\* checks of sendASCIIFrameLocked.
ReadASCII(s) ==
    IF LF \notin ToSet(s) THEN Waits
    ELSE LET used == Min({n \in DOMAIN s : s[n] = LF})
             text == Trimmed(SubSeq(s, 2, used))
             raw  == Decoded(text)
             last == Len(raw)
         IN  IF \/ s[1] # 58 \/ Len(text) % 2 # 0
                \/ \E n \in DOMAIN text : DigitValue(text[n]) > 15
                \/ last < 3 \/ raw[1] # Unit
                \/ LRC(SubSeq(raw, 1, last - 1)) # raw[last]
             THEN Bad(s, used)
             ELSE Sound(SubSeq(raw, 2, last - 1), s, used)

ReadFrame(mode, s) ==
    CASE mode = "modeTCP"   -> ReadTCP(s)
      [] mode = "modeRTU"   -> ReadRTU(s)
      [] mode = "modeASCII" -> ReadASCII(s)

\* The PDU answers the request: for a read with the registers asked for, for a
\* write whatever address and count it repeats.
AnswersAsk(q, p) ==
    IF q.fc = 3
    THEN Len(p) >= 2 /\ p[1] = 3 /\ Len(p) = p[2] + 2 /\ p[2] = 2 * Registers(q)
    ELSE Len(p) = 5 /\ p[1] = q.fc

\* The string of a read: its registers, cut to the length.
StringOf(q, p) == IF q.fc = 3 THEN SubSeq(p, 3, Min({Len(p), q.n + 2})) ELSE <<>>

Take ==
    /\ stage = "answered"
    /\ stage' = "done"
    /\ LET f  == ReadFrame(ask.mode, line)
           ok == f.end = "pdu" /\ AnswersAsk(ask, f.pdu)
       IN  out' = [verdict |-> CASE ok -> "ok" [] f.end = "waits" -> "waits" [] OTHER -> "failed",
                   bytes   |-> IF ok THEN StringOf(ask, f.pdu) ELSE <<>>,
                   rest    |-> f.rest]
    /\ UNCHANGED <<ask, pdu, line, harmed>>

Done == stage = "done" /\ UNCHANGED exchangeVars

ExchangeNext ==
    \/ EndLocally
    \/ Send
    \/ \E p \in Answers(ask) : Answer(p)
    \/ \E n \in DOMAIN line : Lose(n) \/ \E b \in Bits : Flip(n, b)
    \/ Take
    \/ Done

ExchangeSpec == ExchangeInit /\ [][ExchangeNext]_exchangeVars

-----------------------------------------------------------------------------
AnswerCame == stage = "done" /\ pdu # <<>>

\* A reply that arrives whole is read to its last byte and not beyond, and is
\* a success exactly when it is no exception: nothing of it is left for the
\* next exchange on the connection, which is what ModbusClient assumes of the
\* replies that sendPDU accepts.
WholeReplyTaken ==
    AnswerCame /\ ~ harmed =>
        /\ out.rest = <<>>
        /\ out.verdict = IF Exceptional(pdu) THEN "failed" ELSE "ok"

\* One bit turned or one byte lost on a serial line never makes a wrong value,
\* and never makes a success of an exception, also where it changes the length
\* that the reader takes the frame to have.
DamageNoticed ==
    AnswerCame /\ harmed /\ ask.mode # "modeTCP" /\ out.verdict = "ok" =>
        ~ Exceptional(pdu) /\ out.bytes = StringOf(ask, pdu)

\* The bytes in as many registers as 16 bits count.
StringLimit == 2 * 65535

\* ReadString returns as many bytes as it was asked for or an error, as long as
\* the number of registers fits its 16 bits; beyond that it returns less
\* without an error.
StringWhole ==
    stage = "done" /\ out.verdict = "ok" /\ ask.fc = 3 /\ ask.n <= StringLimit =>
        Len(out.bytes) = ask.n

=============================================================================
