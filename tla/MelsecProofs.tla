---------------------------- MODULE MelsecProofs ----------------------------
(***************************************************************************)
(* What MELSEC requests, the registers they name and the lengths in their  *)
(* frames are, for any number of registers and of words: facts about the   *)
(* operators that MockServer, WordServer and MitsubishiClient share.       *)
(***************************************************************************)
EXTENDS MelsecMessages, MelsecLengths, WireProofs

-----------------------------------------------------------------------------
\* Registers and runs of them.

\* Numbering wraps around once at most.
LEMMA WrapOnce ==
    ASSUME NEW M \in Nat \ {0}, NEW x \in 0 .. 2 * M - 1
    PROVE  x % M = IF x < M THEN x ELSE x - M
  <1>1. CASE x < M
    BY <1>1
  <1>2. CASE x >= M
    BY <1>2
  <1> QED
    BY <1>1, <1>2

\* A request names no register twice.
LEMMA RegFacts ==
    ASSUME NEW q \in Request
    PROVE  /\ \A n \in 0 .. q.count - 1 : Reg(q, n) \in Regs
           /\ \A m, n \in 0 .. q.count - 1 : Reg(q, m) = Reg(q, n) => m = n
  <1>1. /\ q.addr \in 0 .. AddrMod - 1 /\ q.count \in 0 .. AddrMod
        /\ AddrMod \in Nat \ {0}
    BY AddrAssumption DEF Request, Regs
  <1> DEFINE a == q.addr
             c == q.count
             M == AddrMod
  <1>2. \A n \in 0 .. c - 1 : Reg(q, n) = IF a + n < M THEN a + n ELSE a + n - M
    <2> TAKE n \in 0 .. c - 1
    <2>1. PICK x \in 0 .. 2 * M - 1 : x = a + n
      BY <1>1
    <2>2. x % M = IF x < M THEN x ELSE x - M
      BY <1>1, WrapOnce
    <2>3. Reg(q, n) = x % M
      BY <2>1, Zenon DEF Reg
    <2>4. Reg(q, n) = IF x < M THEN x ELSE x - M
      BY <2>2, <2>3, Zenon
    <2> QED
      BY <1>1, <2>1, <2>4
  <1> HIDE DEF a, c, M
  <1>3. a \in 0 .. M - 1 /\ c \in 0 .. M /\ M \in Nat \ {0}
    BY <1>1 DEF a, c, M
  <1>4. \A n \in 0 .. c - 1 : Reg(q, n) \in 0 .. M - 1
    BY <1>2, <1>3
  <1>5. \A m, n \in 0 .. c - 1 : Reg(q, m) = Reg(q, n) => m = n
    BY <1>2, <1>3
  <1> QED
    BY <1>4, <1>5 DEF Regs, c, M

\* Nothing is left to store of a request that is done.
LEMMA NothingStored ==
    ASSUME NEW q \in Request, NEW w, w = [a \in Regs |-> w[a]]
    PROVE  StoredFrom(q, q.count, w) = w
  <1>1. q.count \in Int
    BY AddrAssumption DEF Request
  <1>2. q.count .. q.count - 1 = {}
    BY <1>1
  <1> QED
    BY <1>2 DEF StoredFrom

\* A word stored, and then the rest, is the same as all from that word on.
LEMMA StoreOneFirst ==
    ASSUME NEW q \in Request, NEW w \in [Regs -> Words], NEW n \in 0 .. q.count - 1
    PROVE  StoredFrom(q, n + 1, [w EXCEPT ![Reg(q, n)] = q.words[n + 1]])
             = StoredFrom(q, n, w)
  <1> DEFINE u == [w EXCEPT ![Reg(q, n)] = q.words[n + 1]]
             over(m, a) == {j \in m .. q.count - 1 : Reg(q, j) = a}
             top(m, a) == CHOOSE j \in over(m, a) : \A l \in over(m, a) : j >= l
  <1>0. q.count \in Nat
    BY AddrAssumption DEF Request
  <1>1. ASSUME NEW a \in Regs
        PROVE  (IF over(n + 1, a) = {} THEN u[a] ELSE q.words[1 + top(n + 1, a)])
                 = IF over(n, a) = {} THEN w[a] ELSE q.words[1 + top(n, a)]
    <2>1. CASE Reg(q, n) = a
      <3>1. over(n + 1, a) = {}
        BY <2>1, <1>0, RegFacts
      <3>2. over(n, a) = {n}
        BY <2>1, <1>0, RegFacts
      <3>3. top(n, a) = n
        BY <3>2, <1>0
      <3>4. u[a] = q.words[n + 1]
        BY <2>1
      <3>5. 1 + n = n + 1
        BY <1>0
      <3> QED
        BY <3>1, <3>2, <3>3, <3>4, <3>5
    <2>2. CASE Reg(q, n) # a
      <3>1. over(n + 1, a) = over(n, a)
        BY <2>2, <1>0
      <3>2. u[a] = w[a]
        BY <2>2
      <3> HIDE DEF over
      <3>3. top(n + 1, a) = top(n, a)
        BY <3>1, Zenon
      <3> HIDE DEF top, u
      <3> QED
        BY <3>1, <3>2, <3>3
    <2> QED
      BY <2>1, <2>2
  <1> DEFINE after(a) == IF over(n + 1, a) = {} THEN u[a] ELSE q.words[1 + top(n + 1, a)]
             before(a) == IF over(n, a) = {} THEN w[a] ELSE q.words[1 + top(n, a)]
  <1>2. StoredFrom(q, n + 1, u) = [a \in Regs |-> after(a)]
    BY Zenon DEF StoredFrom
  <1>3. StoredFrom(q, n, w) = [a \in Regs |-> before(a)]
    BY Zenon DEF StoredFrom
  <1>4. \A a \in Regs : after(a) = before(a)
    BY <1>1, Zenon
  <1> HIDE DEF over, top, after, before
  <1>5. [a \in Regs |-> after(a)] = [a \in Regs |-> before(a)]
    BY <1>4, Zenon
  <1> QED
    BY <1>2, <1>3, <1>5, Zenon

\* A write stores words.
LEMMA StoredType ==
    ASSUME NEW q \in Request, NEW w \in [Regs -> Words], NEW n \in Nat,
           \A j \in 1 .. q.count : q.words[j] \in Words
    PROVE  StoredFrom(q, n, w) \in [Regs -> Words]
  <1> DEFINE over(a) == {j \in n .. q.count - 1 : Reg(q, j) = a}
             top(a) == CHOOSE j \in over(a) : \A l \in over(a) : j >= l
  <1>0. q.count \in Nat
    BY AddrAssumption DEF Request
  <1>1. ASSUME NEW a \in Regs, over(a) # {}
        PROVE  q.words[1 + top(a)] \in Words
    <2>1. PICK m \in over(a) : TRUE
      BY <1>1
    <2>2. m \in 0 .. q.count - 1 /\ Reg(q, m) = a
      BY <1>0, <2>1
    <2>3. \A l \in over(a) : l \in 0 .. q.count - 1 /\ Reg(q, l) = a
      BY <1>0
    <2>4. \A l \in over(a) : m >= l
      BY <2>2, <2>3, RegFacts
    <2> HIDE DEF over
    <2>5. top(a) \in over(a)
      BY <2>1, <2>4, Zenon
    <2>6. 1 + top(a) \in 1 .. q.count
      <3> HIDE DEF top
      <3> QED
        BY <1>0, <2>3, <2>5
    <2> QED
      BY <2>6
  <1>2. ASSUME NEW a \in Regs
        PROVE  (IF over(a) = {} THEN w[a] ELSE q.words[1 + top(a)]) \in Words
    <2> HIDE DEF over, top
    <2> QED
      BY <1>1
  <1> QED
    BY <1>2 DEF StoredFrom

-----------------------------------------------------------------------------
\* Runs of words.

LEMMA RunFacts ==
    /\ <<>> \in Runs
    /\ \A q \in Request : q.words \in Runs
    /\ \A q \in Request : /\ q.count \in 0 .. MaxWords
                          /\ q.count \in 0 .. AddrMod
                          /\ q.call \in Calls
                          /\ q.cmd \in {"read", "write", "other"}
                          /\ q.cmd = "write" =>
                                \A n \in 1 .. q.count : q.words[n] \in Words
  <1>1. <<>> \in Runs
    <2>1. <<>> \in [1 .. 0 -> Words] /\ 0 \in 0 .. MaxWords
      BY AddrAssumption
    <2> QED
      BY <2>1 DEF Runs
  <1>2. \A q \in Request : q.words \in Runs
    BY <1>1 DEF Request
  <1>3. ASSUME NEW q \in Request
        PROVE  /\ q.count \in 0 .. MaxWords
               /\ q.count \in 0 .. AddrMod
               /\ q.call \in Calls
               /\ q.cmd \in {"read", "write", "other"}
    BY AddrAssumption DEF Request
  <1>4. ASSUME NEW q \in Request, q.cmd = "write", NEW n \in 1 .. q.count
        PROVE  q.words[n] \in Words
    <2>1. q.words \in Runs /\ q.count = Len(q.words)
      BY <1>4 DEF Request
    <2>2. PICK m \in 0 .. MaxWords : q.words \in [1 .. m -> Words]
      BY <2>1 DEF Runs
    <2>3. m = q.count
      BY <2>1, <2>2, AddrAssumption
    <2> QED
      BY <2>2, <2>3
  <1> QED
    BY <1>1, <1>2, <1>3, <1>4

\* A write stores each of its words and touches no other register.
LEMMA StoredWhole ==
    ASSUME NEW q \in Request, NEW w
    PROVE  /\ \A n \in 0 .. q.count - 1 : StoredFrom(q, 0, w)[Reg(q, n)] = q.words[n + 1]
           /\ \A a \in Regs : (\A n \in 0 .. q.count - 1 : Reg(q, n) # a) =>
                 StoredFrom(q, 0, w)[a] = w[a]
  <1> DEFINE over(a) == {j \in 0 .. q.count - 1 : Reg(q, j) = a}
             top(a) == CHOOSE j \in over(a) : \A l \in over(a) : j >= l
  <1>1. \A a \in Regs : StoredFrom(q, 0, w)[a] = IF over(a) = {} THEN w[a] ELSE q.words[1 + top(a)]
    BY DEF StoredFrom
  <1>2. ASSUME NEW n \in 0 .. q.count - 1
        PROVE  StoredFrom(q, 0, w)[Reg(q, n)] = q.words[n + 1]
    <2>1. PICK a \in Regs : a = Reg(q, n)
      BY RegFacts
    <2>2. over(a) = {n}
      BY <2>1, RegFacts
    <2>3. q.count \in Nat
      BY RunFacts, AddrAssumption
    <2>4. n \in Int /\ n >= n
      BY <2>3
    <2>5. top(a) = n
      <3> HIDE DEF over
      <3> QED
        BY <2>2, <2>4
    <2>6. StoredFrom(q, 0, w)[a] = q.words[1 + top(a)]
      <3> HIDE DEF over, top
      <3> QED
        BY <1>1, <2>2
    <2>7. 1 + top(a) = n + 1
      <3> HIDE DEF over, top
      <3> QED
        BY <2>4, <2>5
    <2> HIDE DEF over, top
    <2> QED
      BY <2>1, <2>6, <2>7
  <1>3. ASSUME NEW a \in Regs, \A n \in 0 .. q.count - 1 : Reg(q, n) # a
        PROVE  StoredFrom(q, 0, w)[a] = w[a]
    <2>1. over(a) = {}
      BY <1>3
    <2> HIDE DEF over, top
    <2> QED
      BY <1>1, <2>1
  <1> QED
    BY <1>2, <1>3

\* The first d registers of a request in the memory w.
Copied(q, d, w) == [n \in 1 .. d |-> w[Reg(q, n - 1)]]

LEMMA CopiedFacts ==
    ASSUME NEW w \in [Regs -> Words], NEW q \in Request, NEW d \in 0 .. q.count
    PROVE  /\ Copied(q, d, w) \in Runs
           /\ Copied(q, 0, w) = <<>>
           /\ Copied(q, q.count, w) = Block(q, w)
           /\ d < q.count => /\ Reg(q, d) \in Regs
                             /\ Append(Copied(q, d, w), w[Reg(q, d)]) = Copied(q, d + 1, w)
  <1>1. q.count \in 0 .. MaxWords /\ MaxWords \in Nat
    BY RunFacts, AddrAssumption
  <1>2. \A n \in 1 .. d : Reg(q, n - 1) \in Regs
    <2>1. \A n \in 1 .. d : n - 1 \in 0 .. q.count - 1
      BY <1>1
    <2> QED
      BY <2>1, RegFacts
  <1>3. Copied(q, d, w) \in [1 .. d -> Words]
    BY <1>2 DEF Copied
  <1>4. d \in 0 .. MaxWords
    BY <1>1
  <1>5. Copied(q, d, w) \in Runs
    BY <1>3, <1>4 DEF Runs
  <1>6. Copied(q, 0, w) = <<>>
    BY DEF Copied
  <1>7. Copied(q, q.count, w) = Block(q, w)
    BY DEF Copied, Block
  <1>8. ASSUME d < q.count
        PROVE  /\ Reg(q, d) \in Regs
               /\ Append(Copied(q, d, w), w[Reg(q, d)]) = Copied(q, d + 1, w)
    <2>1. d \in 0 .. q.count - 1 /\ d \in Nat
      BY <1>1, <1>8
    <2>2. Len(Copied(q, d, w)) = d /\ Copied(q, d, w) \in Seq(Words)
      BY <1>3, <2>1
    <2>3. Append(Copied(q, d, w), w[Reg(q, d)])
            = [n \in 1 .. d + 1 |-> IF n \in 1 .. d THEN Copied(q, d, w)[n] ELSE w[Reg(q, d)]]
      BY <2>1, <2>2
    <2>4. \A n \in 1 .. d + 1 :
             (IF n \in 1 .. d THEN Copied(q, d, w)[n] ELSE w[Reg(q, d)]) = w[Reg(q, n - 1)]
      <3> TAKE n \in 1 .. d + 1
      <3>1. CASE n \in 1 .. d
        BY <3>1 DEF Copied
      <3>2. CASE n = d + 1
        BY <3>2, <2>1
      <3> QED
        BY <3>1, <3>2, <2>1
    <2> QED
      BY <2>1, <2>3, <2>4, RegFacts DEF Copied
  <1> QED
    BY <1>5, <1>6, <1>7, <1>8

-----------------------------------------------------------------------------
\* A uint16 holds what fits, and wraps once below 2^17.
LEMMA U16Holds ==
    ASSUME NEW n \in Nat
    PROVE  U16(n) \in Nat /\ U16(n) <= 65535 /\ (n <= 65535 => U16(n) = n)
BY DEF U16

LEMMA U16Wraps ==
    ASSUME NEW n \in Nat, 65536 <= n, n < 131072
    PROVE  U16(n) = n - 65536
BY DEF U16

\* writeWords fills its payload without a panic exactly for fewer than 2^16
\* values, a string of at most 131070 bytes: beyond that it panics, although
\* doc/api/README.md has every write return a Result instead.
THEOREM WriteWordsPanicLimit ==
    \A n \in Nat : WriteWordsStores(n) <=> n <= 65535
<1> TAKE n \in Nat
<1>1. ASSUME n <= 65535
      PROVE  WriteWordsStores(n)
  <2>1. U16(n) = n
        BY <1>1, U16Holds
  <2> QED BY <2>1 DEF WriteWordsStores, PayloadSize, InBounds
<1>2. ASSUME WriteWordsStores(n), n > 65535
      PROVE  FALSE
  <2> DEFINE last == n - 1
  <2>1. last \in 0 .. n - 1 /\ last >= 65535
        BY <1>2
  <2>2. InBounds(6 + last * 2, 6 + last * 2 + 2, PayloadSize(n))
        BY <1>2, <2>1 DEF WriteWordsStores
  <2>3. U16(n) \in Nat /\ U16(n) <= 65535
        BY U16Holds
  <2> QED BY <2>1, <2>2, <2>3 DEF InBounds, PayloadSize
<1> QED BY <1>1, <1>2

\* A write that does not panic announces its true length exactly up to 32761
\* words; beyond that the server takes the rest of the frame for another one.
THEOREM WriteLengthLimit ==
    \A n \in Uint16 :
        (DataLen(PayloadSize(n)) = 6 + PayloadSize(n)) <=> (n <= 32761)
<1> TAKE n \in Uint16
<1>1. PayloadSize(n) = 6 + 2 * n
      BY U16Holds DEF PayloadSize, Uint16
<1>2. (U16(12 + 2 * n) = 12 + 2 * n) <=> (n <= 32761)
      BY DEF U16, Uint16
<1> QED BY <1>1, <1>2 DEF DataLen, Uint16

\* ReadString asks for as many words as the string needs exactly up to 131070
\* bytes; one byte more, and it asks for none and reports an empty string.
THEOREM ReadStringLimit ==
    \A readLength \in Nat \ {0} :
        (2 * WordCount(readLength) >= readLength) <=> (readLength <= 131070)
<1> TAKE l \in Nat \ {0}
<1> DEFINE half == (l + 1) \div 2
<1>1. half \in Nat /\ 2 * half >= l /\ 2 * half <= l + 1
      OBVIOUS
<1>2. WordCount(l) = U16(half)
      BY DEF WordCount
<1> HIDE DEF half
<1>3. U16(half) \in Nat /\ U16(half) <= 65535 /\ (half <= 65535 => U16(half) = half)
      BY <1>1, U16Holds
<1> QED BY <1>1, <1>2, <1>3

\* handleRead fills its reply without a panic exactly for fewer than 2^15
\* words, although a request may name 65535.
THEOREM HandleReadPanicLimit ==
    \A count \in Uint16 : HandleReadStores(count) <=> count <= 32767
<1> TAKE count \in Uint16
<1>1. ASSUME count <= 32767
      PROVE  HandleReadStores(count)
  <2>1. BodySize(count) = count * 2
        BY <1>1, U16Holds DEF BodySize, Uint16
  <2>2. ASSUME NEW i \in 0 .. count - 1
        PROVE  InBounds(U16(i * 2), U16(U16(i * 2) + 2), BodySize(count))
    <3>1. U16(i * 2) = i * 2 /\ U16(i * 2 + 2) = i * 2 + 2
          BY <1>1, U16Holds DEF Uint16
    <3> QED BY <2>1, <3>1 DEF InBounds, Uint16
  <2> QED BY <2>2 DEF HandleReadStores
<1>2. ASSUME HandleReadStores(count), count > 32767
      PROVE  FALSE
  <2>1. 32767 \in 0 .. count - 1
        BY <1>2 DEF Uint16
  <2>2. U16(32767 * 2) = 65534 /\ U16(65534 + 2) = 0
        BY DEF U16
  <2>3. InBounds(U16(32767 * 2), U16(U16(32767 * 2) + 2), BodySize(count))
        BY <1>2, <2>1 DEF HandleReadStores
  <2> QED BY <2>2, <2>3 DEF InBounds
<1> QED BY <1>1, <1>2 DEF Uint16

\* A reply that does not panic announces its true length except for 32767
\* words, when it announces 0 and the client finds the reply too short.
THEOREM ReplyLengthLimit ==
    \A count \in Uint16 :
        count <= 32767 => ((ReplyLen(count) = 2 + BodySize(count)) <=> (count <= 32766))
<1> TAKE count \in Uint16
<1> HAVE count <= 32767
<1>1. BodySize(count) = count * 2
      BY U16Holds DEF BodySize, Uint16
<1>2. (U16(2 + count * 2) = 2 + count * 2) <=> (count <= 32766)
      BY DEF U16, Uint16
<1> QED BY <1>1, <1>2 DEF ReplyLen

=============================================================================
