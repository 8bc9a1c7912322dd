----------------------------- MODULE WireProofs -----------------------------
(***************************************************************************)
(* What the operators of Wire do to the states and the queues of the       *)
(* connections, for any requests and replies.                              *)
(***************************************************************************)
EXTENDS Wire, TLAPS

\* Whatever the client and the device do to connections leaves connections.
LEMMA WireTypes ==
    ASSUME NEW Rq, NEW Rp, link \in [Conns -> Links(Rq, Rp)],
           NEW k \in Conns
    PROVE  /\ Dialled(k) \in [Conns -> Links(Rq, Rp)]
           /\ HungUp(k) \in [Conns -> Links(Rq, Rp)]
           /\ HungUp(NoConn) = link
           /\ Severed(k) \in [Conns -> Links(Rq, Rp)]
           /\ \A q \in Rq : Written(k, q) \in [Conns -> Links(Rq, Rp)]
           /\ link[k].rep # <<>> => Consumed(k) \in [Conns -> Links(Rq, Rp)]
           /\ link[k].req # <<>> =>
                 /\ Ignored(k) \in [Conns -> Links(Rq, Rp)]
                 /\ \A r \in Rp : Answered(k, r) \in [Conns -> Links(Rq, Rp)]
  <1> DEFINE L == Links(Rq, Rp)
  <1>1. \A l \in L : /\ l.st \in {"down", "up", "cut"}
                     /\ l.req \in Seq(Rq)
                     /\ l.rep \in Seq(Rp)
    BY DEF Links, L
  <1>2. <<>> \in Seq(Rq) /\ <<>> \in Seq(Rp)
    OBVIOUS
  <1>a. /\ link[k] \in L
        /\ link[k].req \in Seq(Rq)
        /\ link[k].rep \in Seq(Rp)
        /\ \A q \in Rq : Append(link[k].req, q) \in Seq(Rq)
        /\ \A r \in Rp : Append(link[k].rep, r) \in Seq(Rp)
        /\ link[k].req # <<>> => Tail(link[k].req) \in Seq(Rq)
        /\ link[k].rep # <<>> => Tail(link[k].rep) \in Seq(Rp)
    BY <1>1
  <1>3. Dialled(k) \in [Conns -> L]
    BY DEF Dialled, Links, L
  <1>4. HungUp(k) \in [Conns -> L] /\ HungUp(NoConn) = link
    BY <1>2 DEF HungUp, Links, L
  <1>5. Severed(k) \in [Conns -> L]
    BY <1>2 DEF Severed, Links, L
  <1>6. ASSUME NEW q \in Rq
        PROVE  Written(k, q) \in [Conns -> L]
    BY <1>a DEF Written, Links, L
  <1>7. ASSUME link[k].rep # <<>>
        PROVE  Consumed(k) \in [Conns -> L]
    BY <1>a, <1>7 DEF Consumed, Links, L
  <1>8. ASSUME link[k].req # <<>>
        PROVE  Ignored(k) \in [Conns -> L]
    BY <1>a, <1>8 DEF Ignored, Links, L
  <1>9. ASSUME link[k].req # <<>>, NEW r \in Rp
        PROVE  Answered(k, r) \in [Conns -> L]
    BY <1>a, <1>9 DEF Answered, Links, L
  <1> QED
    BY <1>3, <1>4, <1>5, <1>6, <1>7, <1>8, <1>9

\* Where the elements of a queue come from when it grows or shrinks.
LEMMA QueueFacts ==
    ASSUME NEW S, NEW s \in Seq(S)
    PROVE  /\ Len(s) \in Nat
           /\ DOMAIN s = 1 .. Len(s)
           /\ s = <<>> <=> Len(s) = 0
           /\ s = <<>> <=> DOMAIN s = {}
           /\ \A e \in S :
                 /\ Len(Append(s, e)) = Len(s) + 1
                 /\ \A n \in DOMAIN Append(s, e) :
                       \/ Append(s, e)[n] = e
                       \/ n \in DOMAIN s /\ Append(s, e)[n] = s[n]
           /\ s # <<>> =>
                 /\ 1 \in DOMAIN s
                 /\ Head(s) = s[1]
                 /\ Len(Tail(s)) = Len(s) - 1
                 /\ \A n \in DOMAIN Tail(s) :
                       n + 1 \in DOMAIN s /\ Tail(s)[n] = s[n + 1]
  <1>1. /\ Len(s) \in Nat
        /\ DOMAIN s = 1 .. Len(s)
        /\ s = <<>> <=> Len(s) = 0
    OBVIOUS
  <1>2. s = <<>> <=> DOMAIN s = {}
    <2>1. \A n \in Nat : n # 0 => 1 \in 1 .. n
      OBVIOUS
    <2>2. CASE Len(s) = 0
      BY <1>1, <2>2
    <2>3. CASE Len(s) # 0
      BY <1>1, <2>1, <2>3
    <2> QED
      BY <2>2, <2>3
  <1>3. ASSUME NEW e \in S
        PROVE  /\ Len(Append(s, e)) = Len(s) + 1
               /\ \A n \in DOMAIN Append(s, e) :
                     \/ Append(s, e)[n] = e
                     \/ n \in DOMAIN s /\ Append(s, e)[n] = s[n]
    BY <1>1
  <1>4. ASSUME s # <<>>
        PROVE  /\ 1 \in DOMAIN s
               /\ Head(s) = s[1]
               /\ Len(Tail(s)) = Len(s) - 1
               /\ \A n \in DOMAIN Tail(s) :
                     n + 1 \in DOMAIN s /\ Tail(s)[n] = s[n + 1]
    BY <1>1, <1>4
  <1> QED
    BY <1>1, <1>2, <1>3, <1>4

\* The head of a queue that is not empty is its first element.
LEMMA HeadFacts ==
    ASSUME NEW S, NEW s \in Seq(S), s # <<>>
    PROVE  1 \in DOMAIN s /\ Head(s) = s[1] /\ Head(s) \in S /\ Tail(s) \in Seq(S)
  OBVIOUS

\* What is left of a queue was in it before.
LEMMA TailElements ==
    ASSUME NEW S, NEW s \in Seq(S), s # <<>>
    PROVE  \A n \in DOMAIN Tail(s) : \E m \in DOMAIN s : Tail(s)[n] = s[m]
  <1>1. \A n \in DOMAIN Tail(s) : n + 1 \in DOMAIN s /\ Tail(s)[n] = s[n + 1]
    BY QueueFacts
  <1> QED
    BY <1>1, Zenon

\* Of two queues that hold one message between them, the other one is empty,
\* and so is this one when the message is taken.
LEMMA LastMessage ==
    ASSUME NEW S, NEW s \in Seq(S), NEW T, NEW t \in Seq(T),
           s # <<>>, Len(s) + Len(t) <= 1 \/ Len(t) + Len(s) <= 1
    PROVE  Tail(s) = <<>> /\ t = <<>>
  <1>1. Len(s) \in Nat /\ (s = <<>> <=> Len(s) = 0)
    BY QueueFacts
  <1>2. Len(t) \in Nat /\ (t = <<>> <=> Len(t) = 0)
    BY QueueFacts
  <1>3. Len(s) = 1 /\ Len(t) = 0
    <2>1. \A a, b \in Nat : a # 0 /\ (a + b <= 1 \/ b + a <= 1) => a = 1 /\ b = 0
      OBVIOUS
    <2> QED
      BY <1>1, <1>2, <2>1, Zenon
  <1>4. Tail(s) \in Seq(S) /\ Len(Tail(s)) = 0
    BY <1>3
  <1>5. Tail(s) = <<>>
    BY <1>4
  <1> QED
    BY <1>2, <1>3, <1>5

\* A queue of no more than one message that is not empty has one, and taking
\* it leaves none.
LEMMA Single ==
    ASSUME NEW S, NEW s \in Seq(S), Len(s) <= 1, s # <<>>
    PROVE  DOMAIN s = {1} /\ Head(s) = s[1] /\ s[1] \in S /\ Tail(s) = <<>>
  <1>1. Len(s) \in Nat /\ DOMAIN s = 1 .. Len(s) /\ (s = <<>> <=> Len(s) = 0)
    BY QueueFacts
  <1>2. Len(s) = 1
    BY <1>1
  <1>3. Tail(s) = <<>>
    <2>1. Tail(s) \in Seq(S) /\ Len(Tail(s)) = 0
      BY <1>2
    <2> QED
      BY <2>1
  <1> QED
    BY <1>1, <1>2, <1>3

LEMMA Empty == Len(<<>>) = 0 /\ DOMAIN <<>> = {}
  OBVIOUS

LEMMA OneAppended ==
    ASSUME NEW q
    PROVE  /\ Append(<<>>, q) = <<q>> /\ Len(<<q>>) = 1 /\ DOMAIN <<q>> = {1}
           /\ <<q>>[1] = q /\ <<q>> # <<>>
  OBVIOUS

\* The state and the queues of connection j after an operation on k.
LEMMA HungUpFields ==
    ASSUME NEW Rq, NEW Rp, link \in [Conns -> Links(Rq, Rp)],
           NEW k \in Conns \cup {NoConn}, NEW j \in Conns
    PROVE  /\ HungUp(k)[j].st = IF j = k THEN "down" ELSE link[j].st
           /\ HungUp(k)[j].req = link[j].req
           /\ HungUp(k)[j].rep = IF j = k THEN <<>> ELSE link[j].rep
  BY NoConnAssumption DEF HungUp, Links

LEMMA DialledFields ==
    ASSUME NEW Rq, NEW Rp, link \in [Conns -> Links(Rq, Rp)],
           NEW k \in Conns, NEW j \in Conns
    PROVE  /\ Dialled(k)[j].st = IF j = k THEN "up" ELSE link[j].st
           /\ Dialled(k)[j].req = link[j].req
           /\ Dialled(k)[j].rep = link[j].rep
  BY DEF Dialled, Links

LEMMA SeveredFields ==
    ASSUME NEW Rq, NEW Rp, link \in [Conns -> Links(Rq, Rp)],
           NEW k \in Conns, NEW j \in Conns
    PROVE  /\ Severed(k)[j].st = IF j = k THEN "cut" ELSE link[j].st
           /\ Severed(k)[j].req = IF j = k THEN <<>> ELSE link[j].req
           /\ Severed(k)[j].rep = link[j].rep
  BY DEF Severed, Links

LEMMA ConsumedFields ==
    ASSUME NEW Rq, NEW Rp, link \in [Conns -> Links(Rq, Rp)],
           NEW k \in Conns, NEW j \in Conns
    PROVE  /\ Consumed(k)[j].st = link[j].st
           /\ Consumed(k)[j].req = link[j].req
           /\ Consumed(k)[j].rep =
                IF j = k THEN Tail(link[j].rep) ELSE link[j].rep
  BY DEF Consumed, Links

LEMMA IgnoredFields ==
    ASSUME NEW Rq, NEW Rp, link \in [Conns -> Links(Rq, Rp)],
           NEW k \in Conns, NEW j \in Conns
    PROVE  /\ Ignored(k)[j].st = link[j].st
           /\ Ignored(k)[j].req =
                IF j = k THEN Tail(link[j].req) ELSE link[j].req
           /\ Ignored(k)[j].rep = link[j].rep
  BY DEF Ignored, Links

LEMMA WrittenFields ==
    ASSUME NEW Rq, NEW Rp, link \in [Conns -> Links(Rq, Rp)],
           NEW k \in Conns, NEW j \in Conns, NEW q \in Rq
    PROVE  /\ Written(k, q)[j].st = link[j].st
           /\ Written(k, q)[j].req =
                IF j = k /\ link[j].st = "up"
                THEN Append(link[j].req, q) ELSE link[j].req
           /\ Written(k, q)[j].rep = link[j].rep
  BY DEF Written, Links

LEMMA AnsweredFields ==
    ASSUME NEW Rq, NEW Rp, link \in [Conns -> Links(Rq, Rp)],
           NEW k \in Conns, NEW j \in Conns, NEW r \in Rp
    PROVE  /\ Answered(k, r)[j].st = link[j].st
           /\ Answered(k, r)[j].req =
                IF j = k THEN Tail(link[j].req) ELSE link[j].req
           /\ Answered(k, r)[j].rep =
                IF j = k /\ link[j].st = "up"
                THEN Append(link[j].rep, r) ELSE link[j].rep
  BY DEF Answered, Links

\* What is on the wire is what may be on the wire.
LEMMA WireElements ==
    ASSUME NEW Rq, NEW Rp, link \in [Conns -> Links(Rq, Rp)],
           NEW k \in Conns
    PROVE  /\ link[k].req \in Seq(Rq)
           /\ link[k].rep \in Seq(Rp)
           /\ \A n \in DOMAIN link[k].req : link[k].req[n] \in Rq
           /\ \A n \in DOMAIN link[k].rep : link[k].rep[n] \in Rp
  <1>1. link[k].req \in Seq(Rq) /\ link[k].rep \in Seq(Rp)
    BY DEF Links
  <1> QED
    BY <1>1

=============================================================================
