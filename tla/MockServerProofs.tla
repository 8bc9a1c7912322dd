-------------------------- MODULE MockServerProofs --------------------------
(***************************************************************************)
(* The mock server implements the atomic one: proof for any number of      *)
(* connections, registers and words.                                       *)
(***************************************************************************)
EXTENDS MockServer, MelsecProofs

-----------------------------------------------------------------------------
\* The goroutines and the mutex: what no step ever breaks.

Handler == [stage : Stages, req : Request \cup {NoRequest},
            done : 0 .. MaxWords, body : Runs]

\* The mutex belongs to the one goroutine that is in its loop.
MutexHeld == \A k \in Conns : smu = k <=> handler[k].stage = "looping"

\* What a goroutine has at hand at each stage.  One that reads registers has
\* copied them as they still are: nobody else writes until it is through.
InOrder(k) ==
    LET h == handler[k] IN
    /\ h.stage = "reading" => h = Reading
    /\ h.stage # "reading" => h.req \in Request
    /\ h.stage \in {"checked", "refusing"} => h.done = 0 /\ h.body = <<>>
    /\ h.stage \in {"checked", "looping", "answering"} => h.req.cmd \in {"read", "write"}
    /\ h.stage = "answering" => h.done = 0
    /\ h.stage = "looping" =>
          /\ h.done <= h.req.count
          /\ h.body = IF h.req.cmd = "read"
                      THEN Copied(h.req, h.done, words) ELSE <<>>

Inductive == TypeOK /\ MutexHeld /\ \A k \in Conns : InOrder(k)

\* Goroutines put together and changed.
LEMMA HandlerFacts ==
    /\ Reading \in Handler
    /\ Reading.stage = "reading"
    /\ 0 \in 0 .. MaxWords
    /\ \A s \in Stages, q \in Request, d \in 0 .. MaxWords, b \in Runs :
          [stage |-> s, req |-> q, done |-> d, body |-> b] \in Handler
    /\ \A h \in Handler, s \in Stages : [h EXCEPT !.stage = s] \in Handler
    /\ \A h \in Handler, d \in 0 .. MaxWords : [h EXCEPT !.done = d] \in Handler
    /\ \A h \in Handler, d \in 0 .. MaxWords, b \in Runs :
          [h EXCEPT !.done = d, !.body = b] \in Handler
    /\ \A h \in Handler, s \in Stages, d \in 0 .. MaxWords :
          [h EXCEPT !.stage = s, !.done = d] \in Handler
  <1>1. 0 \in 0 .. MaxWords
    BY AddrAssumption
  <1> QED
    BY <1>1, RunFacts DEF Reading, Handler, Stages

LEMMA MockInit == Init => Inductive
  <1> SUFFICES ASSUME Init PROVE Inductive
    OBVIOUS
  <1>1. Down \in Links(Request, Reply)
    BY DEF Down, Links
  <1>2. Reading \in Handler /\ Reading.stage = "reading"
    BY HandlerFacts
  <1>3. TypeOK
    BY <1>1, <1>2, WordAssumption DEF Init, TypeOK, Handler
  <1>4. MutexHeld /\ \A k \in Conns : InOrder(k)
    BY <1>2, NoConnAssumption DEF Init, MutexHeld, InOrder, Reading
  <1> QED
    BY <1>3, <1>4 DEF Inductive

\* A step of one goroutine that leaves the registers alone, or writes them
\* while the mutex is its own, has only its own order to keep.
LEMMA OwnOrder ==
    ASSUME Inductive, NEW k \in Conns, NEW h \in Handler,
           handler' = [handler EXCEPT ![k] = h],
           words' \in [Regs -> Words],
           words' = words \/ smu = k,
           InOrder(k)',
           \/ smu' = smu /\ (h.stage = "looping" <=> smu = k)
           \/ smu = NoConn /\ smu' = k /\ h.stage = "looping"
           \/ smu = k /\ smu' = NoConn /\ h.stage # "looping",
           link' \in [Conns -> Links(Request, Reply)],
           failNext' \in BOOLEAN,
           listening' = listening
    PROVE  Inductive'
  <1>1. /\ handler \in [Conns -> Handler]
        /\ handler' \in [Conns -> Handler]
        /\ handler'[k] = h
        /\ \A j \in Conns \ {k} : handler'[j] = handler[j]
    BY DEF Inductive, TypeOK, Handler
  <1>2. TypeOK'
    BY <1>1 DEF Inductive, TypeOK, Handler
  <1>3. MutexHeld'
    BY <1>1, NoConnAssumption DEF Inductive, MutexHeld
  <1>4. ASSUME NEW j \in Conns
        PROVE  InOrder(j)'
    <2>1. CASE j = k
      BY <2>1
    <2>2. CASE j # k
      <3>1. InOrder(j) /\ handler'[j] = handler[j]
        BY <1>1, <2>2 DEF Inductive
      <3>2. words' = words \/ handler[j].stage # "looping"
        BY <2>2 DEF Inductive, MutexHeld
      <3> QED
        BY <3>1, <3>2 DEF InOrder
    <2> QED
      BY <2>1, <2>2
  <1> QED
    BY <1>2, <1>3, <1>4 DEF Inductive

\* The goroutine that is in its loop, with what it has copied.
LEMMA InLoop ==
    ASSUME Inductive, NEW k \in Conns, handler[k].stage = "looping"
    PROVE  /\ smu = k
           /\ handler[k].req \in Request
           /\ handler[k].req.cmd \in {"read", "write"}
           /\ handler[k].done \in 0 .. handler[k].req.count
           /\ handler[k].body = IF handler[k].req.cmd = "read"
                                THEN Copied(handler[k].req, handler[k].done, words) ELSE <<>>
  <1>1. handler[k] \in Handler
    BY DEF Inductive, TypeOK, Handler
  <1>2. handler[k].done \in 0 .. MaxWords
    BY <1>1 DEF Handler
  <1>3. handler[k].req \in Request
    BY DEF Inductive, InOrder
  <1>4. handler[k].done \in 0 .. handler[k].req.count
    BY <1>2, <1>3, RunFacts, AddrAssumption DEF Inductive, InOrder
  <1> QED
    BY <1>3, <1>4 DEF Inductive, InOrder, MutexHeld

LEMMA ProcessStep ==
    ASSUME Inductive, NEW k \in Conns, ProcessRequest(k)
    PROVE  Inductive'
  <1>1. /\ link \in [Conns -> Links(Request, Reply)]
        /\ handler \in [Conns -> Handler]
        /\ handler[k] = Reading
    BY DEF Inductive, TypeOK, Handler, InOrder, ProcessRequest
  <1>2. PICK q \in Request : q = Head(link[k].req)
    BY <1>1, HeadFacts, WireElements DEF ProcessRequest
  <1> DEFINE s == IF failNext \/ q.cmd = "other" THEN "refusing" ELSE "checked"
  <1>3. PICK h \in Handler : h = [stage |-> s, req |-> q, done |-> 0, body |-> <<>>]
    <2>1. s \in Stages
      BY DEF Stages
    <2>2. [stage |-> s, req |-> q, done |-> 0, body |-> <<>>] \in Handler
      BY <2>1, RunFacts, HandlerFacts
    <2> QED
      BY <2>2
  <1>4. handler' = [handler EXCEPT ![k] = h]
    BY <1>1, <1>2, <1>3 DEF ProcessRequest, Reading, Handler
  <1>5. link' \in [Conns -> Links(Request, Reply)]
    BY <1>1, WireTypes DEF ProcessRequest
  <1>6. InOrder(k)'
    <2>1. handler'[k] = h
      BY <1>1, <1>4
    <2> QED
      BY <1>3, <2>1, RunFacts DEF InOrder
  <1>7. smu # k
    BY <1>1 DEF Inductive, MutexHeld, Reading
  <1> QED
    BY <1>3, <1>4, <1>5, <1>6, <1>7, OwnOrder DEF ProcessRequest, Inductive, TypeOK

LEMMA LockStep ==
    ASSUME Inductive, NEW k \in Conns, Lock(k)
    PROVE  Inductive'
  <1>1. /\ handler \in [Conns -> Handler]
        /\ handler[k] \in Handler
        /\ handler[k].req \in Request
        /\ handler[k].done = 0 /\ handler[k].body = <<>>
        /\ handler[k].req.cmd \in {"read", "write"}
    BY DEF Inductive, TypeOK, Handler, InOrder, Lock
  <1>2. PICK h \in Handler : h = [handler[k] EXCEPT !.stage = "looping"]
    BY <1>1 DEF Handler, Stages
  <1>3. handler' = [handler EXCEPT ![k] = h]
    BY <1>1, <1>2 DEF Lock
  <1>4. InOrder(k)'
    <2>1. handler'[k] = h /\ words' = words
      BY <1>1, <1>3 DEF Lock
    <2>2. /\ h.stage = "looping" /\ h.req = handler[k].req
          /\ h.done = 0 /\ h.body = <<>>
      BY <1>1, <1>2 DEF Handler
    <2>3. Copied(h.req, h.done, words) = <<>>
      BY <2>2 DEF Copied
    <2>4. 0 <= h.req.count
      BY <1>1, <2>2, RunFacts, AddrAssumption
    <2> QED
      BY <1>1, <2>1, <2>2, <2>3, <2>4 DEF InOrder
  <1>5. h.stage = "looping"
    BY <1>1, <1>2 DEF Handler
  <1> QED
    BY <1>2, <1>3, <1>4, <1>5, OwnOrder DEF Lock, TakeMutex, Inductive, TypeOK

LEMMA CopyStep ==
    ASSUME Inductive, NEW k \in Conns, CopyWord(k)
    PROVE  Inductive'
  <1>1. /\ handler \in [Conns -> Handler]
        /\ handler[k] \in Handler
        /\ handler[k].stage = "looping"
    BY DEF Inductive, TypeOK, Handler, CopyWord
  <1>2. PICK q \in Request, d \in 0 .. handler[k].req.count :
           q = handler[k].req /\ d = handler[k].done
    BY <1>1, InLoop
  <1>3. /\ smu = k /\ q.cmd \in {"read", "write"} /\ d < q.count
        /\ d \in Nat /\ q.count \in 0 .. MaxWords /\ MaxWords \in Nat
        /\ d \in 0 .. q.count /\ d \in 0 .. q.count - 1
    BY <1>1, <1>2, InLoop, RunFacts, AddrAssumption DEF CopyWord, WordsLeft
  <1>4. Reg(q, d) \in Regs /\ d + 1 \in 0 .. MaxWords
    BY <1>3, RegFacts
  <1>5. CASE q.cmd = "read"
    <2>1. handler[k].body = Copied(q, d, words)
      BY <1>1, <1>2, <1>5, InLoop
    <2>2. Copied(q, d + 1, words) \in Runs
      BY <1>3, CopiedFacts DEF Inductive, TypeOK
    <2>3. PICK h \in Handler :
             h = [handler[k] EXCEPT !.done = d + 1, !.body = Copied(q, d + 1, words)]
      <3>1. [handler[k] EXCEPT !.done = d + 1, !.body = Copied(q, d + 1, words)] \in Handler
        BY <1>1, <1>4, <2>2, HandlerFacts
      <3> QED
        BY <3>1
    <2>4. handler' = [handler EXCEPT ![k] = h] /\ words' = words
      <3>1. Append(handler[k].body, words[Reg(q, d)]) = Copied(q, d + 1, words)
        BY <1>3, <2>1, CopiedFacts DEF Inductive, TypeOK
      <3> QED
        BY <1>1, <1>2, <1>5, <2>3, <3>1 DEF CopyWord
    <2>5. /\ h.stage = "looping" /\ h.req = q /\ h.done = d + 1
          /\ h.body = Copied(q, d + 1, words)
      BY <1>1, <1>2, <2>3 DEF Handler
    <2>6. InOrder(k)'
      BY <1>1, <1>3, <1>5, <2>4, <2>5 DEF InOrder
    <2> QED
      BY <1>3, <2>3, <2>4, <2>5, <2>6, OwnOrder DEF CopyWord, Inductive, TypeOK
  <1>6. CASE q.cmd = "write"
    <2>1. handler[k].body = <<>>
      BY <1>1, <1>2, <1>6, InLoop
    <2>2. PICK h \in Handler : h = [handler[k] EXCEPT !.done = d + 1]
      <3>1. [handler[k] EXCEPT !.done = d + 1] \in Handler
        BY <1>1, <1>4, HandlerFacts
      <3> QED
        BY <3>1
    <2>3. /\ handler' = [handler EXCEPT ![k] = h]
          /\ words' = [words EXCEPT ![Reg(q, d)] = q.words[d + 1]]
      BY <1>1, <1>2, <1>6, <2>2 DEF CopyWord
    <2>4. words' \in [Regs -> Words]
      <3>1. d + 1 \in 1 .. q.count
        BY <1>3
      <3>2. q.words[d + 1] \in Words
        BY <1>6, <3>1, RunFacts
      <3> QED
        BY <2>3, <3>2 DEF Inductive, TypeOK
    <2>5. h.stage = "looping" /\ h.req = q /\ h.done = d + 1 /\ h.body = <<>>
      BY <1>1, <1>2, <2>1, <2>2 DEF Handler
    <2>6. InOrder(k)'
      BY <1>1, <1>3, <1>6, <2>3, <2>5 DEF InOrder
    <2> QED
      BY <1>3, <2>2, <2>3, <2>4, <2>5, <2>6, OwnOrder DEF CopyWord, Inductive, TypeOK
  <1> QED
    BY <1>3, <1>5, <1>6

LEMMA UnlockStep ==
    ASSUME Inductive, NEW k \in Conns, Unlock(k)
    PROVE  Inductive'
  <1>1. /\ handler \in [Conns -> Handler]
        /\ handler[k] \in Handler
        /\ handler[k].stage = "looping"
    BY DEF Inductive, TypeOK, Handler, Unlock
  <1>2. smu = k /\ handler[k].req \in Request /\ handler[k].req.cmd \in {"read", "write"}
    BY <1>1, InLoop
  <1>3. PICK h \in Handler : h = [handler[k] EXCEPT !.stage = "answering", !.done = 0]
    <2>1. "answering" \in Stages
      BY DEF Stages
    <2>2. [handler[k] EXCEPT !.stage = "answering", !.done = 0] \in Handler
      BY <1>1, <2>1, HandlerFacts
    <2> QED
      BY <2>2
  <1>4. handler' = [handler EXCEPT ![k] = h]
    BY <1>1, <1>3 DEF Unlock
  <1>5. h.stage = "answering" /\ h.done = 0 /\ h.req = handler[k].req
    BY <1>1, <1>3 DEF Handler
  <1>6. InOrder(k)'
    BY <1>1, <1>2, <1>4, <1>5 DEF InOrder
  <1> QED
    BY <1>2, <1>3, <1>4, <1>5, <1>6, OwnOrder DEF Unlock, Release, Inductive, TypeOK

LEMMA RespondStep ==
    ASSUME Inductive, NEW k \in Conns, Respond(k)
    PROVE  Inductive'
  <1>1. /\ handler \in [Conns -> Handler]
        /\ handler[k] \in Handler
        /\ handler[k].req \in Request
        /\ link \in [Conns -> Links(Request, Reply)]
    BY DEF Inductive, TypeOK, Handler, InOrder, Respond
  <1> DEFINE e == IF handler[k].stage = "answering" THEN "zero" ELSE "error"
  <1>2. PICK r \in Reply :
           r = [call |-> handler[k].req.call, end |-> e, words |-> handler[k].body]
    <2>1. handler[k].req.call \in Calls /\ e \in {"zero", "error"} /\ handler[k].body \in Runs
      BY <1>1, RunFacts DEF Handler
    <2>2. [call |-> handler[k].req.call, end |-> e, words |-> handler[k].body] \in Reply
      BY <2>1 DEF Reply
    <2> QED
      BY <2>2
  <1>3. link' \in [Conns -> Links(Request, Reply)]
    <2>1. Append(link[k].rep, r) \in Seq(Reply)
      BY <1>1, WireElements
    <2>2. link' = IF link[k].st = "up"
                  THEN [link EXCEPT ![k].rep = Append(@, r)] ELSE link
      BY <1>2 DEF Respond
    <2> QED
      BY <1>1, <2>1, <2>2 DEF Links
  <1>4. Reading \in Handler /\ Reading.stage = "reading"
    BY HandlerFacts
  <1>5. handler' = [handler EXCEPT ![k] = Reading]
    BY DEF Respond
  <1>6. InOrder(k)'
    BY <1>1, <1>4, <1>5 DEF InOrder
  <1>7. smu # k
    BY DEF Inductive, MutexHeld, Respond
  <1> QED
    BY <1>3, <1>4, <1>5, <1>6, <1>7, OwnOrder DEF Respond, Inductive, TypeOK

\* Steps that concern connections, the test's registers and switches only.
LEMMA ElsewhereStep ==
    ASSUME Inductive,
           \/ \E k \in Conns : HandlerReturns(k) \/ Peer(k)
           \/ \E a \in Regs, w \in Words : SetWord(a, w)
           \/ FailNextRequest
           \/ CloseListener
           \/ UNCHANGED vars
    PROVE  Inductive'
  <1>1. link \in [Conns -> Links(Request, Reply)] /\ words \in [Regs -> Words]
    BY DEF Inductive, TypeOK
  <1>2. CASE \E k \in Conns : HandlerReturns(k) \/ Peer(k)
    <2>1. PICK k \in Conns : HandlerReturns(k) \/ Peer(k)
      BY <1>2
    <2>2. UNCHANGED <<words, failNext, smu, listening, handler>>
      BY <2>1 DEF HandlerReturns, Peer
    <2>3. link' \in [Conns -> Links(Request, Reply)]
      <3>1. CASE HandlerReturns(k)
        <4>1. <<>> \in Seq(Request)
          OBVIOUS
        <4>2. link' = [link EXCEPT ![k].req = <<>>]
          BY <3>1 DEF HandlerReturns
        <4> QED
          BY <1>1, <4>1, <4>2 DEF Links
      <3>2. CASE Peer(k)
        <4>1. \A q \in Submitted : q \in Request
          BY SubmittedAssumption
        <4> QED
          BY <1>1, <3>2, <4>1, WireTypes DEF Peer, Accept
      <3> QED
        BY <2>1, <3>1, <3>2
    <2> QED
      BY <2>2, <2>3 DEF Inductive, TypeOK, MutexHeld, InOrder
  <1>3. CASE \E a \in Regs, w \in Words : SetWord(a, w)
    <2>1. PICK a \in Regs, w \in Words : SetWord(a, w)
      BY <1>3
    <2>2. /\ UNCHANGED <<link, failNext, smu, listening, handler>>
          /\ smu = NoConn
          /\ words' \in [Regs -> Words]
      BY <1>1, <2>1 DEF SetWord
    <2>3. \A k \in Conns : handler[k].stage # "looping"
      BY <2>2, NoConnAssumption DEF Inductive, MutexHeld
    <2>4. TypeOK' /\ MutexHeld'
      BY <2>2 DEF Inductive, TypeOK, MutexHeld
    <2>5. \A k \in Conns : InOrder(k)'
      BY <2>2, <2>3 DEF Inductive, InOrder
    <2> QED
      BY <2>4, <2>5 DEF Inductive
  <1>4. CASE FailNextRequest \/ CloseListener \/ UNCHANGED vars
    <2>1. UNCHANGED <<link, words, smu, handler>> /\ {failNext', listening'} \subseteq BOOLEAN
      BY <1>4 DEF FailNextRequest, CloseListener, vars, Inductive, TypeOK
    <2> QED
      BY <2>1 DEF Inductive, TypeOK, MutexHeld, InOrder
  <1> QED
    BY <1>2, <1>3, <1>4

LEMMA MockNext == Inductive /\ [Next]_vars => Inductive'
  <1> SUFFICES ASSUME Inductive, [Next]_vars PROVE Inductive'
    OBVIOUS
  <1> QED
    BY ProcessStep, LockStep, CopyStep, UnlockStep, RespondStep, ElsewhereStep
    DEF Next, Handle

LEMMA MockInvariant == Spec => []Inductive
  BY MockInit, MockNext, PTL DEF Spec

\* The server's state keeps its type: no goroutine reads a register that is not
\* there, or copies more words than its request names.
THEOREM ServerTypes == Spec => []TypeOK
  BY MockInvariant, PTL DEF Inductive

-----------------------------------------------------------------------------
\* The mock server as the atomic one.

\* Both talk about the same connections and registers.
LEMMA SameOperators ==
    /\ Atomic!Regs = Regs
    /\ Atomic!Request = Request
    /\ Atomic!NoRequest = NoRequest
    /\ \A q, n, w : Atomic!StoredFrom(q, n, w) = StoredFrom(q, n, w)
    /\ \A q, w : Atomic!Block(q, w) = Block(q, w)
    /\ \A k : /\ Atomic!Free(k) = Free(k)
              /\ Atomic!Dialled(k) = Dialled(k)
              /\ Atomic!HungUp(k) = HungUp(k)
              /\ Atomic!Consumed(k) = Consumed(k)
              /\ Atomic!Severed(k) = Severed(k)
              /\ Atomic!Ignored(k) = Ignored(k)
    /\ \A k, q : Atomic!Written(k, q) = Written(k, q)
    /\ Atomic!Down = Down
  BY DEF Atomic!Regs, Regs, Atomic!Request, Request, Atomic!Runs, Runs,
         Atomic!NoRequest, NoRequest, Atomic!StoredFrom, StoredFrom, Atomic!Reg, Reg,
         Atomic!Block, Block, Atomic!Free, Free, Atomic!Dialled, Dialled,
         Atomic!HungUp, HungUp, Atomic!Consumed, Consumed, Atomic!Severed, Severed,
         Atomic!Ignored, Ignored, Atomic!Written, Written, Atomic!Down, Down

jobs == [k \in Conns |-> Job(k)]

\* What the job of a goroutine is, and the memory, while it is not in its loop
\* and while it is.
JobsSeen ==
    /\ \A k \in Conns : handler[k].stage # "looping" =>
          Job(k) = [stage |-> handler[k].stage, req |-> handler[k].req,
                    words |-> handler[k].body]
    /\ smu = NoConn => Settled = words
    /\ \A k \in Conns : handler[k].stage = "looping" /\ handler[k].req.cmd = "read" =>
          /\ Job(k) = [stage |-> "answering", req |-> handler[k].req,
                       words |-> Block(handler[k].req, words)]
          /\ Settled = words
    /\ \A k \in Conns : handler[k].stage = "looping" /\ handler[k].req.cmd = "write" =>
          /\ Job(k) = [stage |-> "answering", req |-> handler[k].req, words |-> <<>>]
          /\ Settled = StoredFrom(handler[k].req, handler[k].done, words)

LEMMA JobFacts == Inductive => JobsSeen
  <1> SUFFICES ASSUME Inductive PROVE JobsSeen
    OBVIOUS
  <1>1. \A k \in Conns : handler[k].stage = "looping" => smu = k /\ k # NoConn
    BY NoConnAssumption DEF Inductive, MutexHeld
  <1>2. ASSUME NEW k \in Conns, handler[k].stage # "looping"
        PROVE  Job(k) = [stage |-> handler[k].stage, req |-> handler[k].req,
                         words |-> handler[k].body]
    BY <1>2 DEF Job
  <1>3. smu = NoConn => Settled = words
    BY DEF Settled
  <1>4. ASSUME NEW k \in Conns, handler[k].stage = "looping", handler[k].req.cmd = "read"
        PROVE  /\ Job(k) = [stage |-> "answering", req |-> handler[k].req,
                            words |-> Block(handler[k].req, words)]
               /\ Settled = words
    BY <1>1, <1>4 DEF Job, Settled
  <1>5. ASSUME NEW k \in Conns, handler[k].stage = "looping", handler[k].req.cmd = "write"
        PROVE  /\ Job(k) = [stage |-> "answering", req |-> handler[k].req, words |-> <<>>]
               /\ Settled = StoredFrom(handler[k].req, handler[k].done, words)
    <2>1. handler[k].body = <<>>
      BY <1>5, InLoop
    <2> QED
      BY <1>1, <1>5, <2>1 DEF Job, Settled
  <1> QED
    BY <1>2, <1>3, <1>4, <1>5 DEF JobsSeen

LEMMA JobFactsNext == Inductive' => JobsSeen'
  BY JobFacts, PTL

\* The other goroutines have the same jobs when theirs are not disturbed.
LEMMA OtherJobs ==
    ASSUME NEW k \in Conns, JobsSeen, JobsSeen',
           \A j \in Conns \ {k} :
              /\ handler'[j] = handler[j]
              /\ handler[j].stage # "looping"
    PROVE  jobs' = [jobs EXCEPT ![k] = Job(k)']
  <1>1. \A j \in Conns \ {k} : Job(j)' = Job(j)
    BY DEF JobsSeen
  <1> QED
    BY <1>1, Zenon DEF jobs

\* Only one goroutine at a time is in its loop.
LEMMA OneLoop ==
    ASSUME Inductive, NEW k \in Conns, smu \in {k, NoConn}
    PROVE  \A j \in Conns \ {k} : handler[j].stage # "looping"
  BY NoConnAssumption DEF Inductive, MutexHeld

LEMMA AtomicInit == Init => Atomic!ServerInit
  <1> SUFFICES ASSUME Init PROVE Atomic!ServerInit
    OBVIOUS
  <1>1. Settled = words
    BY DEF Init, Settled
  <1>2. \A k \in Conns : Job(k) = Atomic!Resting
    BY SameOperators DEF Init, Job, Reading, Atomic!Resting
  <1> QED
    BY <1>1, <1>2, SameOperators DEF Init, Atomic!ServerInit

LEMMA AtomicTake ==
    ASSUME Inductive, Inductive', NEW k \in Conns, ProcessRequest(k)
    PROVE  Atomic!TakeRequest(k)
  <1>1. JobsSeen /\ JobsSeen'
    BY JobFacts, JobFactsNext
  <1>2. handler \in [Conns -> Handler] /\ handler[k] = Reading
    BY DEF Inductive, TypeOK, Handler, InOrder, ProcessRequest
  <1> DEFINE q == Head(link[k].req)
             s == IF failNext \/ q.cmd = "other" THEN "refusing" ELSE "checked"
  <1>3. /\ handler'[k] = [stage |-> s, req |-> q, done |-> 0, body |-> <<>>]
        /\ \A j \in Conns \ {k} : handler'[j] = handler[j]
    BY <1>2 DEF ProcessRequest, Reading, Handler
  <1>4. \A j \in Conns \ {k} : handler[j].stage # "looping"
    BY OneLoop DEF ProcessRequest
  <1>5. Job(k)' = [stage |-> s, req |-> q, words |-> <<>>]
    BY <1>1, <1>3 DEF JobsSeen
  <1>6. jobs[k].stage = "reading"
    BY <1>1, <1>2 DEF JobsSeen, Reading, jobs
  <1>7. jobs' = [jobs EXCEPT ![k] = [stage |-> s, req |-> q, words |-> <<>>]]
    BY <1>1, <1>3, <1>4, <1>5, OtherJobs
  <1>8. Settled' = Settled
    BY <1>1 DEF JobsSeen, ProcessRequest
  <1> HIDE DEF s
  <1> QED
    BY <1>6, <1>7, <1>8, SameOperators DEF s, Atomic!TakeRequest, jobs, ProcessRequest

\* A goroutine that takes the mutex has, for the atomic server, done its work.
LEMMA AtomicExecute ==
    ASSUME Inductive, Inductive', NEW k \in Conns, Lock(k)
    PROVE  Atomic!Execute(k)
  <1>1. JobsSeen /\ JobsSeen'
    BY JobFacts, JobFactsNext
  <1>2. /\ handler \in [Conns -> Handler]
        /\ handler[k] \in Handler
        /\ handler[k].stage = "checked"
        /\ handler[k].req \in Request
        /\ handler[k].done = 0 /\ handler[k].body = <<>>
        /\ handler[k].req.cmd \in {"read", "write"}
        /\ smu = NoConn /\ words' = words
        /\ words \in [Regs -> Words]
    BY DEF Inductive, TypeOK, Handler, InOrder, Lock, TakeMutex
  <1>3. PICK q \in Request : q = handler[k].req
    BY <1>2
  <1>4. /\ handler'[k].stage = "looping" /\ handler'[k].req = q /\ handler'[k].done = 0
        /\ \A j \in Conns \ {k} : handler'[j] = handler[j]
    BY <1>2, <1>3 DEF Lock, Handler
  <1>5. \A j \in Conns \ {k} : handler[j].stage # "looping"
    BY <1>2, OneLoop
  <1>6. jobs' = [jobs EXCEPT ![k] = Job(k)']
    BY <1>1, <1>4, <1>5, OtherJobs
  <1>7. jobs[k] = [stage |-> "checked", req |-> q, words |-> <<>>]
    BY <1>1, <1>2, <1>3 DEF JobsSeen, jobs
  <1>8. Settled = words
    BY <1>1, <1>2 DEF JobsSeen
  <1>9. Job(k)' = [stage |-> "answering", req |-> q,
                   words |-> IF q.cmd = "read" THEN Block(q, words) ELSE <<>>]
    BY <1>1, <1>2, <1>3, <1>4 DEF JobsSeen
  <1>10. Settled' = StoredFrom(q, IF q.cmd = "write" THEN 0 ELSE q.count, words)
    <2>1. CASE q.cmd = "write"
      BY <1>1, <1>2, <1>4, <2>1 DEF JobsSeen
    <2>2. CASE q.cmd = "read"
      <3>1. Settled' = words
        BY <1>1, <1>2, <1>4, <2>2 DEF JobsSeen
      <3>2. StoredFrom(q, q.count, words) = words
        BY <1>2, NothingStored
      <3> QED
        BY <2>2, <3>1, <3>2
    <2> QED
      BY <1>2, <1>3, <2>1, <2>2
  <1> DEFINE r == IF q.cmd = "read" THEN Atomic!Block(q, Settled) ELSE <<>>
  <1>11. jobs' = [jobs EXCEPT ![k] = [stage |-> "answering", req |-> q, words |-> r]]
    BY <1>6, <1>8, <1>9, SameOperators
  <1>12. jobs \in [Conns -> {Job(j) : j \in Conns}]
    BY DEF jobs
  <1> HIDE DEF r
  <1>13. jobs' = [jobs EXCEPT ![k].stage = "answering", ![k].words = r]
    <2> DEFINE b == [stage |-> "answering", req |-> q, words |-> <<>>]
               g == [jobs EXCEPT ![k] = b]
               e == [stage |-> "answering", req |-> q, words |-> r]
    <2>1. [jobs EXCEPT ![k].stage = "answering"] = g
      <3>1. [jobs[k] EXCEPT !.stage = "answering"] = b
        BY <1>7
      <3> QED
        BY <3>1
    <2>2. g[k] = b /\ [b EXCEPT !.words = r] = e
      BY <1>12
    <2>3. [g EXCEPT ![k].words = r] = [g EXCEPT ![k] = e]
      <3> HIDE DEF g, b
      <3> QED
        BY <2>2
    <2>4. [g EXCEPT ![k] = e] = [jobs EXCEPT ![k] = e]
      BY <1>12
    <2> QED
      BY <1>11, <2>1, <2>3, <2>4, Zenon
  <1>14. Settled' = Atomic!StoredFrom(q, IF q.cmd = "write" THEN 0 ELSE q.count, Settled)
    BY <1>8, <1>10, SameOperators
  <1>15. jobs[k].stage = "checked" /\ jobs[k].req = q
    BY <1>7
  <1>16. UNCHANGED <<link, failNext, listening>>
    BY DEF Lock
  <1> QED
    BY <1>13, <1>14, <1>15, <1>16, Zenon DEF Atomic!Execute, jobs, r

\* A round of the loop changes nothing for the atomic server.
LEMMA AtomicCopy ==
    ASSUME Inductive, Inductive', NEW k \in Conns, CopyWord(k)
    PROVE  UNCHANGED <<link, Settled, failNext, listening, jobs>>
  <1>1. JobsSeen /\ JobsSeen'
    BY JobFacts, JobFactsNext
  <1>2. /\ handler \in [Conns -> Handler]
        /\ handler[k] \in Handler
        /\ handler[k].stage = "looping"
        /\ words \in [Regs -> Words]
    BY DEF Inductive, TypeOK, Handler, CopyWord
  <1>3. PICK q \in Request, d \in 0 .. handler[k].req.count :
           q = handler[k].req /\ d = handler[k].done
    BY <1>2, InLoop
  <1>4. /\ smu = k /\ q.cmd \in {"read", "write"}
        /\ d \in 0 .. q.count - 1 /\ d < q.count
    BY <1>2, <1>3, InLoop, RunFacts, AddrAssumption DEF CopyWord, WordsLeft
  <1>5. \A j \in Conns \ {k} : handler[j].stage # "looping"
    BY <1>4, OneLoop
  <1>6. /\ handler'[k].stage = "looping" /\ handler'[k].req = q
        /\ handler'[k].done = d + 1
        /\ \A j \in Conns \ {k} : handler'[j] = handler[j]
    BY <1>2, <1>3 DEF CopyWord, Handler
  <1>7. jobs' = [jobs EXCEPT ![k] = Job(k)']
    BY <1>1, <1>5, <1>6, OtherJobs
  <1>8. Job(k)' = Job(k) /\ Settled' = Settled
    <2>1. CASE q.cmd = "read"
      <3>1. words' = words
        BY <1>3, <2>1 DEF CopyWord
      <3> QED
        BY <1>1, <1>2, <1>3, <1>6, <2>1, <3>1 DEF JobsSeen
    <2>2. CASE q.cmd = "write"
      <3>1. words' = [words EXCEPT ![Reg(q, d)] = q.words[d + 1]]
        BY <1>3, <2>2 DEF CopyWord
      <3>2. StoredFrom(q, d + 1, words') = StoredFrom(q, d, words)
        BY <1>2, <1>4, <3>1, StoreOneFirst
      <3> QED
        BY <1>1, <1>2, <1>3, <1>6, <2>2, <3>2 DEF JobsSeen
    <2> QED
      BY <1>4, <2>1, <2>2
  <1>9. jobs' = jobs
    BY <1>7, <1>8 DEF jobs
  <1> QED
    BY <1>8, <1>9 DEF CopyWord

\* Neither does the end of the loop: all words are copied.
LEMMA AtomicUnlock ==
    ASSUME Inductive, Inductive', NEW k \in Conns, Unlock(k)
    PROVE  UNCHANGED <<link, Settled, failNext, listening, jobs>>
  <1>1. JobsSeen /\ JobsSeen'
    BY JobFacts, JobFactsNext
  <1>2. /\ handler \in [Conns -> Handler]
        /\ handler[k] \in Handler
        /\ handler[k].stage = "looping"
        /\ words \in [Regs -> Words] /\ words' = words
        /\ smu' = NoConn
    BY DEF Inductive, TypeOK, Handler, Unlock, Release
  <1>3. PICK q \in Request : q = handler[k].req
    BY <1>2, InLoop
  <1>4. /\ smu = k /\ q.cmd \in {"read", "write"}
        /\ handler[k].done = q.count /\ q.count \in 0 .. q.count
        /\ handler[k].body = IF q.cmd = "read" THEN Copied(q, q.count, words) ELSE <<>>
    BY <1>2, <1>3, InLoop, RunFacts, AddrAssumption DEF Unlock
  <1>5. \A j \in Conns \ {k} : handler[j].stage # "looping"
    BY <1>4, OneLoop
  <1>6. /\ handler'[k].stage = "answering" /\ handler'[k].req = q
        /\ handler'[k].body = handler[k].body
        /\ \A j \in Conns \ {k} : handler'[j] = handler[j]
    BY <1>2, <1>3 DEF Unlock, Handler
  <1>7. jobs' = [jobs EXCEPT ![k] = Job(k)']
    BY <1>1, <1>5, <1>6, OtherJobs
  <1>8. Job(k)' = Job(k) /\ Settled' = Settled
    <2>1. Settled' = words /\ Job(k)' = [stage |-> "answering", req |-> q,
                                         words |-> handler[k].body]
      BY <1>1, <1>2, <1>6 DEF JobsSeen
    <2>2. CASE q.cmd = "read"
      <3>1. handler[k].body = Block(q, words)
        BY <1>2, <1>4, <2>2, CopiedFacts
      <3> QED
        BY <1>1, <1>2, <1>3, <2>1, <2>2, <3>1 DEF JobsSeen
    <2>3. CASE q.cmd = "write"
      <3>1. StoredFrom(q, q.count, words) = words
        BY <1>2, NothingStored
      <3> QED
        BY <1>1, <1>2, <1>3, <1>4, <2>1, <2>3, <3>1 DEF JobsSeen
    <2> QED
      BY <1>4, <2>2, <2>3
  <1>9. jobs' = jobs
    BY <1>7, <1>8 DEF jobs
  <1> QED
    BY <1>8, <1>9 DEF Unlock

LEMMA AtomicRespond ==
    ASSUME Inductive, Inductive', NEW k \in Conns, Respond(k)
    PROVE  Atomic!Respond(k)
  <1>1. JobsSeen /\ JobsSeen'
    BY JobFacts, JobFactsNext
  <1>2. /\ handler \in [Conns -> Handler]
        /\ handler[k].stage \in {"answering", "refusing"}
        /\ handler'[k] = Reading
        /\ \A j \in Conns \ {k} : handler'[j] = handler[j]
        /\ words' = words /\ smu' = smu
    BY DEF Inductive, TypeOK, Handler, Respond
  <1>3. Job(k) = [stage |-> handler[k].stage, req |-> handler[k].req,
                  words |-> handler[k].body]
    BY <1>1, <1>2 DEF JobsSeen
  <1>4. Job(k)' = Atomic!Resting
    BY <1>1, <1>2, SameOperators DEF JobsSeen, Reading, Atomic!Resting
  <1>5. \A j \in Conns \ {k} : Job(j)' = Job(j)
    BY <1>2 DEF Job
  <1>6. jobs' = [jobs EXCEPT ![k] = Atomic!Resting]
    BY <1>4, <1>5, Zenon DEF jobs
  <1>7. Settled' = Settled
    <2>1. smu # k
      BY <1>2 DEF Inductive, MutexHeld
    <2>2. smu \in Conns \cup {NoConn}
      BY DEF Inductive, TypeOK
    <2>3. smu # NoConn => handler'[smu] = handler[smu]
      BY <1>2, <2>1, <2>2
    <2> QED
      BY <1>2, <2>3 DEF Settled
  <1>8. /\ jobs[k].stage = handler[k].stage
        /\ jobs[k].req.call = handler[k].req.call
        /\ jobs[k].words = handler[k].body
    BY <1>3 DEF jobs
  <1>9. /\ jobs[k].stage \in {"answering", "refusing"}
        /\ link' = IF link[k].st = "up"
                   THEN [link EXCEPT ![k].rep =
                           Append(@, [call |-> jobs[k].req.call,
                                      end |-> IF jobs[k].stage = "answering"
                                              THEN "zero" ELSE "error",
                                      words |-> jobs[k].words])]
                   ELSE link
        /\ UNCHANGED <<failNext, listening>>
    BY <1>8 DEF Respond
  <1> QED
    BY <1>6, <1>7, <1>9, Zenon DEF Atomic!Respond, jobs

\* Everything else is the same step for both.
LEMMA AtomicElsewhere ==
    ASSUME Inductive, Inductive', UNCHANGED <<smu, handler>>, words' = words
    PROVE  UNCHANGED <<Settled, jobs>>
  <1>1. Settled' = Settled
    BY DEF Settled
  <1>2. \A k \in Conns : Job(k)' = Job(k)
    BY DEF Job
  <1> QED
    BY <1>1, <1>2 DEF jobs

LEMMA AtomicPeer ==
    ASSUME Inductive, Inductive', NEW k \in Conns, Peer(k)
    PROVE  Atomic!PeerStep(k)
  <1>1. UNCHANGED <<words, failNext, smu, listening, handler>>
    BY DEF Peer
  <1>2. UNCHANGED <<Settled, failNext, listening, jobs>>
    BY <1>1, AtomicElsewhere
  <1>3. UNCHANGED Atomic!server
    BY <1>2, Zenon DEF Atomic!server, jobs
  <1>4. handler[k] = Reading => jobs[k] = Atomic!Resting
    BY SameOperators DEF jobs, Job, Reading, Atomic!Resting
  <1>5. \A q \in Submitted : q \in Request
    BY SubmittedAssumption
  <1>6. \/ Atomic!Free(k) /\ listening /\ jobs[k] = Atomic!Resting /\ link' = Atomic!Dialled(k)
        \/ \E q \in Atomic!Request : link[k].st = "up" /\ link' = Atomic!Written(k, q)
        \/ link[k].rep # <<>> /\ link' = Atomic!Consumed(k)
        \/ link[k].st # "down" /\ link' = Atomic!HungUp(k)
        \/ link[k].st = "up" /\ link' = Atomic!Severed(k)
    BY <1>4, <1>5, SameOperators DEF Peer, Accept
  <1> QED
    BY <1>3, <1>6, Zenon DEF Atomic!PeerStep, jobs

LEMMA AtomicControl ==
    ASSUME Inductive, Inductive',
           \/ \E a \in Regs, w \in Words : SetWord(a, w)
           \/ FailNextRequest
           \/ CloseListener
    PROVE  Atomic!Control
  <1>1. jobs' = jobs
    <2>1. UNCHANGED <<handler, smu>>
      BY DEF SetWord, FailNextRequest, CloseListener
    <2>2. words' # words => smu = NoConn
      BY DEF SetWord, FailNextRequest, CloseListener
    <2>3. ASSUME NEW k \in Conns
          PROVE  Job(k)' = Job(k)
      <3>1. CASE smu = NoConn
        <4>1. handler[k].stage # "looping"
          BY <3>1, NoConnAssumption DEF Inductive, MutexHeld
        <4> QED
          BY <2>1, <4>1 DEF Job
      <3>2. CASE smu # NoConn
        BY <2>1, <2>2, <3>2 DEF Job
      <3> QED
        BY <3>1, <3>2
    <2> QED
      BY <2>3 DEF jobs
  <1>2. ASSUME NEW a \in Regs, NEW w \in Words, SetWord(a, w)
        PROVE  Atomic!SetWord(a, w)
    <2>1. Settled = words /\ Settled' = words'
      BY <1>2, JobFacts, JobFactsNext DEF JobsSeen, SetWord
    <2>2. Settled' = [Settled EXCEPT ![a] = w] /\ UNCHANGED <<link, failNext, listening>>
      BY <1>2, <2>1 DEF SetWord
    <2> QED
      BY <1>1, <2>2, Zenon DEF Atomic!SetWord, jobs
  <1>3. ASSUME FailNextRequest
        PROVE  Atomic!FailNextRequest
    <2>1. Settled' = Settled
      BY <1>3 DEF FailNextRequest, Settled
    <2>2. failNext' = TRUE /\ UNCHANGED <<link, listening>>
      BY <1>3 DEF FailNextRequest
    <2> QED
      BY <1>1, <2>1, <2>2, Zenon DEF Atomic!FailNextRequest, jobs
  <1>4. ASSUME CloseListener
        PROVE  Atomic!StopListening
    <2>1. Settled' = Settled
      BY <1>4 DEF CloseListener, Settled
    <2>2. listening' = FALSE /\ UNCHANGED <<link, failNext>>
      BY <1>4 DEF CloseListener
    <2> QED
      BY <1>1, <2>1, <2>2, Zenon DEF Atomic!StopListening, jobs
  <1> QED
    BY <1>2, <1>3, <1>4, SameOperators DEF Atomic!Control

LEMMA AtomicDrop ==
    ASSUME Inductive, Inductive', NEW k \in Conns, HandlerReturns(k)
    PROVE  Atomic!DropConnection(k)
  <1>1. UNCHANGED <<Settled, failNext, listening, jobs>>
    BY AtomicElsewhere DEF HandlerReturns
  <1>2. UNCHANGED Atomic!server
    BY <1>1, Zenon DEF Atomic!server, jobs
  <1>3. jobs[k].stage = "reading"
    BY JobFacts DEF HandlerReturns, JobsSeen, jobs
  <1>4. link[k].st = "down" /\ link[k].req # <<>> /\ link' = [link EXCEPT ![k].req = <<>>]
    BY DEF HandlerReturns
  <1> QED
    BY <1>2, <1>3, <1>4, Zenon DEF Atomic!DropConnection, jobs

LEMMA AtomicStutter ==
    ASSUME UNCHANGED <<link, Settled, failNext, listening, jobs>>
    PROVE  UNCHANGED <<link, Atomic!server>>
  BY Zenon DEF Atomic!server, jobs

LEMMA AtomicNext ==
    ASSUME Inductive, Inductive', [Next]_vars
    PROVE  [Atomic!Control \/ \E k \in Conns : Atomic!Serve(k) \/ Atomic!PeerStep(k)]_<<link, Atomic!server>>
  <1>1. ASSUME NEW k \in Conns, Handle(k) \/ Peer(k)
        PROVE  \/ Atomic!Serve(k) \/ Atomic!PeerStep(k)
               \/ UNCHANGED <<link, Atomic!server>>
    <2>1. CASE ProcessRequest(k)
      BY <2>1, AtomicTake DEF Atomic!Serve
    <2>2. CASE Lock(k)
      BY <2>2, AtomicExecute DEF Atomic!Serve
    <2>3. CASE CopyWord(k)
      BY <2>3, AtomicCopy, AtomicStutter
    <2>4. CASE Unlock(k)
      BY <2>4, AtomicUnlock, AtomicStutter
    <2>5. CASE Respond(k)
      BY <2>5, AtomicRespond DEF Atomic!Serve
    <2>6. CASE HandlerReturns(k)
      BY <2>6, AtomicDrop DEF Atomic!Serve
    <2>7. CASE Peer(k)
      BY <2>7, AtomicPeer
    <2> QED
      BY <1>1, <2>1, <2>2, <2>3, <2>4, <2>5, <2>6, <2>7 DEF Handle
  <1>2. CASE \/ \E a \in Regs, w \in Words : SetWord(a, w)
             \/ FailNextRequest
             \/ CloseListener
    BY <1>2, AtomicControl
  <1>3. CASE UNCHANGED vars
    <2>1. UNCHANGED <<link, smu, handler, words, failNext, listening>>
      BY <1>3 DEF vars
    <2>2. UNCHANGED <<link, Settled, failNext, listening, jobs>>
      BY <2>1, AtomicElsewhere
    <2> QED
      BY <2>2, AtomicStutter
  <1> QED
    BY <1>1, <1>2, <1>3 DEF Next

\* The server that copies registers one by one implements the one that reads
\* and writes them at once: no client sees half of another one's write, no
\* SetWord gets in between, and an injected failure hits exactly one request.
THEOREM ServerIsAtomic == Spec => ImplementsWordServer
  <1>1. Init => Atomic!ServerInit /\ link = [k \in Conns |-> Atomic!Down]
    BY AtomicInit, SameOperators DEF Init
  <1>2. Inductive /\ Inductive' /\ [Next]_vars =>
           [Atomic!Control \/ \E k \in Conns : Atomic!Serve(k) \/ Atomic!PeerStep(k)]_<<link, Atomic!server>>
    BY AtomicNext
  <1> QED
    BY <1>1, <1>2, MockInvariant, PTL DEF Spec, ImplementsWordServer, Atomic!ServerSpec

=============================================================================
