-------------------------- MODULE SiemensProofs ----------------------------
(***************************************************************************)
(* Theorems about SiemensClient, for every set of calls, connections and   *)
(* areas and every number of exchanges a transfer takes: a transfer that   *)
(* succeeds is one of its last attempt, whole, only more faults than there *)
(* are retries make one fail, and client and device are TransferService.   *)
(***************************************************************************)
EXTENDS SiemensClient, WireProofs, FiniteSetTheorems

\* What the client writes, and what the device answers.
Request == [call : Calls, part : 1 .. Parts]
Reply == [kind : {"normal", "error"}, val : Vals \cup {InitVal, NoVal}]

Buffers == [1 .. Parts -> Vals \cup {InitVal, NoVal}]

CallRecords ==
    [pc : {"new"} \cup Waiting \cup Returned, op : Ops \cup {NoOp}, part : 1 .. Parts,
     buf : Buffers, budget : Nat]

Types ==
    /\ link \in [Conns -> Links(Request, Reply)]
    /\ store \in [Areas -> [1 .. Parts -> Vals \cup {InitVal}]]
    /\ mu \in Calls \cup {NoCall}
    /\ conn \in Conns \cup {NoConn}
    /\ connected \in BOOLEAN
    /\ maxRetries \in Nat
    /\ attempt \in Nat
    /\ call \in [Calls -> CallRecords]
    /\ served \in [Calls -> Buffers]
    /\ faults \in [Calls -> Nat]

\* The states of a call that holds the mutex.
Busy == {"attempt", "await"}

LockHeld ==
    /\ \A i \in Calls : call[i].pc \in Busy <=> mu = i
    /\ \A i \in Calls : call[i].pc \in Busy =>
          IsData(call[i].op) /\ attempt <= call[i].budget
    /\ \A i \in Calls : At(i, "await") => conn # NoConn
    /\ mu = NoCall => attempt = 0

OneSocket ==
    /\ conn # NoConn => link[conn].st # "down"
    /\ \A k \in Conns : link[k].st # "down" => k = conn

\* Message q is the request, or r the answer, that the call with the mutex is
\* waiting for; the device has served it as it answers.
Asked(q) == q.call = mu /\ At(q.call, "await") /\ q.part = call[q.call].part

Answers(i, r) ==
    /\ At(i, "await")
    /\ r.kind = "normal" =>
          /\ r.val = served[i][call[i].part]
          /\ call[i].op.kind = "write" => r.val = call[i].op.val
          /\ r.val # NoVal

\* The connection in use carries the exchange going on and nothing else.
InStep ==
    conn # NoConn =>
        /\ Len(link[conn].req) + Len(link[conn].rep) <= 1
        /\ \A n \in DOMAIN link[conn].req : Asked(link[conn].req[n])
        /\ \A n \in DOMAIN link[conn].rep : mu # NoCall /\ Answers(mu, link[conn].rep[n])

\* Requests, on connections that were given up too, are of reads and writes.
Sound(q) == ~ At(q.call, "new") /\ IsData(call[q.call].op)

Traced == \A k \in Conns : \A n \in DOMAIN link[k].req : Sound(link[k].req[n])

\* The attempt going on has part p of the transfer of call i behind it.
Transferred(i, p) ==
    IF call[i].op.kind = "read"
    THEN served[i][p] # NoVal /\ call[i].buf[p] = served[i][p]
    ELSE served[i][p] = call[i].op.val

Progressed(i) ==
    /\ call[i].pc \in {"new", "blocked"} => call[i].part = 1
    /\ call[i].pc \in Busy => \A p \in 1 .. Parts : p < call[i].part => Transferred(i, p)
    /\ At(i, "ok") /\ IsData(call[i].op) => \A p \in 1 .. Parts : Transferred(i, p)

\* The attempt cannot succeed any more.
Doomed ==
    conn # NoConn /\ (\/ link[conn].st # "up"
                      \/ \E n \in DOMAIN link[conn].rep : link[conn].rep[n].kind = "error")

\* Each attempt that failed, or will, has cost the call a fault.
FaultsCharged ==
    mu # NoCall =>
        /\ faults[mu] >= attempt
        /\ Doomed => faults[mu] >= attempt + 1

Inductive ==
    /\ Types /\ LockHeld /\ OneSocket /\ InStep /\ Traced
    /\ \A i \in Calls : Progressed(i)
    /\ FaultsCharged /\ RetryMasksFaults

-----------------------------------------------------------------------------
\* The operations, as far as the proofs look at them.
LEMMA OpFacts ==
    /\ NoOp \in Ops \cup {NoOp} /\ ~ IsData(NoOp)
    /\ \A o \in Ops \cup {NoOp} : IsData(o) =>
          /\ o.area \in Areas /\ o.kind \in {"read", "write"}
          /\ o.kind = "write" => o.val \in Vals
  BY DEF Ops, NoOp, IsData

\* The fields of a call are of their types.
LEMMA CallFacts ==
    ASSUME Types, NEW i \in Calls
    PROVE  /\ call[i] \in CallRecords
           /\ call[i].pc \in {"new", "blocked", "attempt", "await", "ok", "failed", "rejected"}
           /\ call[i].op \in Ops \cup {NoOp} /\ call[i].part \in 1 .. Parts
           /\ call[i].buf \in Buffers /\ call[i].budget \in Nat
           /\ served[i] \in Buffers /\ faults[i] \in Nat
  BY DEF Types, CallRecords, Waiting, Returned

\* The step changes the record of call i alone.
OnlyCall(i) == \A j \in Calls \ {i} : call'[j] = call[j]

\* What a step that moves call i leaves as it was.
Moved(i, q) ==
    /\ OnlyCall(i)
    /\ call'[i].pc = q
    /\ call'[i].op = call[i].op /\ call'[i].buf = call[i].buf

LEMMA UpdateFacts ==
    ASSUME Types, NEW i \in Calls, NEW c \in CallRecords, call' = [call EXCEPT ![i] = c]
    PROVE  call' \in [Calls -> CallRecords] /\ OnlyCall(i) /\ call'[i] = c
  BY DEF Types, OnlyCall

LEMMA GotoFacts ==
    ASSUME Types, NEW i \in Calls, NEW q \in Waiting \cup Returned, Goto(i, q)
    PROVE  /\ call' \in [Calls -> CallRecords] /\ Moved(i, q)
           /\ call'[i].part = call[i].part /\ call'[i].budget = call[i].budget
  BY DEF Types, Goto, Moved, OnlyCall, CallRecords

\* The first exchange of an attempt, of a call that has just got the mutex or
\* that repeats its transfer.
LEMMA AcquireFacts ==
    ASSUME Types, NEW i \in Calls,
           call' = [call EXCEPT ![i].budget = maxRetries, ![i].pc = "attempt"]
    PROVE  /\ call' \in [Calls -> CallRecords] /\ Moved(i, "attempt")
           /\ call'[i].part = call[i].part /\ call'[i].budget = maxRetries
  <1> DEFINE c == [call[i] EXCEPT !.budget = maxRetries, !.pc = "attempt"]
  <1>1. call' = [call EXCEPT ![i] = c]
    OBVIOUS
  <1>2. call[i] \in CallRecords /\ maxRetries \in Nat
    BY CallFacts DEF Types
  <1>3. /\ c \in CallRecords /\ c.budget = maxRetries /\ c.pc = "attempt"
        /\ c.op = call[i].op /\ c.buf = call[i].buf /\ c.part = call[i].part
    BY <1>2 DEF CallRecords, Waiting
  <1>4. OnlyCall(i) /\ call' \in [Calls -> CallRecords] /\ call'[i] = c
    BY <1>1, <1>3, UpdateFacts
  <1> HIDE DEF c
  <1> QED
    BY <1>3, <1>4 DEF Moved

LEMMA RepeatFacts ==
    ASSUME Types, NEW i \in Calls,
           call' = [call EXCEPT ![i].pc = "attempt", ![i].part = FirstPart(i)]
    PROVE  /\ call' \in [Calls -> CallRecords] /\ Moved(i, "attempt")
           /\ call'[i].part = 1 /\ call'[i].budget = call[i].budget
  <1> DEFINE c == [call[i] EXCEPT !.pc = "attempt", !.part = 1]
  <1>1. call' = [call EXCEPT ![i] = c]
    BY DEF FirstPart
  <1>2. call[i] \in CallRecords /\ 1 \in 1 .. Parts
    BY CallFacts, PartAssumption
  <1>3. /\ c \in CallRecords /\ c.budget = call[i].budget /\ c.pc = "attempt"
        /\ c.op = call[i].op /\ c.buf = call[i].buf /\ c.part = 1
    BY <1>2 DEF CallRecords, Waiting
  <1>4. OnlyCall(i) /\ call' \in [Calls -> CallRecords] /\ call'[i] = c
    BY <1>1, <1>3, UpdateFacts
  <1> HIDE DEF c
  <1> QED
    BY <1>3, <1>4 DEF Moved

LEMMA InvokeFacts ==
    ASSUME Types, NEW i \in Calls, NEW o \in Ops,
           call' = [call EXCEPT ![i].op = o, ![i].pc = "blocked"]
    PROVE  /\ call' \in [Calls -> CallRecords] /\ OnlyCall(i)
           /\ call'[i].pc = "blocked" /\ call'[i].part = call[i].part
  <1> DEFINE c == [call[i] EXCEPT !.op = o, !.pc = "blocked"]
  <1>1. call' = [call EXCEPT ![i] = c]
    OBVIOUS
  <1>2. call[i] \in CallRecords
    BY CallFacts
  <1>3. c \in CallRecords /\ c.pc = "blocked" /\ c.part = call[i].part
    BY <1>2 DEF CallRecords, Waiting
  <1>4. OnlyCall(i) /\ call' \in [Calls -> CallRecords] /\ call'[i] = c
    BY <1>1, <1>3, UpdateFacts
  <1> HIDE DEF c
  <1> QED
    BY <1>3, <1>4

LEMMA MoreFaultsFacts ==
    ASSUME Types, NEW i \in Calls
    PROVE  /\ MoreFaults(i) \in [Calls -> Nat]
           /\ \A j \in Calls : MoreFaults(i)[j] >= faults[j]
           /\ \A a \in Nat : a <= faults[i] /\ a <= call[i].budget => MoreFaults(i)[i] >= a + 1
  <1>1. faults \in [Calls -> Nat] /\ \A j \in Calls : call[j].budget \in Nat
    BY CallFacts DEF Types
  <1> QED
    BY <1>1 DEF MoreFaults

LEMMA LinkFacts ==
    ASSUME Types, NEW k \in Conns
    PROVE  /\ link[k].req \in Seq(Request) /\ link[k].rep \in Seq(Reply)
           /\ \A n \in DOMAIN link[k].req :
                 link[k].req[n].call \in Calls /\ link[k].req[n].part \in 1 .. Parts
           /\ \A n \in DOMAIN link[k].rep : link[k].rep[n] \in Reply
  <1>1. link \in [Conns -> Links(Request, Reply)]
    BY DEF Types
  <1>2. /\ link[k].req \in Seq(Request) /\ link[k].rep \in Seq(Reply)
        /\ \A n \in DOMAIN link[k].req : link[k].req[n] \in Request
        /\ \A n \in DOMAIN link[k].rep : link[k].rep[n] \in Reply
    BY <1>1, WireElements
  <1>3. \A q \in Request : q.call \in Calls /\ q.part \in 1 .. Parts
    BY DEF Request
  <1> QED
    BY <1>2, <1>3

-----------------------------------------------------------------------------
\* The call that holds the mutex is the only one in the middle of a transfer.
LEMMA Holder ==
    ASSUME Inductive, NEW i \in Calls, call[i].pc \in Busy
    PROVE  /\ mu = i /\ i # NoCall /\ IsData(call[i].op)
           /\ attempt \in Nat /\ attempt <= call[i].budget
           /\ faults[i] >= attempt /\ (Doomed => faults[i] >= attempt + 1)
           /\ At(i, "await") => conn \in Conns
           /\ \A j \in Calls \ {i} : call[j].pc \notin Busy
  <1>1. mu = i /\ i # NoCall
    BY CallAssumption DEF Inductive, LockHeld
  <1> QED
    BY <1>1 DEF Inductive, LockHeld, FaultsCharged, Types

\* Whoever holds it is such a call.
LEMMA Owner ==
    ASSUME Inductive
    PROVE  /\ mu # NoCall => mu \in Calls /\ call[mu].pc \in Busy
           /\ mu = NoCall => \A j \in Calls : call[j].pc \notin Busy
  BY CallAssumption DEF Inductive, LockHeld, Types

\* Nothing is on the connection while no answer is awaited.
LEMMA Idle ==
    ASSUME Inductive, conn # NoConn, \A i \in Calls : ~ At(i, "await")
    PROVE  conn \in Conns /\ link[conn].req = <<>> /\ link[conn].rep = <<>>
  <1>1. conn \in Conns
    BY DEF Inductive, Types
  <1>2. link[conn].req \in Seq(Request) /\ link[conn].rep \in Seq(Reply)
    BY <1>1, LinkFacts DEF Inductive
  <1>3. DOMAIN link[conn].req = {}
    BY <1>1, LinkFacts DEF Inductive, InStep, Asked
  <1>4. mu # NoCall => mu \in Calls
    BY Owner
  <1>5. DOMAIN link[conn].rep = {}
    BY <1>1, <1>4 DEF Inductive, InStep, Answers
  <1> QED
    BY <1>1, <1>2, <1>3, <1>5, QueueFacts

\* A connection that carries nothing is in step.
LEMMA EmptyInStep ==
    ASSUME conn' # NoConn => link'[conn'].req = <<>> /\ link'[conn'].rep = <<>>
    PROVE  InStep'
  <1>1. \A s, t : s = <<>> /\ t = <<>> =>
            Len(s) + Len(t) <= 1 /\ DOMAIN s = {} /\ DOMAIN t = {}
    OBVIOUS
  <1>2. ASSUME conn' # NoConn
        PROVE  /\ Len(link'[conn'].req) + Len(link'[conn'].rep) <= 1
               /\ DOMAIN link'[conn'].req = {}
               /\ DOMAIN link'[conn'].rep = {}
    BY <1>1, <1>2, Zenon
  <1> QED
    BY <1>2, Zenon DEF InStep

\* What is on the wire stays the transfer of a call that was made.
LEMMA TracedKept ==
    ASSUME Inductive,
           \A k \in Conns : \A n \in DOMAIN link'[k].req :
               \/ \E m \in DOMAIN link[k].req : link'[k].req[n] = link[k].req[m]
               \/ Sound(link[k].req[n])',
           \A j \in Calls : ~ At(j, "new") =>
               call'[j].pc # "new" /\ call'[j].op = call[j].op
    PROVE  Traced'
  <1> SUFFICES ASSUME NEW k \in Conns, NEW n \in DOMAIN link'[k].req
               PROVE  Sound(link[k].req[n])'
    BY DEF Traced
  <1>1. CASE \E m \in DOMAIN link[k].req : link'[k].req[n] = link[k].req[m]
    <2>1. PICK m \in DOMAIN link[k].req : link'[k].req[n] = link[k].req[m]
      BY <1>1
    <2>2. link[k].req[m].call \in Calls /\ Sound(link[k].req[m])
      BY LinkFacts DEF Inductive, Traced
    <2> QED
      BY <2>1, <2>2 DEF Sound, At
  <1> QED
    BY <1>1

\* The step moves call i alone: the others keep what was said of them.
LEMMA Assembled ==
    ASSUME Inductive, NEW i \in Calls, OnlyCall(i),
           Types', LockHeld', OneSocket', InStep', Traced', FaultsCharged', Progressed(i)',
           \A j \in Calls \ {i} : served'[j] = served[j] /\ faults'[j] >= faults[j],
           call'[i].pc = "failed" /\ IsData(call'[i].op) => faults'[i] > call'[i].budget
    PROVE  Inductive'
  <1>1. ASSUME NEW j \in Calls \ {i}
        PROVE  Progressed(j)'
    <2>1. Progressed(j) /\ call'[j] = call[j] /\ served'[j] = served[j]
      BY DEF Inductive, OnlyCall
    <2> QED
      BY <2>1 DEF Progressed, Transferred, At
  <1>2. ASSUME NEW j \in Calls, call'[j].pc = "failed", IsData(call'[j].op)
        PROVE  faults'[j] > call'[j].budget
    <2>1. CASE j = i
      BY <1>2, <2>1
    <2>2. CASE j # i
      <3>1. call'[j] = call[j] /\ faults'[j] >= faults[j]
        BY <2>2 DEF OnlyCall
      <3>2. faults[j] > call[j].budget
        BY <1>2, <3>1 DEF Inductive, RetryMasksFaults, At
      <3>3. faults[j] \in Nat /\ faults'[j] \in Nat /\ call[j].budget \in Nat
        BY CallFacts DEF Inductive, Types
      <3> QED
        BY <3>1, <3>2, <3>3
    <2> QED
      BY <2>1, <2>2
  <1>3. RetryMasksFaults'
    BY <1>2 DEF RetryMasksFaults, At, IsData
  <1> QED
    BY <1>1, <1>3 DEF Inductive

\* The step leaves the calls alone, and charges faults.
LEMMA Charged ==
    ASSUME Inductive, Types', OneSocket', InStep', Traced', FaultsCharged',
           UNCHANGED <<call, mu, conn, attempt>>,
           \A j \in Calls : Progressed(j)' /\ faults'[j] >= faults[j]
    PROVE  Inductive'
  <1>1. LockHeld'
    BY DEF Inductive, LockHeld, At
  <1>2. ASSUME NEW j \in Calls, call[j].pc = "failed", IsData(call[j].op)
        PROVE  faults'[j] > call[j].budget
    <2>1. faults[j] > call[j].budget
      BY <1>2 DEF Inductive, RetryMasksFaults, At
    <2>2. faults[j] \in Nat /\ faults'[j] \in Nat /\ call[j].budget \in Nat
      BY CallFacts DEF Inductive, Types
    <2> QED
      BY <2>1, <2>2
  <1>3. RetryMasksFaults'
    BY <1>2 DEF RetryMasksFaults, At, IsData
  <1> QED
    BY <1>1, <1>3 DEF Inductive

-----------------------------------------------------------------------------
\* A step off the wire keeps the connection in step.
LEMMA WireKept ==
    ASSUME Inductive, NEW i \in Calls, call[i].pc \notin Busy, OnlyCall(i),
           UNCHANGED <<link, conn, served>>,
           mu' = mu \/ (mu = NoCall /\ mu' = i),
           ~ At(i, "new") => call'[i].pc # "new" /\ call'[i].op = call[i].op
    PROVE  OneSocket' /\ InStep' /\ Traced'
  <1>1. OneSocket'
    BY DEF Inductive, OneSocket
  <1>2. \A j \in Calls : ~ At(j, "new") => call'[j].pc # "new" /\ call'[j].op = call[j].op
    BY DEF OnlyCall, At
  <1>3. Traced'
    BY <1>2, TracedKept
  <1>4. InStep'
    <2>1. CASE \A j \in Calls : ~ At(j, "await")
      BY <2>1, Idle, EmptyInStep
    <2>2. CASE \E j \in Calls : At(j, "await")
      <3>1. PICK j \in Calls : At(j, "await")
        BY <2>2
      <3>2. mu = j /\ j # i /\ j # NoCall /\ mu' = mu /\ call'[j] = call[j]
        BY <3>1, Holder DEF At, Busy, OnlyCall
      <3>3. ASSUME NEW q, Asked(q) PROVE Asked(q)'
        BY <3>2, <3>3 DEF Asked, At
      <3>4. ASSUME NEW r, Answers(j, r) PROVE Answers(j, r)'
        BY <3>2, <3>4 DEF Answers, At
      <3> QED
        BY <3>2, <3>3, <3>4 DEF Inductive, InStep
    <2> QED
      BY <2>1, <2>2
  <1> QED
    BY <1>1, <1>3, <1>4

LEMMA LocalStep ==
    ASSUME Inductive, NEW i \in Calls, (\E o \in Ops : Invoke(i, o)) \/ ReturnLocally(i)
    PROVE  Inductive'
  <1>t. Types /\ LockHeld /\ Progressed(i)
    BY DEF Inductive
  <1>1. /\ call[i].pc \notin Busy
        /\ call' \in [Calls -> CallRecords] /\ OnlyCall(i)
        /\ call'[i].pc \in {"blocked", "rejected"} /\ call'[i].part = 1
        /\ ~ At(i, "new") => call'[i].op = call[i].op
    <2>1. CASE \E o \in Ops : Invoke(i, o)
      <3>1. PICK o \in Ops : Invoke(i, o)
        BY <2>1
      <3>2. call' = [call EXCEPT ![i].op = o, ![i].pc = "blocked"] /\ At(i, "new")
        BY <3>1 DEF Invoke
      <3> QED
        BY <1>t, <3>2, InvokeFacts DEF Busy, At, Progressed
    <2>2. CASE ReturnLocally(i)
      <3>1. Goto(i, "rejected") /\ At(i, "blocked")
        BY <2>2 DEF ReturnLocally
      <3>2. "rejected" \in Waiting \cup Returned
        BY DEF Returned
      <3> QED
        BY <1>t, <3>1, <3>2, GotoFacts DEF Busy, At, Progressed, Moved
    <2> QED
      BY <2>1, <2>2
  <1>2. UNCHANGED <<link, store, mu, conn, connected, maxRetries, attempt, served, faults>>
    BY DEF Invoke, ReturnLocally, fields
  <1>3. Types'
    BY <1>t, <1>1, <1>2 DEF Types
  <1>4. LockHeld'
    BY <1>t, <1>1, <1>2 DEF LockHeld, At, Busy, OnlyCall
  <1>5. OneSocket' /\ InStep' /\ Traced'
    BY <1>1, <1>2, WireKept
  <1>6. FaultsCharged'
    BY <1>2 DEF Inductive, FaultsCharged, Doomed
  <1>7. Progressed(i)'
    BY <1>1 DEF Progressed, At, Busy
  <1>8. \A j \in Calls \ {i} : served'[j] = served[j] /\ faults'[j] >= faults[j]
    BY <1>t, <1>2 DEF Types
  <1> QED
    BY <1>1, <1>3, <1>4, <1>5, <1>6, <1>7, <1>8, Assembled

LEMMA AcquireStep ==
    ASSUME Inductive, NEW i \in Calls, Acquire(i)
    PROVE  Inductive'
  <1>t. Types /\ LockHeld /\ Progressed(i)
    BY DEF Inductive
  <1>0. /\ At(i, "blocked") /\ IsData(call[i].op) /\ mu = NoCall /\ mu' = i
        /\ call' = [call EXCEPT ![i].budget = maxRetries, ![i].pc = "attempt"]
        /\ faults' = [faults EXCEPT ![i] = IF conn = NoConn \/ Live THEN 0 ELSE 1]
        /\ UNCHANGED <<link, store, conn, connected, maxRetries, attempt, served>>
    BY DEF Acquire
  <1>1. /\ call' \in [Calls -> CallRecords] /\ Moved(i, "attempt")
        /\ call'[i].part = 1 /\ call'[i].budget = maxRetries
    BY <1>t, <1>0, AcquireFacts DEF Progressed, At
  <1>2. \A j \in Calls : call[j].pc \notin Busy
    BY <1>0, Owner
  <1>3. /\ faults' \in [Calls -> Nat] /\ faults'[i] = IF conn = NoConn \/ Live THEN 0 ELSE 1
        /\ \A j \in Calls \ {i} : faults'[j] = faults[j]
    BY <1>t, <1>0 DEF Types
  <1>4. Types'
    BY <1>t, <1>0, <1>1, <1>3 DEF Types
  <1>5. LockHeld'
    BY <1>t, <1>0, <1>1, <1>2, CallAssumption DEF LockHeld, At, Busy, OnlyCall, Moved, Types
  <1>6. OneSocket' /\ InStep' /\ Traced'
    BY <1>0, <1>1, <1>2, WireKept DEF Moved
  <1>7. FaultsCharged'
    <2>1. conn # NoConn => DOMAIN link[conn].rep = {}
      <3>1. conn # NoConn => link[conn].rep = <<>>
        BY <1>2, Idle DEF At, Busy
      <3> QED
        BY <3>1, Empty
    <2>2. attempt = 0
      BY <1>t, <1>0 DEF LockHeld
    <2> QED
      BY <1>0, <1>3, <2>1, <2>2 DEF FaultsCharged, Doomed, Live
  <1>8. Progressed(i)'
    BY <1>1, PartAssumption DEF Progressed, At, Busy, Moved
  <1>9. \A j \in Calls \ {i} : served'[j] = served[j] /\ faults'[j] >= faults[j]
    BY <1>t, <1>0, <1>3 DEF Types
  <1> QED
    BY <1>1, <1>4, <1>5, <1>6, <1>7, <1>8, <1>9, Assembled DEF Moved

\* A hang-up leaves no connection to be out of step.
LEMMA HangUp ==
    ASSUME Inductive, link' = HungUp(conn), conn' = NoConn,
           \A j \in Calls : ~ At(j, "new") => call'[j].pc # "new" /\ call'[j].op = call[j].op
    PROVE  /\ link' \in [Conns -> Links(Request, Reply)]
           /\ OneSocket' /\ InStep' /\ Traced'
  <1>t. link \in [Conns -> Links(Request, Reply)] /\ conn \in Conns \cup {NoConn} /\ OneSocket
    BY DEF Inductive, Types
  <1>1. \A j \in Conns : /\ link'[j].st = IF j = conn THEN "down" ELSE link[j].st
                         /\ link'[j].req = link[j].req
    BY <1>t, HungUpFields
  <1>2. link' \in [Conns -> Links(Request, Reply)]
    BY <1>t, WireTypes DEF HungUp
  <1>3. OneSocket' /\ InStep'
    BY <1>t, <1>1 DEF OneSocket, InStep
  <1>4. Traced'
    BY <1>1, TracedKept
  <1> QED
    BY <1>2, <1>3, <1>4

\* An attempt fails: the transfer begins again on a new connection, or the call
\* returns, each time for a fault it has met.
LEMMA FailureStep ==
    ASSUME Inductive, NEW i \in Calls, Fail(i) \/ RefuseReply(i)
    PROVE  Inductive'
  <1>t. Types /\ LockHeld
    BY DEF Inductive
  <1>0. /\ call[i].pc \in Busy /\ AttemptFailed(i)
        /\ faults' = faults \/ faults' = MoreFaults(i)
    BY DEF Fail, RefuseReply, At, Busy
  <1>1. /\ mu = i /\ i # NoCall /\ IsData(call[i].op)
        /\ attempt \in Nat /\ attempt <= call[i].budget /\ call[i].budget \in Nat
        /\ faults[i] \in Nat /\ faults[i] >= attempt /\ (Doomed => faults[i] >= attempt + 1)
        /\ \A j \in Calls \ {i} : call[j].pc \notin Busy
        /\ At(i, "await") => conn \in Conns
    BY <1>t, <1>0, Holder, CallFacts
  <1>2. /\ link' = HungUp(conn) /\ conn' = NoConn /\ connected' = FALSE
        /\ served' = [served EXCEPT ![i] = Nothing]
        /\ UNCHANGED <<store, maxRetries>>
    BY <1>0 DEF AttemptFailed, CloseLocked
  <1>3. /\ call' \in [Calls -> CallRecords] /\ OnlyCall(i)
        /\ call'[i].op = call[i].op /\ call'[i].budget = call[i].budget
        /\ \/ /\ attempt < call[i].budget /\ attempt' = attempt + 1 /\ mu' = mu
              /\ call'[i].pc = "attempt" /\ call'[i].part = 1
           \/ /\ ~ (attempt < call[i].budget) /\ attempt' = 0 /\ mu' = NoCall
              /\ call'[i].pc = "failed"
    <2>1. CASE MoreAttempts(i)
      <3>1. /\ attempt' = attempt + 1 /\ mu' = mu
            /\ call' = [call EXCEPT ![i].pc = "attempt", ![i].part = FirstPart(i)]
        BY <1>0, <2>1 DEF AttemptFailed
      <3> QED
        BY <1>t, <2>1, <3>1, RepeatFacts DEF MoreAttempts, Moved
    <2>2. CASE ~ MoreAttempts(i)
      <3>1. attempt' = 0 /\ mu' = NoCall /\ Goto(i, "failed")
        BY <1>0, <2>2 DEF AttemptFailed, Return
      <3>2. "failed" \in Waiting \cup Returned
        BY DEF Returned
      <3> QED
        BY <1>t, <2>2, <3>1, <3>2, GotoFacts DEF MoreAttempts, Moved
    <2> QED
      BY <2>1, <2>2
  <1>4. \A j \in Calls : ~ At(j, "new") => call'[j].pc # "new" /\ call'[j].op = call[j].op
    BY <1>3 DEF OnlyCall, At
  <1>5. /\ link' \in [Conns -> Links(Request, Reply)]
        /\ OneSocket' /\ InStep' /\ Traced'
    BY <1>2, <1>4, HangUp
  <1>6. faults' \in [Calls -> Nat] /\ \A j \in Calls : faults'[j] >= faults[j]
    <2>1. CASE faults' = faults
      BY <1>t, <2>1 DEF Types
    <2>2. CASE faults' = MoreFaults(i)
      BY <1>t, <2>2, MoreFaultsFacts
    <2> QED
      BY <1>0, <2>1, <2>2
  <1>7. faults'[i] >= attempt + 1
    <2>1. CASE faults' = MoreFaults(i)
      BY <1>t, <1>1, <2>1, MoreFaultsFacts
    <2>2. CASE faults' # MoreFaults(i)
      <3>1. faults' = faults
        BY <1>0, <2>2
      <3>2. CASE Fail(i)
        <4>1. conn # NoConn /\ ~ Live
          BY <2>2, <3>2 DEF Fail
        <4> QED
          BY <1>1, <3>1, <4>1 DEF Doomed, Live
      <3>3. CASE RefuseReply(i)
        <4>1. /\ conn \in Conns /\ conn # NoConn
              /\ link[conn].rep # <<>> /\ Head(link[conn].rep).kind = "error"
          BY <1>1, <3>3, NoConnAssumption DEF RefuseReply
        <4>2. 1 \in DOMAIN link[conn].rep /\ Head(link[conn].rep) = link[conn].rep[1]
          BY <1>t, <4>1, LinkFacts, HeadFacts
        <4> QED
          BY <1>1, <3>1, <4>1, <4>2 DEF Doomed
      <3> QED
        BY <3>2, <3>3
    <2> QED
      BY <2>1, <2>2
  <1>8. Types'
    <2>1. Nothing \in Buffers
      BY DEF Nothing, Buffers
    <2>2. served' \in [Calls -> Buffers]
      BY <1>t, <1>2, <2>1 DEF Types
    <2>3. attempt' \in Nat /\ mu' \in Calls \cup {NoCall}
      <3>1. \A n \in Nat : n + 1 \in Nat
        OBVIOUS
      <3>2. 0 \in Nat
        OBVIOUS
      <3> QED
        BY <1>1, <1>3, <3>1, <3>2, Zenon
    <2>4. conn' \in Conns \cup {NoConn} /\ connected' \in BOOLEAN
      BY <1>2
    <2>5. UNCHANGED <<store, maxRetries>>
      BY <1>2
    <2> QED
      BY <1>t, <1>3, <1>5, <1>6, <2>2, <2>3, <2>4, <2>5 DEF Types
  <1>9. LockHeld'
    <2>1. CASE mu' = mu
      BY <1>t, <1>1, <1>3, <2>1 DEF LockHeld, At, Busy, OnlyCall
    <2>2. CASE mu' # mu
      BY <1>t, <1>1, <1>3, <2>2, CallAssumption DEF LockHeld, At, Busy, OnlyCall
    <2> QED
      BY <2>1, <2>2
  <1>10. FaultsCharged'
    BY <1>1, <1>2, <1>3, <1>6, <1>7 DEF FaultsCharged, Doomed
  <1>11. Progressed(i)'
    BY <1>3, PartAssumption DEF Progressed, At, Busy
  <1>12. \A j \in Calls \ {i} : served'[j] = served[j] /\ faults'[j] >= faults[j]
    BY <1>t, <1>2, <1>6 DEF Types
  <1>13. call'[i].pc = "failed" => faults'[i] > call'[i].budget
    <2>1. faults'[i] \in Nat
      BY <1>6
    <2> QED
      BY <1>1, <1>3, <1>7, <2>1
  <1> QED
    BY <1>3, <1>5, <1>8, <1>9, <1>10, <1>11, <1>12, <1>13, Assembled

\* A dial: the new connection carries nothing, the old one is closed.
LEMMA DialFacts ==
    ASSUME Inductive, NEW k \in Conns, OpenLocked(k),
           \A j \in Calls : ~ At(j, "new") => call'[j].pc # "new" /\ call'[j].op = call[j].op
    PROVE  /\ link' \in [Conns -> Links(Request, Reply)]
           /\ conn' = k /\ connected' = TRUE /\ ~ Doomed'
           /\ OneSocket' /\ InStep' /\ Traced'
  <1> DEFINE h == HungUp(conn)
  <1>t. link \in [Conns -> Links(Request, Reply)] /\ conn \in Conns \cup {NoConn} /\ OneSocket
    BY DEF Inductive, Types
  <1>0. /\ link[k] = Down /\ conn' = k /\ connected' = TRUE
        /\ link' = [h EXCEPT ![k].st = "up"]
    BY DEF OpenLocked, Free
  <1>1. \A j \in Conns : /\ h[j].st = IF j = conn THEN "down" ELSE link[j].st
                         /\ h[j].req = link[j].req
                         /\ h[j].rep = IF j = conn THEN <<>> ELSE link[j].rep
    BY <1>t, HungUpFields
  <1>2. h \in [Conns -> Links(Request, Reply)]
    BY <1>t, WireTypes DEF HungUp
  <1> HIDE DEF h
  <1>3. /\ link' \in [Conns -> Links(Request, Reply)]
        /\ \A j \in Conns : /\ link'[j].st = IF j = k THEN "up" ELSE h[j].st
                            /\ link'[j].req = h[j].req /\ link'[j].rep = h[j].rep
    BY <1>0, <1>2 DEF Links
  <1>4. link[k].req = <<>> /\ link[k].rep = <<>>
    BY <1>0 DEF Down
  <1>5. link'[k].st = "up" /\ link'[k].req = <<>> /\ link'[k].rep = <<>>
    BY <1>1, <1>3, <1>4
  <1>6. InStep'
    BY <1>0, <1>5, EmptyInStep
  <1>7. OneSocket'
    BY <1>0, <1>1, <1>3, <1>t DEF OneSocket
  <1>8. ~ Doomed'
    BY <1>0, <1>5, Empty DEF Doomed
  <1>9. \A j \in Conns : link'[j].req = link[j].req
    BY <1>1, <1>3
  <1>10. Traced'
    BY <1>9, TracedKept
  <1> QED
    BY <1>0, <1>3, <1>6, <1>7, <1>8, <1>10

LEMMA DialStep ==
    ASSUME Inductive, NEW i \in Calls, NEW k \in Conns, Connect(i, k) \/ Open(i, k)
    PROVE  Inductive'
  <1>t. Types /\ LockHeld /\ Progressed(i)
    BY DEF Inductive
  <1>0. /\ OpenLocked(k) /\ UNCHANGED <<store, mu, maxRetries, attempt, served, faults>>
        /\ \/ call' = call
           \/ At(i, "blocked") /\ ~ IsData(call[i].op) /\ mu = NoCall /\ Goto(i, "ok")
    BY DEF Connect, Open, IsData
  <1>1. /\ call' \in [Calls -> CallRecords] /\ OnlyCall(i)
        /\ call'[i].op = call[i].op
        /\ \/ call' = call
           \/ /\ At(i, "blocked") /\ ~ IsData(call[i].op) /\ mu = NoCall
              /\ call'[i].pc = "ok"
    <2>1. CASE call' = call
      BY <1>t, <2>1 DEF Types, OnlyCall
    <2>2. CASE At(i, "blocked") /\ ~ IsData(call[i].op) /\ mu = NoCall /\ Goto(i, "ok")
      <3>1. "ok" \in Waiting \cup Returned
        BY DEF Returned
      <3> QED
        BY <1>t, <2>2, <3>1, GotoFacts DEF Moved
    <2> QED
      BY <1>0, <2>1, <2>2
  <1>2. \A j \in Calls : ~ At(j, "new") => call'[j].pc # "new" /\ call'[j].op = call[j].op
    BY <1>1 DEF OnlyCall, At
  <1>3. /\ link' \in [Conns -> Links(Request, Reply)]
        /\ conn' = k /\ connected' = TRUE /\ ~ Doomed'
        /\ OneSocket' /\ InStep' /\ Traced'
    BY <1>0, <1>2, DialFacts
  <1>4. Types'
    BY <1>t, <1>0, <1>1, <1>3 DEF Types
  <1>5. LockHeld'
    <2>1. CASE call' = call
      BY <1>t, <1>0, <1>3, <2>1, NoConnAssumption DEF LockHeld, At
    <2>2. CASE At(i, "blocked") /\ mu = NoCall /\ call'[i].pc = "ok"
      BY <1>t, <1>0, <1>1, <1>3, <2>2, NoConnAssumption DEF LockHeld, At, Busy, OnlyCall
    <2> QED
      BY <1>1, <2>1, <2>2
  <1>6. FaultsCharged'
    BY <1>0, <1>3 DEF Inductive, FaultsCharged
  <1>7. Progressed(i)'
    <2>1. CASE call' = call
      BY <1>t, <1>0, <2>1 DEF Progressed, Transferred, At
    <2>2. CASE ~ IsData(call[i].op) /\ call'[i].pc = "ok"
      BY <1>1, <2>2 DEF Progressed, At, Busy, IsData
    <2> QED
      BY <1>1, <2>1, <2>2
  <1>8. \A j \in Calls \ {i} : served'[j] = served[j] /\ faults'[j] >= faults[j]
    BY <1>t, <1>0 DEF Types
  <1>9. call'[i].pc = "failed" /\ IsData(call'[i].op) => faults'[i] > call'[i].budget
    BY <1>0, <1>1 DEF Inductive, RetryMasksFaults, At
  <1> QED
    BY <1>1, <1>3, <1>4, <1>5, <1>6, <1>7, <1>8, <1>9, Assembled

LEMMA CloseStep ==
    ASSUME Inductive, NEW i \in Calls, CloseOrFail(i)
    PROVE  Inductive'
  <1>t. Types /\ LockHeld /\ Progressed(i)
    BY DEF Inductive
  <1>0. /\ At(i, "blocked") /\ ~ IsData(call[i].op) /\ mu = NoCall
        /\ CloseLocked /\ UNCHANGED <<store, mu, maxRetries, attempt, served, faults>>
        /\ Goto(i, "ok") \/ Goto(i, "failed")
    BY DEF CloseOrFail, IsData
  <1>1. /\ call' \in [Calls -> CallRecords] /\ OnlyCall(i)
        /\ call'[i].op = call[i].op /\ call'[i].pc \in {"ok", "failed"}
    <2>1. "ok" \in Waiting \cup Returned /\ "failed" \in Waiting \cup Returned
      BY DEF Returned
    <2> QED
      BY <1>t, <1>0, <2>1, GotoFacts DEF Moved
  <1>2. \A j \in Calls : ~ At(j, "new") => call'[j].pc # "new" /\ call'[j].op = call[j].op
    BY <1>1 DEF OnlyCall, At
  <1>3. /\ link' \in [Conns -> Links(Request, Reply)] /\ conn' = NoConn /\ connected' = FALSE
        /\ OneSocket' /\ InStep' /\ Traced'
    BY <1>0, <1>2, HangUp DEF CloseLocked
  <1>4. Types'
    BY <1>t, <1>0, <1>1, <1>3 DEF Types
  <1>5. \A j \in Calls : call[j].pc \notin Busy
    BY <1>0, Owner
  <1>6. LockHeld'
    BY <1>t, <1>0, <1>1, <1>5 DEF LockHeld, At, Busy, OnlyCall
  <1>7. FaultsCharged'
    BY <1>0 DEF FaultsCharged
  <1>8. Progressed(i)'
    BY <1>0, <1>1 DEF Progressed, At, Busy, IsData
  <1>9. \A j \in Calls \ {i} : served'[j] = served[j] /\ faults'[j] >= faults[j]
    BY <1>t, <1>0 DEF Types
  <1>10. ~ IsData(call'[i].op)
    BY <1>0, <1>1
  <1> QED
    BY <1>1, <1>3, <1>4, <1>6, <1>7, <1>8, <1>9, <1>10, Assembled

\* An exchange begins on a connection that carries nothing.
LEMMA TransmitStep ==
    ASSUME Inductive, NEW i \in Calls, Transmit(i)
    PROVE  Inductive'
  <1>t. Types /\ LockHeld /\ Progressed(i) /\ OneSocket
    BY DEF Inductive
  <1>0. /\ At(i, "attempt") /\ conn # NoConn /\ Goto(i, "await")
        /\ UNCHANGED <<store, fields, served, faults>>
    BY DEF Transmit, Ready
  <1>1. /\ call' \in [Calls -> CallRecords] /\ Moved(i, "await")
        /\ call'[i].part = call[i].part /\ call'[i].budget = call[i].budget
    <2>1. "await" \in Waiting \cup Returned
      BY DEF Waiting
    <2> QED
      BY <1>t, <1>0, <2>1, GotoFacts
  <1>2. /\ mu = i /\ IsData(call[i].op) /\ i # NoCall
        /\ \A j \in Calls : ~ At(j, "await")
    BY <1>0, Holder DEF At, Busy
  <1>3. conn \in Conns /\ link[conn].req = <<>> /\ link[conn].rep = <<>>
    BY <1>0, <1>2, Idle
  <1>4. PICK q \in Request : q = [call |-> i, part |-> call[i].part]
    BY <1>t, CallFacts DEF Request
  <1>5. link' = Written(conn, q) /\ q.call = i /\ q.part = call[i].part
    BY <1>4 DEF Transmit
  <1>6. link' \in [Conns -> Links(Request, Reply)]
    BY <1>t, <1>3, <1>5, WireTypes DEF Types
  <1>7. \A j \in Conns :
           /\ link'[j].st = link[j].st /\ link'[j].rep = link[j].rep
           /\ link'[j].req = IF j = conn /\ link[j].st = "up" THEN Append(link[j].req, q)
                                                              ELSE link[j].req
    BY <1>t, <1>3, <1>5, WrittenFields DEF Types
  <1>8. link'[conn].req = <<q>> \/ link'[conn].req = <<>>
    BY <1>3, <1>7, OneAppended
  <1>9. /\ Len(link'[conn].req) <= 1 /\ Len(link'[conn].rep) = 0
        /\ Len(link'[conn].req) + Len(link'[conn].rep) <= 1
        /\ DOMAIN link'[conn].rep = {}
        /\ \A n \in DOMAIN link'[conn].req : link'[conn].req[n] = q
    <2>1. link'[conn].rep = <<>>
      BY <1>3, <1>7
    <2>2. Len(<<>>) + Len(<<>>) <= 1 /\ Len(<<q>>) + Len(<<>>) <= 1
      BY Empty, OneAppended
    <2>3. CASE link'[conn].req = <<q>>
      BY <2>1, <2>2, <2>3, Empty, OneAppended
    <2>4. CASE link'[conn].req = <<>>
      BY <2>1, <2>2, <2>4, Empty
    <2> QED
      BY <1>8, <2>3, <2>4
  <1>10. Types'
    BY <1>t, <1>0, <1>1, <1>6 DEF Types, fields
  <1>11. LockHeld'
    BY <1>t, <1>0, <1>1, <1>2 DEF LockHeld, At, Busy, OnlyCall, Moved, fields
  <1>12. OneSocket'
    BY <1>t, <1>0, <1>3, <1>7 DEF OneSocket, fields
  <1>13. InStep'
    <2>1. Asked(q)'
      BY <1>0, <1>1, <1>2, <1>5 DEF Asked, At, Moved, fields
    <2> QED
      BY <1>0, <1>9, <2>1 DEF InStep, fields
  <1>14. Traced'
    <2>1. Sound(q)'
      BY <1>1, <1>2, <1>5 DEF Sound, At, Moved
    <2>2. \A j \in Conns : \A n \in DOMAIN link'[j].req :
             \/ \E m \in DOMAIN link[j].req : link'[j].req[n] = link[j].req[m]
             \/ Sound(link[j].req[n])'
      <3> SUFFICES ASSUME NEW j \in Conns, NEW n \in DOMAIN link'[j].req
                   PROVE  \/ \E m \in DOMAIN link[j].req : link'[j].req[n] = link[j].req[m]
                          \/ Sound(link[j].req[n])'
        OBVIOUS
      <3>1. CASE j = conn
        BY <1>9, <2>1, <3>1 DEF Sound
      <3>2. CASE j # conn
        BY <1>7, <3>2
      <3> QED
        BY <3>1, <3>2
    <2>3. \A j \in Calls : ~ At(j, "new") => call'[j].pc # "new" /\ call'[j].op = call[j].op
      BY <1>1 DEF Moved, OnlyCall, At
    <2> QED
      BY <2>2, <2>3, TracedKept
  <1>15. FaultsCharged'
    BY <1>0, <1>3, <1>7 DEF Inductive, FaultsCharged, Doomed, fields
  <1>16. Progressed(i)'
    BY <1>t, <1>0, <1>1 DEF Progressed, Transferred, At, Busy, Moved
  <1>17. \A j \in Calls \ {i} : served'[j] = served[j] /\ faults'[j] >= faults[j]
    BY <1>t, <1>0 DEF Types
  <1> QED
    BY <1>1, <1>10, <1>11, <1>12, <1>13, <1>14, <1>15, <1>16, <1>17, Assembled DEF Moved

\* The answer to part p is kept; after the last one the transfer is done.
LEMMA TakeReplyStep ==
    ASSUME Inductive, NEW i \in Calls, TakeReply(i)
    PROVE  Inductive'
  <1>t. Types /\ LockHeld /\ Progressed(i) /\ OneSocket /\ InStep
    BY DEF Inductive
  <1>0. /\ At(i, "await") /\ link[conn].rep # <<>> /\ link' = Consumed(conn)
        /\ UNCHANGED <<store, conn, connected, maxRetries, served, faults>>
    BY DEF TakeReply
  <1>1. /\ mu = i /\ i # NoCall /\ IsData(call[i].op) /\ conn \in Conns /\ conn # NoConn
        /\ \A j \in Calls \ {i} : call[j].pc \notin Busy
        /\ attempt \in Nat /\ faults[i] >= attempt /\ (Doomed => faults[i] >= attempt + 1)
    BY <1>0, Holder, NoConnAssumption DEF At, Busy
  <1>2. /\ Head(link[conn].rep) = link[conn].rep[1] /\ 1 \in DOMAIN link[conn].rep
        /\ link[conn].rep[1] \in Reply
        /\ link[conn].rep \in Seq(Reply) /\ link[conn].req \in Seq(Request)
    BY <1>t, <1>0, <1>1, LinkFacts, HeadFacts
  <1>3. PICK r \in Reply : r = Head(link[conn].rep)
    BY <1>2
  <1>4. PICK p \in 1 .. Parts : p = call[i].part
    BY <1>t, CallFacts
  <1>5. PICK m \in 1 .. Parts : m = IF p = Parts THEN p ELSE p + 1
    BY PartAssumption
  <1>6. PICK q \in Waiting \cup Returned : q = IF p = Parts THEN "ok" ELSE "attempt"
    BY DEF Waiting, Returned
  <1>7. /\ r.kind = "normal"
        /\ call' = [call EXCEPT ![i].buf[p] = r.val, ![i].part = m, ![i].pc = q]
        /\ mu' = IF p = Parts THEN NoCall ELSE mu
        /\ attempt' = IF p = Parts THEN 0 ELSE attempt
    BY <1>3, <1>4, <1>5, <1>6 DEF TakeReply
  <1>8. PICK v \in Vals \cup {InitVal, NoVal} : v = r.val
    BY DEF Reply
  <1>9. /\ call' \in [Calls -> CallRecords] /\ OnlyCall(i)
        /\ call'[i].pc = q /\ call'[i].part = m
        /\ call'[i].op = call[i].op /\ call'[i].budget = call[i].budget
        /\ call'[i].buf = [call[i].buf EXCEPT ![p] = r.val]
    <2> DEFINE b == [call[i].buf EXCEPT ![p] = v]
               c == [call[i] EXCEPT !.buf = b, !.part = m, !.pc = q]
    <2>1. call' = [call EXCEPT ![i] = c]
      BY <1>7, <1>8
    <2>2. call[i] \in CallRecords /\ b \in Buffers
      BY <1>t, CallFacts DEF Buffers
    <2>3. /\ c \in CallRecords /\ c.budget = call[i].budget /\ c.pc = q
          /\ c.op = call[i].op /\ c.buf = b /\ c.part = m
      <3> HIDE DEF b
      <3> QED
        BY <2>2 DEF CallRecords
    <2>4. OnlyCall(i) /\ call' \in [Calls -> CallRecords] /\ call'[i] = c
      BY <1>t, <2>1, <2>3, UpdateFacts
    <2>5. b = [call[i].buf EXCEPT ![p] = r.val]
      BY <1>8
    <2> HIDE DEF c
    <2> QED
      BY <2>3, <2>4, <2>5
  <1>10. /\ r.val = served[i][p] /\ r.val # NoVal
         /\ call[i].op.kind = "write" => r.val = call[i].op.val
    BY <1>t, <1>1, <1>2, <1>3, <1>4, <1>7 DEF InStep, Answers
  <1>11. link[conn].req = <<>> /\ Tail(link[conn].rep) = <<>>
    BY <1>t, <1>0, <1>1, <1>2, LastMessage DEF InStep
  <1>12. /\ link' \in [Conns -> Links(Request, Reply)]
         /\ \A j \in Conns : link'[j].st = link[j].st /\ link'[j].req = link[j].req
         /\ link'[conn].rep = <<>>
    BY <1>t, <1>0, <1>1, <1>11, ConsumedFields, WireTypes DEF Types
  <1>13. Types'
    <2>1. mu' \in Calls \cup {NoCall} /\ attempt' \in Nat
      BY <1>1, <1>7
    <2> QED
      BY <1>t, <1>0, <1>9, <1>12, <2>1 DEF Types
  <1>14. LockHeld'
    <2>1. CASE p = Parts
      BY <1>t, <1>0, <1>1, <1>6, <1>7, <1>9, <2>1, CallAssumption
      DEF LockHeld, At, Busy, OnlyCall
    <2>2. CASE p # Parts
      BY <1>t, <1>0, <1>1, <1>6, <1>7, <1>9, <2>2 DEF LockHeld, At, Busy, OnlyCall
    <2> QED
      BY <2>1, <2>2
  <1>15. OneSocket'
    BY <1>t, <1>0, <1>1, <1>12 DEF OneSocket
  <1>16. InStep'
    BY <1>0, <1>11, <1>12, <1>1, EmptyInStep
  <1>17. Traced'
    <2>1. \A j \in Calls : ~ At(j, "new") => call'[j].pc # "new" /\ call'[j].op = call[j].op
      BY <1>6, <1>9 DEF OnlyCall, At
    <2> QED
      BY <1>12, <2>1, TracedKept
  <1>18. FaultsCharged'
    <2>1. DOMAIN link'[conn].rep = {}
      BY <1>12, Empty
    <2>2. Doomed' => Doomed
      BY <1>0, <1>1, <1>12, <2>1 DEF Doomed
    <2> QED
      BY <1>0, <1>1, <1>7, <2>2 DEF FaultsCharged
  <1>19. Progressed(i)'
    <2>1. ASSUME NEW x \in 1 .. Parts, x <= p
          PROVE  Transferred(i, x)'
      <3>1. CASE x = p
        <4>1. call'[i].buf[x] = r.val
          BY <1>t, <1>9, <3>1, CallFacts DEF Buffers
        <4>2. call[i].op.kind \in {"read", "write"}
          BY <1>1 DEF IsData
        <4> QED
          BY <1>0, <1>9, <1>10, <3>1, <4>1, <4>2 DEF Transferred
      <3>2. CASE x # p
        <4>1. x < p
          BY <2>1, <3>2
        <4>2. Transferred(i, x)
          BY <1>t, <1>0, <1>4, <4>1 DEF Progressed, At, Busy
        <4>3. call'[i].buf[x] = call[i].buf[x]
          BY <1>t, <1>9, <3>2, CallFacts DEF Buffers
        <4> QED
          BY <1>0, <1>9, <4>2, <4>3 DEF Transferred
      <3> QED
        BY <3>1, <3>2
    <2>2. CASE p = Parts
      <3>1. \A x \in 1 .. Parts : x <= p
        BY <2>2, PartAssumption
      <3> QED
        BY <1>6, <1>9, <2>1, <2>2, <3>1 DEF Progressed, At, Busy
    <2>3. CASE p # Parts
      <3>1. \A x \in 1 .. Parts : x < m => x <= p
        BY <1>5, <2>3
      <3> QED
        BY <1>6, <1>9, <2>1, <2>3, <3>1 DEF Progressed, At, Busy
    <2> QED
      BY <2>2, <2>3
  <1>20. \A j \in Calls \ {i} : served'[j] = served[j] /\ faults'[j] >= faults[j]
    BY <1>t, <1>0 DEF Types
  <1>21. call'[i].pc # "failed"
    BY <1>6, <1>9
  <1> QED
    BY <1>9, <1>13, <1>14, <1>15, <1>16, <1>17, <1>18, <1>19, <1>20, <1>21, Assembled

LEMMA PolicyStep ==
    ASSUME Inductive, NEW n \in Policies, SetRetryPolicy(n)
    PROVE  Inductive'
  <1>t. Types /\ OneSocket
    BY DEF Inductive
  <1>0. UNCHANGED <<link, store, mu, conn, connected, attempt, call, served, faults>>
    BY DEF SetRetryPolicy
  <1>1. maxRetries' \in Nat
    BY PolicyAssumption DEF SetRetryPolicy, Normalize
  <1>2. Types'
    BY <1>t, <1>0, <1>1 DEF Types
  <1>3. OneSocket' /\ InStep' /\ Traced' /\ FaultsCharged'
    BY <1>0 DEF Inductive, OneSocket, InStep, Asked, Answers, Traced, Sound,
                FaultsCharged, Doomed, At
  <1>4. \A j \in Calls : Progressed(j)' /\ faults'[j] >= faults[j]
    BY <1>t, <1>0 DEF Inductive, Types, Progressed, Transferred, At
  <1> QED
    BY <1>0, <1>2, <1>3, <1>4, Charged

\* What the device takes is the head of a queue of requests; on the connection
\* in use it is the one request there is.
LEMMA TakenFacts ==
    ASSUME Inductive, NEW k \in Conns, link[k].req # <<>>
    PROVE  /\ Head(link[k].req) \in Request /\ Sound(Head(link[k].req))
           /\ \A n \in DOMAIN Tail(link[k].req) :
                 \E m \in DOMAIN link[k].req : Tail(link[k].req)[n] = link[k].req[m]
           /\ k = conn => /\ Asked(Head(link[k].req))
                          /\ Tail(link[k].req) = <<>> /\ link[k].rep = <<>>
  <1>t. Types /\ InStep /\ Traced
    BY DEF Inductive
  <1>1. link[k].req \in Seq(Request) /\ link[k].rep \in Seq(Reply)
    BY <1>t, LinkFacts
  <1>2. /\ 1 \in DOMAIN link[k].req /\ Head(link[k].req) = link[k].req[1]
        /\ Head(link[k].req) \in Request
    BY <1>1, HeadFacts
  <1>3. \A n \in DOMAIN Tail(link[k].req) :
           \E m \in DOMAIN link[k].req : Tail(link[k].req)[n] = link[k].req[m]
    BY <1>1, TailElements
  <1>4. ASSUME k = conn
        PROVE  Asked(Head(link[k].req)) /\ Tail(link[k].req) = <<>> /\ link[k].rep = <<>>
    <2>1. Len(link[k].req) + Len(link[k].rep) <= 1 /\ Asked(Head(link[k].req))
      BY <1>t, <1>2, <1>4, NoConnAssumption DEF InStep
    <2> QED
      BY <1>1, <2>1, LastMessage
  <1> QED
    BY <1>t, <1>2, <1>3, <1>4 DEF Traced

LEMMA TakenTraced ==
    ASSUME Inductive, NEW k \in Conns, link[k].req # <<>>, call' = call,
           \A j \in Conns : link'[j].req = IF j = k THEN Tail(link[j].req) ELSE link[j].req
    PROVE  Traced'
  <1>1. ASSUME NEW j \in Conns, NEW n \in DOMAIN link'[j].req
        PROVE  \E m \in DOMAIN link[j].req : link'[j].req[n] = link[j].req[m]
    <2>1. CASE j = k
      <3>1. link'[j].req = Tail(link[k].req) /\ link[k] = link[j]
        BY <2>1
      <3>2. n \in DOMAIN Tail(link[k].req)
        BY <1>1, <3>1
      <3>3. PICK m \in DOMAIN link[k].req : Tail(link[k].req)[n] = link[k].req[m]
        BY <3>2, TakenFacts
      <3> QED
        BY <3>1, <3>3
    <2>2. CASE j # k
      BY <1>1, <2>2
    <2> QED
      BY <2>1, <2>2
  <1>2. \A j \in Calls : ~ At(j, "new") => call'[j].pc # "new" /\ call'[j].op = call[j].op
    BY DEF At
  <1> QED
    BY <1>1, <1>2, TracedKept

\* A step elsewhere leaves the connection in use in step.
LEMMA Apart ==
    ASSUME Inductive, UNCHANGED <<mu, conn, call, served>>,
           conn # NoConn => link'[conn].req = link[conn].req /\ link'[conn].rep = link[conn].rep
    PROVE  InStep'
  <1>1. ASSUME NEW q, Asked(q) PROVE Asked(q)'
    BY <1>1 DEF Asked, At
  <1>2. ASSUME NEW r, mu # NoCall, Answers(mu, r) PROVE Answers(mu, r)'
    BY <1>2 DEF Answers, At
  <1> QED
    BY <1>1, <1>2 DEF Inductive, InStep

LEMMA IgnoreStep ==
    ASSUME Inductive, NEW k \in Conns, Ignore(k)
    PROVE  Inductive'
  <1>t. Types /\ OneSocket /\ InStep
    BY DEF Inductive
  <1>0. /\ link[k].req # <<>> /\ link' = Ignored(k)
        /\ UNCHANGED <<store, mu, conn, connected, maxRetries, attempt, call, served, faults>>
    BY DEF Ignore, fields
  <1>1. link' \in [Conns -> Links(Request, Reply)]
    BY <1>t, <1>0, WireTypes DEF Types
  <1>2. \A j \in Conns :
           /\ link'[j].st = link[j].st /\ link'[j].rep = link[j].rep
           /\ link'[j].req = IF j = k THEN Tail(link[j].req) ELSE link[j].req
    BY <1>t, <1>0, IgnoredFields DEF Types
  <1>3. Types'
    BY <1>t, <1>0, <1>1 DEF Types
  <1>4. OneSocket'
    BY <1>t, <1>0, <1>2 DEF OneSocket, Types
  <1>5. InStep'
    <2>1. CASE k = conn
      <3>1. link'[conn].req = <<>> /\ link'[conn].rep = <<>>
        BY <1>0, <1>2, <2>1, TakenFacts
      <3> QED
        BY <1>0, <3>1, EmptyInStep
    <2>2. CASE k # conn
      <3>1. conn # NoConn => link'[conn].req = link[conn].req /\ link'[conn].rep = link[conn].rep
        BY <1>t, <1>2, <2>2 DEF Types
      <3> QED
        BY <1>0, <3>1, Apart
    <2> QED
      BY <2>1, <2>2
  <1>6. Traced'
    BY <1>0, <1>2, TakenTraced
  <1>7. FaultsCharged'
    <2>1. Doomed' => Doomed
      BY <1>t, <1>0, <1>2 DEF Doomed, Types
    <2> QED
      BY <1>0, <2>1 DEF Inductive, FaultsCharged
  <1>8. \A j \in Calls : Progressed(j)' /\ faults'[j] >= faults[j]
    BY <1>t, <1>0 DEF Inductive, Types, Progressed, Transferred, At
  <1> QED
    BY <1>0, <1>3, <1>4, <1>5, <1>6, <1>7, <1>8, Charged

LEMMA SeverStep ==
    ASSUME Inductive, NEW k \in Conns, Sever(k)
    PROVE  Inductive'
  <1>t. Types /\ OneSocket /\ InStep /\ LockHeld
    BY DEF Inductive
  <1>0. /\ link[k].st = "up" /\ link' = Severed(k)
        /\ faults' = IF mu # NoCall THEN MoreFaults(mu) ELSE faults
        /\ UNCHANGED <<store, mu, conn, connected, maxRetries, attempt, call, served>>
    BY DEF Sever, fields
  <1>1. link' \in [Conns -> Links(Request, Reply)]
    BY <1>t, <1>0, WireTypes DEF Types
  <1>2. \A j \in Conns :
           /\ link'[j].st = IF j = k THEN "cut" ELSE link[j].st
           /\ link'[j].req = IF j = k THEN <<>> ELSE link[j].req
           /\ link'[j].rep = link[j].rep
    BY <1>t, <1>0, SeveredFields DEF Types
  <1>3. k = conn
    BY <1>t, <1>0 DEF OneSocket
  <1>4. mu # NoCall => mu \in Calls /\ call[mu].pc \in Busy
    BY Owner
  <1>5. /\ faults' \in [Calls -> Nat] /\ \A j \in Calls : faults'[j] >= faults[j]
        /\ mu # NoCall => faults'[mu] >= attempt + 1
    <2>1. CASE mu = NoCall
      BY <1>t, <1>0, <2>1 DEF Types
    <2>2. CASE mu # NoCall
      <3>1. /\ mu \in Calls /\ attempt \in Nat /\ attempt <= faults[mu]
            /\ attempt <= call[mu].budget
        BY <1>t, <1>4, <2>2 DEF Inductive, LockHeld, FaultsCharged, Types
      <3> QED
        BY <1>t, <1>0, <2>2, <3>1, MoreFaultsFacts
    <2> QED
      BY <2>1, <2>2
  <1>6. Types'
    BY <1>t, <1>0, <1>1, <1>5 DEF Types
  <1>7. OneSocket'
    BY <1>t, <1>0, <1>2, <1>3 DEF OneSocket
  <1>8. InStep'
    <2>1. link'[conn].req = <<>> /\ link'[conn].rep = link[conn].rep
      BY <1>2, <1>3
    <2>2. Len(link'[conn].rep) <= 1 /\ link[conn].rep \in Seq(Reply)
      <3>1. link[conn].req \in Seq(Request) /\ link[conn].rep \in Seq(Reply)
        BY <1>t, <1>3, LinkFacts
      <3>2. Len(link[conn].req) + Len(link[conn].rep) <= 1
        BY <1>t, <1>3, NoConnAssumption DEF InStep
      <3>3. Len(link[conn].req) \in Nat /\ Len(link[conn].rep) \in Nat
        BY <3>1
      <3>4. \A a, b \in Nat : a + b <= 1 => b <= 1
        OBVIOUS
      <3>5. Len(link[conn].rep) <= 1
        BY <3>2, <3>3, <3>4, Zenon
      <3> QED
        BY <2>1, <3>1, <3>5
    <2>3. Len(<<>>) + Len(link'[conn].rep) <= 1 /\ DOMAIN link'[conn].req = {}
      BY <2>1, <2>2, Empty
    <2>4. \A n \in DOMAIN link'[conn].rep : mu # NoCall /\ Answers(mu, link[conn].rep[n])
      BY <1>t, <1>3, <2>1, NoConnAssumption DEF InStep
    <2> QED
      BY <1>0, <2>1, <2>3, <2>4 DEF InStep, Answers, At
  <1>9. Traced'
    <2>1. \A j \in Conns : \A n \in DOMAIN link'[j].req :
             \E m \in DOMAIN link[j].req : link'[j].req[n] = link[j].req[m]
      BY <1>2, Empty
    <2>2. \A j \in Calls : ~ At(j, "new") => call'[j].pc # "new" /\ call'[j].op = call[j].op
      BY <1>0 DEF At
    <2> QED
      BY <2>1, <2>2, TracedKept
  <1>10. FaultsCharged'
    <2>1. mu # NoCall => attempt \in Nat /\ faults'[mu] \in Nat
      BY <1>t, <1>4, <1>5 DEF Types
    <2> QED
      BY <1>0, <1>5, <2>1 DEF FaultsCharged
  <1>11. \A j \in Calls : Progressed(j)'
    BY <1>0 DEF Inductive, Progressed, Transferred, At
  <1> QED
    BY <1>0, <1>5, <1>6, <1>7, <1>8, <1>9, <1>10, <1>11, Charged

LEMMA RefuseStep ==
    ASSUME Inductive, NEW k \in Conns, Refuse(k)
    PROVE  Inductive'
  <1>t. Types /\ OneSocket /\ InStep /\ LockHeld
    BY DEF Inductive
  <1>1. PICK q \in Request : q = Head(link[k].req)
    BY TakenFacts DEF Refuse
  <1>2. PICK r \in Reply : r = [kind |-> "error", val |-> NoVal]
    BY DEF Reply
  <1>0. /\ link[k].req # <<>> /\ link' = Answered(k, r) /\ r.kind = "error"
        /\ faults' = IF k = conn THEN MoreFaults(q.call) ELSE faults
        /\ UNCHANGED <<store, mu, conn, connected, maxRetries, attempt, call, served>>
    BY <1>1, <1>2 DEF Refuse, fields
  <1>3. link' \in [Conns -> Links(Request, Reply)]
    BY <1>t, <1>0, WireTypes DEF Types
  <1>4. \A j \in Conns :
           /\ link'[j].st = link[j].st
           /\ link'[j].req = IF j = k THEN Tail(link[j].req) ELSE link[j].req
           /\ link'[j].rep = IF j = k /\ link[j].st = "up" THEN Append(link[j].rep, r)
                                                          ELSE link[j].rep
    BY <1>t, <1>0, AnsweredFields DEF Types
  <1>5. k = conn => Asked(q) /\ Tail(link[k].req) = <<>> /\ link[k].rep = <<>>
    BY <1>0, <1>1, TakenFacts
  <1>6. q.call \in Calls
    BY DEF Request
  <1>7. /\ faults' \in [Calls -> Nat] /\ \A j \in Calls : faults'[j] >= faults[j]
        /\ k = conn => q.call = mu /\ faults'[mu] >= attempt + 1
    <2>1. CASE k # conn
      BY <1>t, <1>0, <2>1 DEF Types
    <2>2. CASE k = conn
      <3>1. q.call = mu /\ At(mu, "await") /\ mu # NoCall
        BY <1>5, <1>6, <2>2, CallAssumption DEF Asked
      <3>2. /\ mu \in Calls /\ attempt \in Nat /\ attempt <= faults[mu]
            /\ attempt <= call[mu].budget
        BY <1>t, <1>6, <3>1 DEF Inductive, LockHeld, FaultsCharged, Types, At, Busy
      <3> QED
        BY <1>t, <1>0, <2>2, <3>1, <3>2, MoreFaultsFacts
    <2> QED
      BY <2>1, <2>2
  <1>8. Types'
    BY <1>t, <1>0, <1>3, <1>7 DEF Types
  <1>9. OneSocket'
    BY <1>t, <1>0, <1>4 DEF OneSocket, Types
  <1>10. InStep'
    <2>1. CASE k = conn
      <3>1. link'[conn].req = <<>> /\ (link'[conn].rep = <<>> \/ link'[conn].rep = <<r>>)
        BY <1>4, <1>5, <2>1, OneAppended
      <3>2. CASE link'[conn].rep = <<>>
        BY <1>0, <3>1, <3>2, EmptyInStep
      <3>3. CASE link'[conn].rep = <<r>>
        <4>1. /\ Len(<<>>) + Len(<<r>>) <= 1 /\ DOMAIN link'[conn].req = {}
              /\ \A n \in DOMAIN link'[conn].rep : link'[conn].rep[n] = r
              /\ Len(link'[conn].req) = 0 /\ Len(link'[conn].rep) = 1
          BY <3>1, <3>3, Empty, OneAppended
        <4>2. mu # NoCall /\ Answers(mu, r)
          BY <1>0, <1>5, <1>6, <2>1, CallAssumption DEF Asked, Answers
        <4>3. (mu # NoCall /\ Answers(mu, r))'
          <5>1. r' = r
            BY <1>2
          <5> QED
            BY <1>0, <4>2 DEF Answers, At
        <4> QED
          BY <1>0, <4>1, <4>3 DEF InStep, Answers, At
      <3> QED
        BY <3>1, <3>2, <3>3
    <2>2. CASE k # conn
      <3>1. conn # NoConn => link'[conn].req = link[conn].req /\ link'[conn].rep = link[conn].rep
        BY <1>t, <1>4, <2>2 DEF Types
      <3> QED
        BY <1>0, <3>1, Apart
    <2> QED
      BY <2>1, <2>2
  <1>11. Traced'
    BY <1>0, <1>4, TakenTraced
  <1>12. FaultsCharged'
    <2>1. CASE k = conn
      <3>1. attempt \in Nat /\ faults'[mu] \in Nat
        BY <1>t, <1>6, <1>7, <2>1 DEF Types
      <3> QED
        BY <1>0, <1>7, <2>1, <3>1 DEF FaultsCharged
    <2>2. CASE k # conn
      <3>1. Doomed' => Doomed
        BY <1>t, <1>0, <1>4, <2>2 DEF Doomed, Types
      <3> QED
        BY <1>0, <2>2, <3>1 DEF Inductive, FaultsCharged
    <2> QED
      BY <2>1, <2>2
  <1>13. \A j \in Calls : Progressed(j)'
    BY <1>0 DEF Inductive, Progressed, Transferred, At
  <1> QED
    BY <1>0, <1>7, <1>8, <1>9, <1>10, <1>11, <1>12, <1>13, Charged

LEMMA ExecuteStep ==
    ASSUME Inductive, NEW k \in Conns, Execute(k)
    PROVE  Inductive'
  <1>t. Types /\ OneSocket /\ InStep /\ LockHeld
    BY DEF Inductive
  <1>1. PICK q \in Request : q = Head(link[k].req)
    BY TakenFacts DEF Execute
  <1>2. /\ link[k].req # <<>> /\ Sound(q) /\ q.call \in Calls /\ q.part \in 1 .. Parts
        /\ k = conn => Asked(q) /\ Tail(link[k].req) = <<>> /\ link[k].rep = <<>>
    BY <1>1, TakenFacts DEF Execute, Request
  <1>3. PICK o \in Ops \cup {NoOp} : o = call[q.call].op
    BY <1>t, <1>2, CallFacts
  <1>4. /\ o.area \in Areas /\ o.kind \in {"read", "write"}
        /\ o.kind = "write" => o.val \in Vals
    BY <1>2, <1>3, OpFacts DEF Sound
  <1>5. PICK v \in Vals \cup {InitVal} :
           v = IF o.kind = "read" THEN store[o.area][q.part] ELSE o.val
    BY <1>t, <1>2, <1>4 DEF Types
  <1>6. PICK r \in Reply : r = [kind |-> "normal", val |-> v]
    BY DEF Reply
  <1>0. /\ link' = Answered(k, r) /\ r.kind = "normal" /\ r.val = v
        /\ store' = [store EXCEPT ![o.area][q.part] = v]
        /\ served' = IF k = conn THEN [served EXCEPT ![q.call][q.part] = v] ELSE served
        /\ UNCHANGED <<mu, conn, connected, maxRetries, attempt, call, faults>>
    BY <1>1, <1>3, <1>5, <1>6 DEF Execute, fields
  <1>7. link' \in [Conns -> Links(Request, Reply)]
    BY <1>t, <1>0, <1>2, WireTypes DEF Types
  <1>8. \A j \in Conns :
           /\ link'[j].st = link[j].st
           /\ link'[j].req = IF j = k THEN Tail(link[j].req) ELSE link[j].req
           /\ link'[j].rep = IF j = k /\ link[j].st = "up" THEN Append(link[j].rep, r)
                                                          ELSE link[j].rep
    BY <1>t, <1>0, AnsweredFields DEF Types
  <1>9. store' \in [Areas -> [1 .. Parts -> Vals \cup {InitVal}]]
    BY <1>t, <1>0, <1>2, <1>4 DEF Types
  <1>10. /\ served' \in [Calls -> Buffers]
         /\ \A j \in Calls : j # q.call => served'[j] = served[j]
         /\ k = conn => /\ served'[q.call][q.part] = v
                        /\ \A p \in 1 .. Parts :
                              p # q.part => served'[q.call][p] = served[q.call][p]
    <2>1. CASE k = conn
      BY <1>t, <1>0, <1>2, <2>1 DEF Types, Buffers
    <2>2. CASE k # conn
      BY <1>t, <1>0, <2>2 DEF Types
    <2> QED
      BY <2>1, <2>2
  <1>11. Types'
    BY <1>t, <1>0, <1>7, <1>9, <1>10 DEF Types
  <1>12. OneSocket'
    BY <1>t, <1>0, <1>8 DEF OneSocket, Types
  <1>13. InStep'
    <2>1. CASE k = conn
      <3>1. link'[conn].req = <<>> /\ (link'[conn].rep = <<>> \/ link'[conn].rep = <<r>>)
        BY <1>2, <1>8, <2>1, OneAppended
      <3>2. CASE link'[conn].rep = <<>>
        BY <1>0, <3>1, <3>2, EmptyInStep
      <3>3. CASE link'[conn].rep = <<r>>
        <4>1. /\ Len(<<>>) + Len(<<r>>) <= 1 /\ DOMAIN link'[conn].req = {}
              /\ \A n \in DOMAIN link'[conn].rep : link'[conn].rep[n] = r
              /\ Len(link'[conn].req) = 0 /\ Len(link'[conn].rep) = 1
          BY <3>1, <3>3, Empty, OneAppended
        <4>2. /\ q.call = mu /\ mu # NoCall /\ call[mu].pc = "await" /\ q.part = call[mu].part
              /\ o = call[mu].op
          BY <1>2, <1>3, <2>1, CallAssumption DEF Asked, At
        <4>3. /\ r.val = served'[mu][call[mu].part] /\ r.val # NoVal
              /\ call[mu].op.kind = "write" => r.val = call[mu].op.val
          BY <1>0, <1>5, <1>10, <2>1, <4>2, ValueAssumption
        <4> QED
          BY <1>0, <4>1, <4>2, <4>3 DEF InStep, Answers, At
      <3> QED
        BY <3>1, <3>2, <3>3
    <2>2. CASE k # conn
      <3>1. conn # NoConn => link'[conn].req = link[conn].req /\ link'[conn].rep = link[conn].rep
        BY <1>t, <1>8, <2>2 DEF Types
      <3> QED
        BY <1>0, <2>2, <3>1, Apart
    <2> QED
      BY <2>1, <2>2
  <1>14. Traced'
    BY <1>0, <1>2, <1>8, TakenTraced
  <1>15. FaultsCharged'
    <2>1. Doomed' => Doomed
      <3>1. CASE k = conn
        <4>1. link'[conn].rep = <<>> \/ link'[conn].rep = <<r>>
          BY <1>2, <1>8, <3>1, OneAppended
        <4>2. \A n \in DOMAIN link'[conn].rep : link'[conn].rep[n].kind = "normal"
          BY <1>0, <4>1, Empty, OneAppended
        <4> QED
          BY <1>0, <1>8, <3>1, <4>2 DEF Doomed
      <3>2. CASE k # conn
        BY <1>t, <1>0, <1>8, <3>2 DEF Doomed, Types
      <3> QED
        BY <3>1, <3>2
    <2> QED
      BY <1>0, <2>1 DEF Inductive, FaultsCharged
  <1>16. ASSUME NEW j \in Calls
         PROVE  Progressed(j)'
    <2>1. Progressed(j)
      BY DEF Inductive
    <2>2. CASE served'[j] = served[j]
      BY <1>0, <2>1, <2>2 DEF Progressed, Transferred, At
    <2>3. CASE served'[j] # served[j]
      <3>1. k = conn /\ j = q.call /\ q.part = call[j].part /\ At(j, "await")
        BY <1>0, <1>2, <1>10, <2>3 DEF Asked
      <3>2. \A p \in 1 .. Parts : p < call[j].part => served'[j][p] = served[j][p]
        BY <1>2, <1>10, <3>1
      <3> QED
        BY <1>0, <2>1, <3>1, <3>2 DEF Progressed, Transferred, At, Busy
    <2> QED
      BY <2>2, <2>3
  <1>17. \A j \in Calls : faults'[j] >= faults[j]
    BY <1>t, <1>0 DEF Types
  <1> QED
    BY <1>0, <1>11, <1>12, <1>13, <1>14, <1>15, <1>16, <1>17, Charged

-----------------------------------------------------------------------------
LEMMA InductiveInit == Init => Inductive
  <1> SUFFICES ASSUME Init
               PROVE  Inductive
    OBVIOUS
  <1>1. \A k \in Conns : link[k].st = "down" /\ link[k].req = <<>> /\ link[k].rep = <<>>
    BY DEF Init, Down
  <1>2. link \in [Conns -> Links(Request, Reply)]
    BY DEF Init, Down, Links
  <1>3. Nothing \in Buffers /\ 1 \in 1 .. Parts /\ NoOp \in Ops \cup {NoOp}
    BY PartAssumption DEF Nothing, Buffers
  <1>4. \A i \in Calls : /\ call[i].pc = "new" /\ call[i].part = 1 /\ call[i].op = NoOp
                         /\ call[i] \in CallRecords
    BY <1>3 DEF Init, CallRecords
  <1>5. call \in [Calls -> CallRecords]
    BY <1>4 DEF Init
  <1>6. Types
    BY <1>2, <1>3, <1>5, PolicyAssumption DEF Init, Types
  <1>7. LockHeld
    BY <1>4, CallAssumption DEF Init, LockHeld, At, Busy
  <1>8. OneSocket /\ InStep /\ FaultsCharged
    BY <1>1 DEF Init, OneSocket, InStep, FaultsCharged
  <1>9. Traced
    BY <1>1, Empty DEF Traced
  <1>10. RetryMasksFaults /\ \A i \in Calls : Progressed(i)
    BY <1>4 DEF RetryMasksFaults, Progressed, At, Busy
  <1> QED
    BY <1>6, <1>7, <1>8, <1>9, <1>10 DEF Inductive

LEMMA InductiveNext == Inductive /\ [Next]_vars => Inductive'
  <1> SUFFICES ASSUME Inductive, [Next]_vars
               PROVE  Inductive'
    OBVIOUS
  <1>1. ASSUME NEW i \in Calls, (\E o \in Ops : Invoke(i, o)) \/ Enter(i) \/ Progress(i)
        PROVE  Inductive'
    <2>1. \/ (\E o \in Ops : Invoke(i, o)) \/ ReturnLocally(i)
          \/ Acquire(i) \/ CloseOrFail(i) \/ Transmit(i) \/ TakeReply(i)
          \/ RefuseReply(i) \/ Fail(i)
          \/ \E k \in Conns : Connect(i, k) \/ Open(i, k)
      BY <1>1 DEF Enter, Progress
    <2> QED
      BY <2>1, LocalStep, AcquireStep, CloseStep, TransmitStep, TakeReplyStep,
         FailureStep, DialStep
  <1>2. ASSUME NEW n \in Policies, SetRetryPolicy(n)
        PROVE  Inductive'
    BY <1>2, PolicyStep
  <1>3. ASSUME NEW k \in Conns, Device(k)
        PROVE  Inductive'
    BY <1>3, ExecuteStep, RefuseStep, IgnoreStep, SeverStep DEF Device
  <1>4. CASE UNCHANGED vars
    <2>1. UNCHANGED <<link, store, mu, conn, connected, maxRetries, attempt, call,
                      served, faults>>
      BY <1>4 DEF vars, fields
    <2> QED
      BY <2>1 DEF Inductive, Types, LockHeld, OneSocket, InStep, Asked, Answers, Traced,
                  Sound, Progressed, Transferred, FaultsCharged, Doomed,
                  RetryMasksFaults, At
  <1> QED
    BY <1>1, <1>2, <1>3, <1>4 DEF Next

LEMMA InductiveInvariant == Spec => []Inductive
  BY InductiveInit, InductiveNext, PTL DEF Spec

\* Retry and reconnect hide faults: a transfer fails only after more of them
\* than the retries it was allowed.
THEOREM FaultsMasked == Spec => []RetryMasksFaults
  <1>1. Inductive => RetryMasksFaults
    BY DEF Inductive
  <1> QED
    BY <1>1, InductiveInvariant, PTL

LEMMA SameBuffers ==
    ASSUME NEW a \in Buffers, NEW b \in Buffers, \A p \in 1 .. Parts : a[p] = b[p]
    PROVE  a = b
  <1>1. a = [p \in 1 .. Parts |-> a[p]] /\ b = [p \in 1 .. Parts |-> b[p]]
    BY DEF Buffers
  <1>2. [p \in 1 .. Parts |-> a[p]] = [p \in 1 .. Parts |-> b[p]]
    OBVIOUS
  <1> QED
    BY <1>1, <1>2

\* A transfer that succeeds was served whole by its last attempt.
THEOREM WholeTransfers == Spec => []TransferOfOneAttempt
  <1>1. Inductive => TransferOfOneAttempt
    <2> SUFFICES ASSUME Inductive, NEW i \in Calls, At(i, "ok")
                 PROVE  CASE call[i].op.kind = "read"  ->
                                   /\ NoVal \notin {served[i][p] : p \in 1 .. Parts}
                                   /\ call[i].buf = served[i]
                          [] call[i].op.kind = "write" ->
                                   \A p \in 1 .. Parts : served[i][p] = call[i].op.val
                          [] OTHER -> TRUE
      BY DEF TransferOfOneAttempt
    <2>1. IsData(call[i].op) => \A p \in 1 .. Parts : Transferred(i, p)
      BY DEF Inductive, Progressed
    <2>2. CASE call[i].op.kind = "read"
      <3>1. \A p \in 1 .. Parts : served[i][p] # NoVal /\ call[i].buf[p] = served[i][p]
        BY <2>1, <2>2 DEF Transferred, IsData
      <3>2. call[i].buf = served[i]
        <4>1. call[i].buf \in Buffers /\ served[i] \in Buffers
          BY CallFacts DEF Inductive
        <4> QED
          BY <3>1, <4>1, SameBuffers
      <3> QED
        BY <2>2, <3>1, <3>2
    <2>3. CASE call[i].op.kind = "write"
      BY <2>1, <2>3 DEF Transferred, IsData
    <2>4. CASE call[i].op.kind \notin {"read", "write"}
      BY <2>4
    <2> QED
      BY <2>2, <2>3, <2>4
  <1> QED
    BY <1>1, InductiveInvariant, PTL

-----------------------------------------------------------------------------
\* Client and device together are the service: step by step.

\* The attempt going on was not served what it has not asked for yet, and a
\* call that has not begun was served nothing.
Unserved(i) ==
    /\ call[i].pc \in {"new", "blocked"} => served[i] = Nothing
    /\ call[i].pc \in Busy => \A p \in 1 .. Parts : p > call[i].part => served[i][p] = NoVal
    /\ At(i, "attempt") => served[i][call[i].part] = NoVal

\* Neither was it served what it is asking for.
Unanswered == Asking => served[mu][call[mu].part] = NoVal

OneRequest == \A k \in Conns : Len(link[k].req) <= 1

Countable == \A i \in Calls, p \in 1 .. Parts : IsFiniteSet(GivenUp(i, p))

Served ==
    /\ Inductive /\ OneRequest /\ Countable
    /\ \A i \in Calls : Unserved(i)
    /\ Unanswered

\* What a step does to the queues of requests.
Queues ==
    \A k \in Conns :
        \/ link'[k].req = link[k].req
        \/ link'[k].req = <<>>
        \/ k = conn /\ \E q \in Request : link'[k].req = <<q>>

\* What a step of the service is proved with.
Kept == (\A i \in Calls : Unserved(i)') /\ Unanswered' /\ Queues

-----------------------------------------------------------------------------
LEMMA RequestFacts ==
    ASSUME Inductive, OneRequest, NEW k \in Conns, link[k].req # <<>>
    PROVE  \E q \in Request : /\ q = Head(link[k].req) /\ link[k].req = <<q>>
                              /\ Tail(link[k].req) = <<>> /\ Sound(q)
                              /\ q.call \in Calls /\ q.part \in 1 .. Parts
                              /\ q = [call |-> q.call, part |-> q.part]
                              /\ k = conn => Asked(q)
  <1>1. PICK q \in Request : q = Head(link[k].req)
    BY TakenFacts
  <1>2. link[k].req \in Seq(Request) /\ Len(link[k].req) <= 1
    BY LinkFacts DEF Inductive, OneRequest
  <1>3. Tail(link[k].req) = <<>> /\ DOMAIN link[k].req = {1} /\ link[k].req[1] = q
    BY <1>1, <1>2, Single
  <1>4. link[k].req = <<q>>
    <2>1. PICK s \in Seq(Request) : s = link[k].req
      BY <1>2
    <2>2. Len(s) \in Nat /\ Len(s) # 0 /\ Len(s) <= 1
      BY <1>2, <2>1, QueueFacts
    <2>3. Len(s) = 1
      <3>1. \A n \in Nat : n # 0 /\ n <= 1 => n = 1
        OBVIOUS
      <3> QED
        BY <2>2, <3>1, Zenon
    <2>4. s[1] = q
      BY <1>3, <2>1
    <2> QED
      BY <2>1, <2>3, <2>4
  <1>5. q.call \in Calls /\ q.part \in 1 .. Parts /\ q = [call |-> q.call, part |-> q.part]
    BY DEF Request
  <1>6. Sound(q) /\ (k = conn => Asked(q))
    BY <1>1, TakenFacts
  <1> QED
    BY <1>1, <1>3, <1>4, <1>5, <1>6

\* Whose request is awaited.
LEMMA AskingFacts ==
    ASSUME Inductive, OneRequest, Asking
    PROVE  /\ conn \in Conns /\ mu \in Calls /\ mu # NoCall /\ At(mu, "await")
           /\ IsData(call[mu].op) /\ call[mu].part \in 1 .. Parts
           /\ link[conn].req = <<[call |-> mu, part |-> call[mu].part]>>
  <1>1. conn \in Conns /\ link[conn].req # <<>>
    BY DEF Asking, Inductive, Types
  <1>2. PICK q \in Request : /\ link[conn].req = <<q>> /\ q.call \in Calls /\ Asked(q)
                             /\ q = [call |-> q.call, part |-> q.part]
    BY <1>1, RequestFacts
  <1>3. mu = q.call /\ mu \in Calls /\ At(mu, "await") /\ q.part = call[mu].part
    BY <1>2 DEF Asked
  <1>4. IsData(call[mu].op) /\ mu # NoCall
    BY <1>3, Holder DEF Busy, At
  <1>5. call[mu].part \in 1 .. Parts
    BY <1>3, CallFacts DEF Inductive
  <1> QED
    BY <1>1, <1>2, <1>3, <1>4, <1>5

\* The parts before the one that is due were served.
LEMMA NextFacts ==
    ASSUME Served, NEW i \in Calls, call[i].pc \in Busy, served[i][call[i].part] = NoVal
    PROVE  /\ Service!NextPart(i, call[i].part)
           /\ \A p : Service!NextPart(i, p) => p = call[i].part
  <1>t. Types /\ Inductive /\ Progressed(i) /\ Unserved(i)
    BY DEF Served, Inductive
  <1>1. PICK n \in 1 .. Parts : n = call[i].part
    BY <1>t, CallFacts
  <1>2. IsData(call[i].op)
    BY <1>t, Holder
  <1>3. ASSUME NEW p \in 1 .. Parts, p < n
        PROVE  served[i][p] # NoVal
    <2>1. Transferred(i, p)
      BY <1>t, <1>1, <1>3 DEF Progressed
    <2>2. call[i].op.kind = "write" => call[i].op.val \in Vals
      BY <1>t, <1>2, CallFacts, OpFacts
    <2> QED
      BY <1>2, <2>1, <2>2, ValueAssumption DEF Transferred, IsData
  <1>4. Parts \in Nat
    BY PartAssumption
  <1>5. \A b \in 1 .. n - 1 : b \in 1 .. Parts /\ b < n
    BY <1>4
  <1>6. \A p \in 1 .. Parts : p > n => served[i][p] = NoVal
    BY <1>t, <1>1 DEF Unserved
  <1>7. Service!NextPart(i, n)
    BY <1>1, <1>3, <1>5 DEF Service!NextPart
  <1>8. ASSUME NEW p, Service!NextPart(i, p) PROVE p = n
    <2>1. /\ p \in 1 .. Parts /\ served[i][p] = NoVal
          /\ \A b \in 1 .. p - 1 : served[i][b] # NoVal
      BY <1>8 DEF Service!NextPart
    <2>2. ~ (p < n)
      BY <1>3, <2>1
    <2>3. CASE p > n
      <3>1. n \in 1 .. p - 1
        BY <2>1, <2>3, <1>4
      <3> QED
        BY <1>1, <2>1, <3>1
    <2> QED
      BY <2>1, <2>2, <2>3, <1>4
  <1> QED
    BY <1>1, <1>7, <1>8

-----------------------------------------------------------------------------
\* The requests that were given up, and how many.
SameGivenUp == \A i \in Calls, p \in 1 .. Parts : GivenUp(i, p)' = GivenUp(i, p)

LEMMA SameElsewhere ==
    ASSUME \A k \in Conns :
               \/ k # conn /\ k # conn' /\ link'[k].req = link[k].req
               \/ (k = conn \/ link[k].req = <<>>) /\ (k = conn' \/ link'[k].req = <<>>)
    PROVE  SameGivenUp
  <1> SUFFICES ASSUME NEW i \in Calls, NEW p \in 1 .. Parts
               PROVE  GivenUp(i, p)' = GivenUp(i, p)
    BY DEF SameGivenUp
  <1>1. ASSUME NEW k \in Conns PROVE k \in GivenUp(i, p)' <=> k \in GivenUp(i, p)
    <2>1. CASE k # conn /\ k # conn' /\ link'[k].req = link[k].req
      BY <2>1 DEF GivenUp
    <2>2. CASE (k = conn \/ link[k].req = <<>>) /\ (k = conn' \/ link'[k].req = <<>>)
      BY <2>2, Empty DEF GivenUp
    <2> QED
      BY <2>1, <2>2
  <1>2. GivenUp(i, p) \subseteq Conns /\ GivenUp(i, p)' \subseteq Conns
    BY DEF GivenUp
  <1> QED
    BY <1>1, <1>2

\* The counts follow the connections.
LEMMA Strays ==
    ASSUME Countable, NEW c \in Calls, NEW x \in 1 .. Parts, NEW k,
           \A i \in Calls, p \in 1 .. Parts :
               i # c \/ p # x => GivenUp(i, p)' = GivenUp(i, p)
    PROVE  LET stray == [i \in Calls |-> [p \in 1 .. Parts |-> Cardinality(GivenUp(i, p))]] IN
           /\ k \in GivenUp(c, x) /\ GivenUp(c, x)' = GivenUp(c, x) \ {k} =>
                 stray[c][x] > 0 /\ stray' = [stray EXCEPT ![c][x] = @ - 1]
           /\ k \notin GivenUp(c, x) /\ GivenUp(c, x)' = GivenUp(c, x) \cup {k} =>
                 stray' = [stray EXCEPT ![c][x] = @ + 1]
  <1> DEFINE stray == [i \in Calls |-> [p \in 1 .. Parts |-> Cardinality(GivenUp(i, p))]]
  <1>1. IsFiniteSet(GivenUp(c, x)) /\ Cardinality(GivenUp(c, x)) \in Nat
    BY FS_CardinalityType DEF Countable
  <1>2. stray[c][x] = Cardinality(GivenUp(c, x))
    OBVIOUS
  <1>3. ASSUME NEW n, Cardinality(GivenUp(c, x))' = n
        PROVE  stray' = [stray EXCEPT ![c][x] = n]
    <2>1. \A i \in Calls, p \in 1 .. Parts :
             Cardinality(GivenUp(i, p))' = IF i = c /\ p = x THEN n ELSE Cardinality(GivenUp(i, p))
      BY <1>3
    <2>2. \A i \in Calls :
             [p \in 1 .. Parts |-> Cardinality(GivenUp(i, p))]'
               = IF i = c THEN [stray[c] EXCEPT ![x] = n] ELSE stray[i]
      BY <2>1
    <2> QED
      BY <2>2
  <1>4. ASSUME k \in GivenUp(c, x), GivenUp(c, x)' = GivenUp(c, x) \ {k}
        PROVE  stray[c][x] > 0 /\ stray' = [stray EXCEPT ![c][x] = @ - 1]
    <2>1. Cardinality(GivenUp(c, x)) # 0
      BY <1>1, <1>4, FS_EmptySet
    <2>2. Cardinality(GivenUp(c, x) \ {k}) = Cardinality(GivenUp(c, x)) - 1
      BY <1>1, <1>4, FS_RemoveElement
    <2>3. Cardinality(GivenUp(c, x))' = stray[c][x] - 1
      BY <1>2, <1>4, <2>2
    <2>4. stray[c][x] > 0
      BY <1>1, <1>2, <2>1
    <2>5. stray' = [stray EXCEPT ![c][x] = stray[c][x] - 1]
      BY <1>3, <2>3
    <2> HIDE DEF stray
    <2> QED
      BY <2>4, <2>5
  <1>5. ASSUME k \notin GivenUp(c, x), GivenUp(c, x)' = GivenUp(c, x) \cup {k}
        PROVE  stray' = [stray EXCEPT ![c][x] = @ + 1]
    <2>1. Cardinality(GivenUp(c, x) \cup {k}) = Cardinality(GivenUp(c, x)) + 1
      BY <1>1, <1>5, FS_AddElement
    <2>2. Cardinality(GivenUp(c, x))' = stray[c][x] + 1
      BY <1>2, <1>5, <2>1
    <2>3. stray' = [stray EXCEPT ![c][x] = stray[c][x] + 1]
      BY <1>3, <2>2
    <2> HIDE DEF stray
    <2> QED
      BY <2>3
  <1> QED
    BY <1>4, <1>5

-----------------------------------------------------------------------------
\* What the service sees of the calls, when a step moves call i alone.
LEMMA View ==
    ASSUME NEW i \in Calls, OnlyCall(i), call'[i].op = call[i].op
    PROVE  /\ [j \in Calls |-> call[j].op]' = [j \in Calls |-> call[j].op]
           /\ [j \in Calls |-> Status(j)]'
                = [[j \in Calls |-> Status(j)] EXCEPT ![i] = Status(i)']
           /\ Status(i)' = Status(i) =>
                [j \in Calls |-> Status(j)]' = [j \in Calls |-> Status(j)]
           /\ [j \in Calls |-> Result(j)]'
                = [[j \in Calls |-> Result(j)] EXCEPT ![i] = Result(i)']
           /\ Result(i)' = Result(i) =>
                [j \in Calls |-> Result(j)]' = [j \in Calls |-> Result(j)]
  <1>1. \A j \in Calls : j # i => call'[j] = call[j]
    BY DEF OnlyCall
  <1>2. \A j \in Calls : j # i => Status(j)' = Status(j)
    BY <1>1 DEF Status, At
  <1>3. \A j \in Calls : j # i => Result(j)' = Result(j)
    BY <1>1 DEF Result, At
  <1>4. \A j \in Calls : call'[j].op = call[j].op
    BY <1>1
  <1> QED
    BY <1>2, <1>3, <1>4

LEMMA SameView ==
    ASSUME \A i \in Calls : /\ call'[i].op = call[i].op
                            /\ Status(i)' = Status(i) /\ Result(i)' = Result(i)
    PROVE  /\ [j \in Calls |-> call[j].op]' = [j \in Calls |-> call[j].op]
           /\ [j \in Calls |-> Status(j)]' = [j \in Calls |-> Status(j)]
           /\ [j \in Calls |-> Result(j)]' = [j \in Calls |-> Result(j)]
  OBVIOUS

LEMMA SameStrays ==
    ASSUME SameGivenUp
    PROVE  [i \in Calls |-> [p \in 1 .. Parts |-> Cardinality(GivenUp(i, p))]]'
             = [i \in Calls |-> [p \in 1 .. Parts |-> Cardinality(GivenUp(i, p))]]
  BY DEF SameGivenUp

LEMMA Stutter ==
    ASSUME UNCHANGED <<store, mu, served>>, Asking' = Asking, SameGivenUp,
           \A i \in Calls : /\ call'[i].op = call[i].op
                            /\ Status(i)' = Status(i) /\ Result(i)' = Result(i)
    PROVE  UNCHANGED Service!vars
  BY SameView, SameStrays DEF Service!vars

-----------------------------------------------------------------------------
\* A call whose record and answers the step leaves alone.
LEMMA OthersUnserved ==
    ASSUME Served, NEW i \in Calls, OnlyCall(i),
           \A j \in Calls \ {i} : served'[j] = served[j], Unserved(i)'
    PROVE  \A j \in Calls : Unserved(j)'
  <1> SUFFICES ASSUME NEW j \in Calls, j # i
               PROVE  Unserved(j)'
    OBVIOUS
  <1>1. Unserved(j) /\ call'[j] = call[j] /\ served'[j] = served[j]
    BY DEF Served, OnlyCall
  <1> QED
    BY <1>1 DEF Unserved, At

\* A step that the client takes without a word to the device keeps its requests.
LEMMA QuietKept ==
    ASSUME Served, UNCHANGED <<call, served, mu>>, Asking' => Asking, Queues
    PROVE  Kept
  <1>1. \A i \in Calls : Unserved(i)'
    BY DEF Served, Unserved, At
  <1>2. Unanswered'
    BY DEF Served, Unanswered
  <1> QED
    BY <1>1, <1>2 DEF Kept

LEMMA SilentKept ==
    ASSUME Served, NEW i \in Calls, OnlyCall(i), Unserved(i)', ~ Asking',
           \A j \in Calls \ {i} : served'[j] = served[j], Queues
    PROVE  Kept
  BY OthersUnserved DEF Kept, Unanswered

\* What is asked for while the connection stays as it is.
LEMMA SameAsking ==
    ASSUME conn' = conn, Types, \A k \in Conns : link'[k].req = link[k].req
    PROVE  Asking' = Asking /\ SameGivenUp /\ Queues
  <1>1. Asking' <=> Asking
    BY DEF Asking, Types
  <1>2. SameGivenUp
    BY DEF SameGivenUp, GivenUp
  <1>3. Queues
    BY DEF Queues
  <1> QED
    BY <1>1, <1>2, <1>3, Zenon DEF Asking

\* A call is made, or stopped before it takes part.
LEMMA LocalService ==
    ASSUME Served, NEW i \in Calls, (\E o \in Ops : Invoke(i, o)) \/ ReturnLocally(i)
    PROVE  Kept /\ [Service!Next]_(Service!vars)
  <1>i. Inductive /\ Types /\ Unserved(i)
    BY DEF Served, Inductive
  <1>0. UNCHANGED <<link, store, mu, conn, served>>
    BY DEF Invoke, ReturnLocally, fields
  <1>1. Asking' = Asking /\ SameGivenUp /\ Queues
    BY <1>i, <1>0, SameAsking
  <1>2. [j \in Calls |-> [p \in 1 .. Parts |-> Cardinality(GivenUp(j, p))]]'
          = [j \in Calls |-> [p \in 1 .. Parts |-> Cardinality(GivenUp(j, p))]]
    BY <1>1, SameStrays
  <1>k. ASSUME call[i].pc \notin Busy, OnlyCall(i), Unserved(i)'
        PROVE  Kept
    <2>1. \A j \in Calls : Unserved(j)'
      BY <1>k, <1>0, OthersUnserved
    <2>2. Unanswered'
      <3>1. ASSUME Asking PROVE served'[mu'][call'[mu'].part] = NoVal
        <4>1. mu \in Calls /\ mu # i
          BY <1>i, <1>k, <3>1, AskingFacts DEF Served, At, Busy
        <4> QED
          BY <1>0, <1>k, <3>1, <4>1 DEF Served, Unanswered, OnlyCall
      <3> QED
        BY <1>1, <3>1 DEF Unanswered
    <2> QED
      BY <1>1, <2>1, <2>2 DEF Kept
  <1>3. ASSUME NEW o \in Ops, Invoke(i, o)
        PROVE  Kept /\ [Service!Next]_(Service!vars)
    <2>1. At(i, "new") /\ call' = [call EXCEPT ![i].op = o, ![i].pc = "blocked"]
      BY <1>3 DEF Invoke
    <2>2. /\ OnlyCall(i) /\ call'[i].pc = "blocked"
          /\ call' \in [Calls -> CallRecords]
      BY <1>i, <2>1, InvokeFacts
    <2>3. call'[i].op = o
      BY <1>i, <2>1 DEF Types, CallRecords
    <2>4. Unserved(i)'
      BY <1>i, <1>0, <2>1, <2>2 DEF Unserved, At, Busy
    <2>5. Kept
      BY <1>k, <2>1, <2>2, <2>4 DEF At, Busy
    <2>6. [j \in Calls |-> call[j].op]' = [[j \in Calls |-> call[j].op] EXCEPT ![i] = o]
      BY <2>2, <2>3 DEF OnlyCall
    <2>7. Status(i) = "new" /\ Status(i)' = "pending"
      BY <2>1, <2>2 DEF Status, At, Waiting
    <2>8. \A j \in Calls : j # i => Status(j)' = Status(j) /\ Result(j)' = Result(j)
      BY <2>2 DEF OnlyCall, Status, Result, At
    <2>9. Result(i)' = Result(i)
      BY <2>1, <2>2 DEF Result, At
    <2>10. [j \in Calls |-> Status(j)]' = [[j \in Calls |-> Status(j)] EXCEPT ![i] = "pending"]
      BY <2>7, <2>8
    <2>11. [j \in Calls |-> Result(j)]' = [j \in Calls |-> Result(j)]
      BY <2>8, <2>9
    <2>12. Service!Invoke(i, o)
      BY <1>0, <1>1, <1>2, <2>6, <2>7, <2>10, <2>11 DEF Service!Invoke
    <2> QED
      BY <2>5, <2>12 DEF Service!Next
  <1>4. CASE ReturnLocally(i)
    <2>1. /\ At(i, "blocked") /\ call[i].op.kind = "invalid" /\ Goto(i, "rejected")
          /\ "rejected" \in Waiting \cup Returned
      BY <1>4 DEF ReturnLocally, Returned
    <2>2. Moved(i, "rejected")
      BY <1>i, <2>1, GotoFacts
    <2>3. Unserved(i)'
      BY <2>2 DEF Unserved, At, Busy, Moved
    <2>4. Kept
      BY <1>k, <2>1, <2>2, <2>3 DEF At, Busy, Moved
    <2>5. /\ Status(i) = "pending" /\ Status(i)' = "failed"
          /\ Result(i)' = Result(i)
      BY <2>1, <2>2 DEF Status, Result, At, Waiting, Moved
    <2>6. /\ [j \in Calls |-> call[j].op]' = [j \in Calls |-> call[j].op]
          /\ [j \in Calls |-> Status(j)]'
                = [[j \in Calls |-> Status(j)] EXCEPT ![i] = "failed"]
          /\ [j \in Calls |-> Result(j)]' = [j \in Calls |-> Result(j)]
      BY <2>2, <2>5, View DEF Moved
    <2>7. Service!Fail(i)
      BY <1>0, <1>1, <1>2, <2>1, <2>5, <2>6 DEF Service!Fail, Service!IsTransfer
    <2> QED
      BY <2>4, <2>7 DEF Service!Next
  <1> QED
    BY <1>3, <1>4

\* The transfer of a call begins when it gets the mutex.
LEMMA AcquireService ==
    ASSUME Served, NEW i \in Calls, Acquire(i)
    PROVE  Kept /\ [Service!Next]_(Service!vars)
  <1>i. Inductive /\ Types /\ Unserved(i) /\ OneRequest
    BY DEF Served, Inductive
  <1>0. /\ At(i, "blocked") /\ IsData(call[i].op) /\ mu = NoCall /\ mu' = i
        /\ call' = [call EXCEPT ![i].budget = maxRetries, ![i].pc = "attempt"]
        /\ UNCHANGED <<link, store, conn, served>>
    BY DEF Acquire
  <1>1. Moved(i, "attempt") /\ call'[i].part = call[i].part /\ call[i].part \in 1 .. Parts
    BY <1>i, <1>0, AcquireFacts, CallFacts
  <1>2. Asking' = Asking /\ SameGivenUp /\ Queues
    BY <1>i, <1>0, SameAsking
  <1>3. ~ Asking
    BY <1>i, <1>0, AskingFacts
  <1>4. served[i] = Nothing
    BY <1>i, <1>0 DEF Unserved, At
  <1>5. Unserved(i)'
    BY <1>0, <1>1, <1>4 DEF Unserved, At, Busy, Moved, Nothing
  <1>6. Kept
    BY <1>0, <1>1, <1>2, <1>3, <1>5, SilentKept DEF Moved
  <1>7. Status(i) = "pending" /\ Status(i)' = "pending" /\ Result(i)' = Result(i)
    BY <1>0, <1>1 DEF Status, Result, At, Waiting, Moved
  <1>8. /\ [j \in Calls |-> call[j].op]' = [j \in Calls |-> call[j].op]
        /\ [j \in Calls |-> Status(j)]' = [j \in Calls |-> Status(j)]
        /\ [j \in Calls |-> Result(j)]' = [j \in Calls |-> Result(j)]
    BY <1>1, <1>7, View DEF Moved
  <1>9. [j \in Calls |-> [p \in 1 .. Parts |-> Cardinality(GivenUp(j, p))]]'
          = [j \in Calls |-> [p \in 1 .. Parts |-> Cardinality(GivenUp(j, p))]]
    BY <1>2, SameStrays
  <1>10. Service!Begin(i)
    BY <1>0, <1>2, <1>7, <1>8, <1>9 DEF Service!Begin, Service!IsTransfer, IsData
  <1> QED
    BY <1>6, <1>10 DEF Service!Next

\* An attempt that fails is given up, with what it was asking for.
LEMMA FailureService ==
    ASSUME Served, NEW i \in Calls, Fail(i) \/ RefuseReply(i)
    PROVE  Kept /\ [Service!Next]_(Service!vars)
  <1>i. Inductive /\ Types /\ OneRequest /\ Countable
    BY DEF Served, Inductive
  <1>0. call[i].pc \in Busy /\ AttemptFailed(i)
    BY DEF Fail, RefuseReply, At, Busy
  <1>1. /\ link' = HungUp(conn) /\ conn' = NoConn
        /\ served' = [served EXCEPT ![i] = Nothing]
        /\ store' = store
    BY <1>0 DEF AttemptFailed, CloseLocked
  <1>2. /\ mu = i /\ IsData(call[i].op) /\ conn \in Conns \cup {NoConn}
        /\ call[i].part \in 1 .. Parts
    BY <1>i, <1>0, Holder, CallFacts DEF Types
  <1>3. /\ OnlyCall(i) /\ call'[i].op = call[i].op
        /\ \/ mu' = mu /\ call'[i].pc = "attempt" /\ call'[i].part = 1
           \/ mu' = NoCall /\ call'[i].pc = "failed"
    <2>1. CASE MoreAttempts(i)
      <3>1. /\ mu' = mu
            /\ call' = [call EXCEPT ![i].pc = "attempt", ![i].part = FirstPart(i)]
        BY <1>0, <2>1 DEF AttemptFailed
      <3> QED
        BY <1>i, <3>1, RepeatFacts DEF Moved
    <2>2. CASE ~ MoreAttempts(i)
      <3>1. mu' = NoCall /\ Goto(i, "failed") /\ "failed" \in Waiting \cup Returned
        BY <1>0, <2>2 DEF AttemptFailed, Return, Returned
      <3> QED
        BY <1>i, <3>1, GotoFacts DEF Moved
    <2> QED
      BY <2>1, <2>2
  <1>4. \A k \in Conns : link'[k].req = link[k].req
    BY <1>i, <1>1, <1>2, HungUpFields DEF Types
  <1>5. /\ served'[i] = Nothing
        /\ \A j \in Calls \ {i} : served'[j] = served[j]
    BY <1>i, <1>1 DEF Types
  <1>6. Asking' = FALSE
    BY <1>1 DEF Asking
  <1>7. Unserved(i)'
    BY <1>3, <1>5, PartAssumption DEF Unserved, At, Busy, Nothing
  <1>8. Queues
    BY <1>4 DEF Queues
  <1>9. Kept
    BY <1>3, <1>5, <1>6, <1>7, <1>8, SilentKept
  <1>10. /\ Status(i) = "pending" /\ Result(i)' = Result(i)
         /\ Status(i)' = IF mu' = mu THEN "pending" ELSE "failed"
    <2>1. mu # NoCall
      BY <1>2, CallAssumption
    <2> QED
      BY <1>0, <1>3, <2>1 DEF Status, Result, At, Busy, Waiting
  <1>11. /\ [j \in Calls |-> call[j].op]' = [j \in Calls |-> call[j].op]
         /\ [j \in Calls |-> Status(j)]'
               = [[j \in Calls |-> Status(j)] EXCEPT ![i] = Status(i)']
         /\ Status(i)' = Status(i) =>
                [j \in Calls |-> Status(j)]' = [j \in Calls |-> Status(j)]
         /\ [j \in Calls |-> Result(j)]' = [j \in Calls |-> Result(j)]
    BY <1>3, <1>10, View
  <1> DEFINE stray == [j \in Calls |-> [p \in 1 .. Parts |-> Cardinality(GivenUp(j, p))]]
  <1>12. ASSUME ~ Asking PROVE stray' = stray
    <2>1. SameGivenUp
      <3>1. conn # NoConn => link[conn].req = <<>>
        BY <1>12 DEF Asking
      <3>2. \A k \in Conns : \/ k # conn /\ k # conn' /\ link'[k].req = link[k].req
                             \/ link[k].req = <<>> /\ link'[k].req = <<>>
        BY <1>1, <1>4, <3>1, NoConnAssumption
      <3> QED
        BY <3>2, SameElsewhere
    <2> QED
      BY <2>1, SameStrays
  <1>13. ASSUME Asking
         PROVE  stray' = [stray EXCEPT ![i][call[i].part] = @ + 1]
    <2>1. /\ conn \in Conns
          /\ link[conn].req = <<[call |-> i, part |-> call[i].part]>>
      BY <1>i, <1>2, <1>13, AskingFacts
    <2>2. PICK q : q = [call |-> i, part |-> call[i].part]
      OBVIOUS
    <2>3. DOMAIN link[conn].req = {1} /\ link[conn].req[1] = q
      BY <2>1, <2>2, OneAppended
    <2>4. ASSUME NEW j \in Calls, NEW p \in 1 .. Parts
          PROVE  GivenUp(j, p)' = IF j = i /\ p = call[i].part
                                  THEN GivenUp(j, p) \cup {conn} ELSE GivenUp(j, p)
      <3>1. q = [call |-> j, part |-> p] <=> j = i /\ p = call[i].part
        BY <2>2
      <3>2. conn \in GivenUp(j, p)' <=> j = i /\ p = call[i].part
        BY <1>1, <1>4, <2>1, <2>3, <3>1, NoConnAssumption DEF GivenUp
      <3>3. \A k \in Conns \ {conn} : k \in GivenUp(j, p)' <=> k \in GivenUp(j, p)
        BY <1>1, <1>4, NoConnAssumption DEF GivenUp
      <3>4. /\ conn \notin GivenUp(j, p)
            /\ GivenUp(j, p) \subseteq Conns /\ GivenUp(j, p)' \subseteq Conns
        BY DEF GivenUp
      <3> QED
        BY <2>1, <3>2, <3>3, <3>4
    <2>5. conn \notin GivenUp(i, call[i].part)
      BY DEF GivenUp
    <2>6. PICK x \in 1 .. Parts : x = call[i].part
      BY <1>2
    <2>7. /\ \A j \in Calls, p \in 1 .. Parts :
                j # i \/ p # x => GivenUp(j, p)' = GivenUp(j, p)
          /\ GivenUp(i, x)' = GivenUp(i, x) \cup {conn} /\ conn \notin GivenUp(i, x)
      BY <2>4, <2>5, <2>6
    <2>8. stray' = [stray EXCEPT ![i][x] = @ + 1]
      BY <1>i, <2>7, Strays
    <2> HIDE DEF stray
    <2> QED
      BY <2>6, <2>8
  <1> HIDE DEF stray
  <1>14. Service!None = Nothing
    BY DEF Service!None, Nothing
  <1>15. Service!GiveUp(i)
    <2>1. CASE Asking
      <3>1. served[i][call[i].part] = NoVal
        BY <1>2, <2>1 DEF Served, Unanswered
      <3>2. Service!NextPart(i, call[i].part)
        BY <1>0, <3>1, NextFacts
      <3>3. \E p \in 1 .. Parts : Service!NextPart(i, p) /\ stray' = [stray EXCEPT ![i][p] = @ + 1]
        BY <1>2, <1>13, <2>1, <3>2
      <3>4. IF Asking
            THEN \E p \in 1 .. Parts :
                    Service!NextPart(i, p) /\ stray' = [stray EXCEPT ![i][p] = @ + 1]
            ELSE UNCHANGED stray
        BY <2>1, <3>3
      <3> QED
        BY <1>1, <1>2, <1>6, <1>11, <1>14, <3>4, Zenon DEF Service!GiveUp, stray
    <2>2. CASE ~ Asking
      BY <1>1, <1>2, <1>6, <1>11, <1>12, <1>14, <2>2 DEF Service!GiveUp, stray
    <2> QED
      BY <2>1, <2>2
  <1>16. CASE mu' = mu
    <2>1. Service!Repeat(i)
      BY <1>10, <1>11, <1>15, <1>16 DEF Service!Repeat
    <2> QED
      BY <1>9, <2>1 DEF Service!Next
  <1>17. CASE mu' # mu
    <2>1. Service!Fail(i)
      BY <1>3, <1>10, <1>11, <1>15, <1>17 DEF Service!Fail
    <2> QED
      BY <1>9, <2>1 DEF Service!Next
  <1> QED
    BY <1>16, <1>17

\* Open and Close, when no transfer goes on, and a dial in the middle of one.
LEMMA DialService ==
    ASSUME Served, NEW i \in Calls, NEW k \in Conns, Connect(i, k) \/ Open(i, k)
    PROVE  Kept /\ [Service!Next]_(Service!vars)
  <1>i. Inductive /\ Types /\ Unserved(i) /\ LockHeld
    BY DEF Served, Inductive
  <1>0. /\ OpenLocked(k) /\ UNCHANGED <<store, mu, served>>
        /\ \/ At(i, "attempt") /\ call' = call
           \/ /\ At(i, "blocked") /\ call[i].op.kind = "open" /\ mu = NoCall
              /\ Goto(i, "ok") /\ "ok" \in Waiting \cup Returned
    BY DEF Connect, Open, Returned
  <1>1. \A j \in Calls : ~ At(j, "await")
    BY <1>i, <1>0, Holder, Owner DEF At, Busy
  <1>2. /\ conn' = k /\ link[k].req = <<>>
        /\ link' = [HungUp(conn) EXCEPT ![k].st = "up"]
        /\ conn # NoConn => link[conn].req = <<>>
    BY <1>i, <1>0, <1>1, Idle DEF OpenLocked, Free, Down
  <1>3. \A j \in Conns : link'[j].req = link[j].req
    <2>1. PICK h : h = HungUp(conn)
      OBVIOUS
    <2>2. /\ h \in [Conns -> Links(Request, Reply)]
          /\ \A j \in Conns : h[j].req = link[j].req
      BY <1>i, <2>1, HungUpFields, WireTypes DEF Types, HungUp
    <2> QED
      BY <1>2, <2>1, <2>2 DEF Links
  <1>4. SameGivenUp
    <2>1. \A j \in Conns : \/ j # conn /\ j # conn' /\ link'[j].req = link[j].req
                           \/ link[j].req = <<>> /\ link'[j].req = <<>>
      BY <1>2, <1>3, NoConnAssumption
    <2> QED
      BY <2>1, SameElsewhere
  <1>5. Asking = FALSE /\ Asking' = FALSE
    BY <1>2, <1>3 DEF Asking
  <1>6. Queues
    BY <1>3 DEF Queues
  <1>7. CASE call' = call
    <2>1. \A j \in Calls : /\ call'[j].op = call[j].op
                           /\ Status(j)' = Status(j) /\ Result(j)' = Result(j)
      BY <1>7 DEF Status, Result, At
    <2>2. UNCHANGED Service!vars
      BY <1>0, <1>4, <1>5, <2>1, Stutter
    <2> QED
      BY <1>0, <1>5, <1>6, <1>7, <2>2, QuietKept
  <1>8. CASE /\ At(i, "blocked") /\ call[i].op.kind = "open" /\ mu = NoCall
             /\ Goto(i, "ok") /\ "ok" \in Waiting \cup Returned
    <2>1. Moved(i, "ok")
      BY <1>i, <1>8, GotoFacts
    <2>2. Unserved(i)'
      BY <2>1 DEF Unserved, At, Busy, Moved
    <2>3. Kept
      BY <1>0, <1>5, <1>6, <2>1, <2>2, SilentKept DEF Moved
    <2>4. Status(i) = "pending" /\ Status(i)' = "ok" /\ Result(i)' = Result(i)
      BY <1>8, <2>1 DEF Status, Result, At, Waiting, Moved
    <2>5. /\ [j \in Calls |-> call[j].op]' = [j \in Calls |-> call[j].op]
          /\ [j \in Calls |-> Status(j)]' = [[j \in Calls |-> Status(j)] EXCEPT ![i] = "ok"]
          /\ [j \in Calls |-> Result(j)]' = [j \in Calls |-> Result(j)]
      BY <2>1, <2>4, View DEF Moved
    <2>6. Service!Succeed(i)
      BY <1>0, <1>4, <1>5, <1>8, <2>4, <2>5, SameStrays DEF Service!Succeed, Service!IsTransfer
    <2> QED
      BY <2>3, <2>6 DEF Service!Next
  <1> QED
    BY <1>0, <1>7, <1>8

LEMMA CloseService ==
    ASSUME Served, NEW i \in Calls, CloseOrFail(i)
    PROVE  Kept /\ [Service!Next]_(Service!vars)
  <1>i. Inductive /\ Types /\ LockHeld
    BY DEF Served, Inductive
  <1>0. /\ At(i, "blocked") /\ call[i].op.kind \in {"open", "close"} /\ mu = NoCall
        /\ link' = HungUp(conn) /\ conn' = NoConn
        /\ UNCHANGED <<store, mu, served>>
        /\ \E e \in {"ok", "failed"} : Goto(i, e)
    BY DEF CloseOrFail, CloseLocked
  <1>1. PICK e \in {"ok", "failed"} : Goto(i, e)
    BY <1>0
  <1>2. Moved(i, e)
    <2>1. e \in Waiting \cup Returned
      BY DEF Returned
    <2> QED
      BY <1>i, <1>1, <2>1, GotoFacts
  <1>3. conn # NoConn => link[conn].req = <<>>
    BY <1>i, <1>0, Idle, Owner DEF At, Busy
  <1>4. \A j \in Conns : link'[j].req = link[j].req
    BY <1>i, <1>0, HungUpFields DEF Types
  <1>5. SameGivenUp
    <2>1. \A j \in Conns : \/ j # conn /\ j # conn' /\ link'[j].req = link[j].req
                           \/ link[j].req = <<>> /\ link'[j].req = <<>>
      BY <1>0, <1>3, <1>4, NoConnAssumption
    <2> QED
      BY <2>1, SameElsewhere
  <1>6. Asking = FALSE /\ Asking' = FALSE
    BY <1>0, <1>3 DEF Asking
  <1>7. Queues
    BY <1>4 DEF Queues
  <1>8. Unserved(i)'
    BY <1>2 DEF Unserved, At, Busy, Moved
  <1>9. Kept
    BY <1>0, <1>2, <1>6, <1>7, <1>8, SilentKept DEF Moved
  <1>10. Status(i) = "pending" /\ Status(i)' = e /\ Result(i)' = Result(i)
    BY <1>0, <1>2 DEF Status, Result, At, Waiting, Moved
  <1>11. /\ [j \in Calls |-> call[j].op]' = [j \in Calls |-> call[j].op]
         /\ [j \in Calls |-> Status(j)]' = [[j \in Calls |-> Status(j)] EXCEPT ![i] = e]
         /\ [j \in Calls |-> Result(j)]' = [j \in Calls |-> Result(j)]
    BY <1>2, <1>10, View DEF Moved
  <1>12. CASE e = "ok"
    <2>1. Service!Succeed(i)
      BY <1>0, <1>5, <1>6, <1>10, <1>11, <1>12, SameStrays DEF Service!Succeed, Service!IsTransfer
    <2> QED
      BY <1>9, <2>1 DEF Service!Next
  <1>13. CASE e = "failed"
    <2>1. Service!Fail(i)
      BY <1>0, <1>5, <1>6, <1>10, <1>11, <1>13, SameStrays DEF Service!Fail, Service!IsTransfer
    <2> QED
      BY <1>9, <2>1 DEF Service!Next
  <1> QED
    BY <1>12, <1>13

\* What is written on a live connection is asked of the device.
LEMMA TransmitService ==
    ASSUME Served, NEW i \in Calls, Transmit(i)
    PROVE  Kept /\ [Service!Next]_(Service!vars)
  <1>i. Inductive /\ Types /\ Unserved(i)
    BY DEF Served, Inductive
  <1>0. /\ At(i, "attempt") /\ conn # NoConn /\ Goto(i, "await")
        /\ "await" \in Waiting \cup Returned
        /\ link' = Written(conn, [call |-> i, part |-> call[i].part])
        /\ UNCHANGED <<store, mu, conn, served>>
    BY DEF Transmit, Ready, fields, Waiting
  <1>1. Moved(i, "await") /\ call'[i].part = call[i].part
    BY <1>i, <1>0, GotoFacts
  <1>2. /\ mu = i /\ IsData(call[i].op) /\ \A j \in Calls : ~ At(j, "await")
        /\ call[i].part \in 1 .. Parts
    BY <1>i, <1>0, Holder, CallFacts DEF At, Busy
  <1>3. conn \in Conns /\ link[conn].req = <<>>
    BY <1>i, <1>0, <1>2, Idle
  <1>4. PICK q \in Request : q = [call |-> i, part |-> call[i].part]
    BY <1>2 DEF Request
  <1>5. \A j \in Conns : link'[j].req = IF j = conn /\ link[j].st = "up"
                                        THEN Append(link[j].req, q) ELSE link[j].req
    BY <1>i, <1>0, <1>3, <1>4, WrittenFields DEF Types
  <1>6. link'[conn].req = IF link[conn].st = "up" THEN <<q>> ELSE <<>>
    BY <1>3, <1>5, OneAppended
  <1>7. \A j \in Conns : j # conn => link'[j].req = link[j].req
    BY <1>5
  <1>8. Queues
    BY <1>3, <1>6, <1>7 DEF Queues
  <1>9. SameGivenUp
    <2>1. \A k \in Conns : \/ k # conn /\ k # conn' /\ link'[k].req = link[k].req
                           \/ k = conn /\ k = conn'
      BY <1>0, <1>7
    <2> QED
      BY <2>1, SameElsewhere
  <1>10. served[i][call[i].part] = NoVal
    BY <1>i, <1>0 DEF Unserved
  <1>11. Kept
    <2>1. Unserved(i)'
      BY <1>i, <1>0, <1>1 DEF Unserved, At, Busy, Moved
    <2>2. \A j \in Calls : Unserved(j)'
      BY <1>0, <1>1, <2>1, OthersUnserved DEF Moved
    <2>3. Unanswered'
      BY <1>0, <1>1, <1>2, <1>10 DEF Unanswered
    <2> QED
      BY <1>8, <2>2, <2>3 DEF Kept
  <1>12. Status(i)' = Status(i) /\ Result(i)' = Result(i)
    BY <1>0, <1>1 DEF Status, Result, At, Waiting, Moved
  <1>13. Asking = FALSE
    BY <1>3 DEF Asking
  <1>14. CASE link[conn].st # "up"
    <2>1. Asking' = FALSE
      BY <1>0, <1>6, <1>14 DEF Asking
    <2>2. \A j \in Calls : /\ call'[j].op = call[j].op
                           /\ Status(j)' = Status(j) /\ Result(j)' = Result(j)
      BY <1>1, <1>12 DEF Moved, OnlyCall, Status, Result, At
    <2>3. UNCHANGED Service!vars
      BY <1>0, <1>9, <1>13, <2>1, <2>2, Stutter
    <2> QED
      BY <1>11, <2>3
  <1>15. CASE link[conn].st = "up"
    <2>1. Asking' = TRUE
      BY <1>0, <1>6, <1>15, OneAppended DEF Asking
    <2>2. /\ [j \in Calls |-> call[j].op]' = [j \in Calls |-> call[j].op]
          /\ [j \in Calls |-> Status(j)]' = [j \in Calls |-> Status(j)]
          /\ [j \in Calls |-> Result(j)]' = [j \in Calls |-> Result(j)]
      BY <1>1, <1>12, View DEF Moved
    <2>3. \E p \in 1 .. Parts : Service!NextPart(i, p)
      BY <1>0, <1>2, <1>10, NextFacts DEF At, Busy
    <2>4. Service!Ask(i)
      BY <1>0, <1>2, <1>9, <1>13, <2>1, <2>2, <2>3, SameStrays DEF Service!Ask
    <2> QED
      BY <1>11, <2>4 DEF Service!Next
  <1> QED
    BY <1>14, <1>15

\* An answer is taken; the last of the transfer ends it.
LEMMA TakeReplyService ==
    ASSUME Served, NEW i \in Calls, TakeReply(i), Inductive'
    PROVE  Kept /\ [Service!Next]_(Service!vars)
  <1>i. Inductive /\ Types /\ Unserved(i) /\ InStep
    BY DEF Served, Inductive
  <1>0. /\ At(i, "await") /\ link[conn].rep # <<>> /\ link' = Consumed(conn)
        /\ UNCHANGED <<store, conn, served>>
    BY DEF TakeReply
  <1>1. /\ mu = i /\ i # NoCall /\ IsData(call[i].op) /\ conn \in Conns /\ conn # NoConn
    BY <1>i, <1>0, Holder, NoConnAssumption DEF At, Busy
  <1>2. PICK r \in Reply : r = Head(link[conn].rep)
    <2>1. link[conn].rep \in Seq(Reply)
      BY <1>i, <1>1, LinkFacts
    <2> QED
      BY <1>0, <2>1, HeadFacts
  <1>3. link[conn].req = <<>>
    <2>1. link[conn].rep \in Seq(Reply) /\ link[conn].req \in Seq(Request)
      BY <1>i, <1>1, LinkFacts
    <2> QED
      BY <1>i, <1>0, <1>1, <2>1, LastMessage DEF InStep
  <1>4. \A k \in Conns : link'[k].req = link[k].req
    BY <1>i, <1>0, <1>1, ConsumedFields DEF Types
  <1>5. Asking = FALSE /\ Asking' = FALSE
    BY <1>0, <1>1, <1>3, <1>4 DEF Asking
  <1>6. SameGivenUp /\ Queues
    BY <1>i, <1>0, <1>4, SameAsking
  <1>7. PICK p \in 1 .. Parts : p = call[i].part
    BY <1>i, CallFacts
  <1>8. PICK m \in 1 .. Parts : m = IF p = Parts THEN p ELSE p + 1
    BY PartAssumption
  <1>9. PICK e \in Waiting \cup Returned : e = IF p = Parts THEN "ok" ELSE "attempt"
    BY DEF Waiting, Returned
  <1>10. /\ call' = [call EXCEPT ![i].buf[p] = r.val, ![i].part = m, ![i].pc = e]
         /\ mu' = IF p = Parts THEN NoCall ELSE mu
    BY <1>2, <1>7, <1>8, <1>9 DEF TakeReply
  <1>11. /\ OnlyCall(i) /\ call'[i].pc = e /\ call'[i].part = m
         /\ call'[i].op = call[i].op
    <2>1. PICK b : b = [call[i].buf EXCEPT ![p] = r.val]
      OBVIOUS
    <2>2. call' = [call EXCEPT ![i] = [call[i] EXCEPT !.buf = b, !.part = m, !.pc = e]]
      BY <1>10, <2>1
    <2>3. call[i] \in CallRecords /\ call \in [Calls -> CallRecords]
      BY <1>i, CallFacts DEF Types
    <2> QED
      BY <2>2, <2>3 DEF OnlyCall, CallRecords
  <1>12. Unserved(i)'
    <2>1. CASE p = Parts
      BY <1>9, <1>11, <2>1 DEF Unserved, At, Busy
    <2>2. CASE p # Parts
      <3>1. \A x \in 1 .. Parts : x > p => served[i][x] = NoVal
        BY <1>i, <1>0, <1>7 DEF Unserved, At, Busy
      <3>2. m > p /\ \A x \in 1 .. Parts : x > m => x > p
        BY <1>8, <2>2
      <3> QED
        BY <1>0, <1>9, <1>11, <2>2, <3>1, <3>2 DEF Unserved, At, Busy
    <2> QED
      BY <2>1, <2>2
  <1>13. Kept
    BY <1>0, <1>5, <1>6, <1>11, <1>12, SilentKept
  <1>14. Status(i) = "pending" /\ Status(i)' = IF p = Parts THEN "ok" ELSE "pending"
    BY <1>0, <1>9, <1>11 DEF Status, At, Waiting
  <1>15. Result(i) = Nothing
    BY <1>0 DEF Result, At
  <1>16. CASE p # Parts
    <2>1. Result(i)' = Result(i) /\ Status(i)' = Status(i)
      BY <1>9, <1>11, <1>14, <1>15, <1>16 DEF Result, At, Nothing
    <2>2. \A j \in Calls : /\ call'[j].op = call[j].op
                           /\ Status(j)' = Status(j) /\ Result(j)' = Result(j)
      BY <1>11, <2>1 DEF OnlyCall, Status, Result, At
    <2>3. mu' = mu
      BY <1>10, <1>16
    <2>4. UNCHANGED Service!vars
      BY <1>0, <1>5, <1>6, <2>2, <2>3, Stutter
    <2> QED
      BY <1>13, <2>4
  <1>17. CASE p = Parts
    <2>1. call'[i].pc = "ok" /\ mu' = NoCall
      BY <1>9, <1>10, <1>11, <1>17
    <2>2. \A x \in 1 .. Parts : Transferred(i, x)'
      BY <1>1, <1>11, <2>1 DEF Inductive, Progressed, At
    <2>3. ASSUME NEW x \in 1 .. Parts PROVE served[i][x] # NoVal
      <3>1. call[i].op.kind = "write" => call[i].op.val \in Vals
        BY <1>i, <1>1, CallFacts, OpFacts
      <3> QED
        BY <1>0, <1>1, <1>11, <2>2, <3>1, ValueAssumption DEF Transferred, IsData
    <2>4. call[i].op.kind = "read" => call'[i].buf = served[i]
      <3>1. ASSUME call[i].op.kind = "read"
            PROVE  \A x \in 1 .. Parts : call'[i].buf[x] = served'[i][x]
        BY <1>11, <2>2, <3>1 DEF Transferred
      <3>2. call'[i].buf \in Buffers /\ served'[i] \in Buffers
        BY CallFacts DEF Inductive, Types, CallRecords
      <3> QED
        BY <1>0, <3>1, <3>2, SameBuffers
    <2>5. Result(i)' = IF call[i].op.kind = "read" THEN served[i] ELSE Nothing
      BY <1>11, <2>1, <2>4 DEF Result, At, Nothing
    <2>6. /\ [j \in Calls |-> call[j].op]' = [j \in Calls |-> call[j].op]
          /\ [j \in Calls |-> Status(j)]'
                = [[j \in Calls |-> Status(j)] EXCEPT ![i] = "ok"]
          /\ [j \in Calls |-> Result(j)]'
                = IF call[i].op.kind = "read"
                  THEN [[j \in Calls |-> Result(j)] EXCEPT ![i] = served[i]]
                  ELSE [j \in Calls |-> Result(j)]
      BY <1>11, <1>14, <1>15, <1>17, <2>5, View
    <2>7. Service!Succeed(i)
      BY <1>0, <1>1, <1>5, <1>6, <1>14, <2>1, <2>3, <2>6, SameStrays
      DEF Service!Succeed, Service!IsTransfer, IsData
    <2> QED
      BY <1>13, <2>7 DEF Service!Next
  <1> QED
    BY <1>16, <1>17

-----------------------------------------------------------------------------
\* The request on another connection, which was given up, is taken.
LEMMA StrayTaken ==
    ASSUME Served, NEW k \in Conns, k # conn, conn' = conn, link[k].req # <<>>,
           NEW q, q = Head(link[k].req), link'[k].req = <<>>,
           \A j \in Conns \ {k} : link'[j].req = link[j].req
    PROVE  LET stray == [i \in Calls |-> [p \in 1 .. Parts |-> Cardinality(GivenUp(i, p))]] IN
           /\ stray[q.call][q.part] > 0
           /\ stray' = [stray EXCEPT ![q.call][q.part] = @ - 1]
           /\ Asking' = Asking
  <1>i. Inductive /\ OneRequest /\ Types /\ Countable
    BY DEF Served, Inductive
  <1>1. /\ link[k].req = <<q>> /\ q.call \in Calls /\ q.part \in 1 .. Parts
        /\ q = [call |-> q.call, part |-> q.part]
    BY <1>i, RequestFacts
  <1>2. PICK c \in Calls, x \in 1 .. Parts : c = q.call /\ x = q.part
    BY <1>1
  <1>3. DOMAIN link[k].req = {1} /\ link[k].req[1] = q
    BY <1>1, OneAppended
  <1>4. ASSUME NEW i \in Calls, NEW p \in 1 .. Parts
        PROVE  GivenUp(i, p)' = IF i = c /\ p = x THEN GivenUp(i, p) \ {k} ELSE GivenUp(i, p)
    <2>1. q = [call |-> i, part |-> p] <=> i = c /\ p = x
      BY <1>1, <1>2
    <2>2. k \in GivenUp(i, p) <=> i = c /\ p = x
      BY <1>3, <2>1 DEF GivenUp
    <2>3. k \notin GivenUp(i, p)'
      BY Empty DEF GivenUp
    <2>4. \A j \in Conns \ {k} : j \in GivenUp(i, p)' <=> j \in GivenUp(i, p)
      BY DEF GivenUp
    <2>5. GivenUp(i, p) \subseteq Conns /\ GivenUp(i, p)' \subseteq Conns
      BY DEF GivenUp
    <2>6. ASSUME NEW j \in Conns
          PROVE  j \in GivenUp(i, p)' <=> j \in GivenUp(i, p) /\ ~ (j = k /\ i = c /\ p = x)
      BY <2>2, <2>3, <2>4
    <2>7. CASE i = c /\ p = x
      <3>1. GivenUp(i, p)' = GivenUp(i, p) \ {k}
        BY <2>5, <2>6, <2>7
      <3> QED
        BY <2>7, <3>1
    <2>8. CASE ~ (i = c /\ p = x)
      <3>1. GivenUp(i, p)' = GivenUp(i, p)
        BY <2>5, <2>6, <2>8
      <3> QED
        BY <2>8, <3>1
    <2> QED
      BY <2>7, <2>8
  <1>5. k \in GivenUp(c, x)
    BY <1>1, <1>2, <1>3 DEF GivenUp
  <1>6. Asking' = Asking
    <2>1. conn # NoConn => link'[conn].req = link[conn].req
      BY <1>i DEF Types
    <2>2. Asking' <=> Asking
      BY <2>1 DEF Asking
    <2> QED
      BY <2>2, Zenon DEF Asking
  <1>7. /\ \A i \in Calls, p \in 1 .. Parts : i # c \/ p # x => GivenUp(i, p)' = GivenUp(i, p)
        /\ GivenUp(c, x)' = GivenUp(c, x) \ {k}
    BY <1>4
  <1> DEFINE stray == [i \in Calls |-> [p \in 1 .. Parts |-> Cardinality(GivenUp(i, p))]]
  <1>8. stray[c][x] > 0 /\ stray' = [stray EXCEPT ![c][x] = @ - 1]
    BY <1>i, <1>5, <1>7, Strays
  <1> HIDE DEF stray
  <1>9. /\ stray[q.call][q.part] > 0
        /\ stray' = [stray EXCEPT ![q.call][q.part] = @ - 1]
    BY <1>2, <1>8
  <1> QED
    BY <1>6, <1>9 DEF stray

\* The request on k, if there is one, will not be served.
LEMMA LoseService ==
    ASSUME Served, NEW k \in Conns, UNCHANGED <<store, mu, conn, call, served>>,
           link'[k].req = <<>>, \A j \in Conns \ {k} : link'[j].req = link[j].req
    PROVE  Kept /\ [Service!Next]_(Service!vars)
  <1>i. Inductive /\ OneRequest /\ Types
    BY DEF Served, Inductive
  <1>1. \A i \in Calls : /\ call'[i].op = call[i].op
                         /\ Status(i)' = Status(i) /\ Result(i)' = Result(i)
    BY DEF Status, Result, At
  <1>2. /\ [j \in Calls |-> call[j].op]' = [j \in Calls |-> call[j].op]
        /\ [j \in Calls |-> Status(j)]' = [j \in Calls |-> Status(j)]
        /\ [j \in Calls |-> Result(j)]' = [j \in Calls |-> Result(j)]
    BY <1>1, SameView
  <1>3. Queues
    BY DEF Queues
  <1>4. Asking' => Asking
    BY <1>i, Empty DEF Asking, Types
  <1>5. Kept
    BY <1>3, <1>4, QuietKept
  <1>6. CASE k = conn
    <2>1. SameGivenUp
      <3>1. \A j \in Conns : \/ j # conn /\ j # conn' /\ link'[j].req = link[j].req
                             \/ j = conn /\ j = conn'
        BY <1>6
      <3> QED
        BY <3>1, SameElsewhere
    <2>2. Asking' = FALSE
      BY <1>6 DEF Asking
    <2>3. CASE Asking
      <3>1. Service!Lose
        BY <1>2, <2>1, <2>2, <2>3, SameStrays DEF Service!Lose
      <3> QED
        BY <1>5, <3>1 DEF Service!Next
    <2>4. CASE ~ Asking
      <3>1. Asking = FALSE
        BY <2>4 DEF Asking
      <3>2. UNCHANGED Service!vars
        BY <1>1, <2>1, <2>2, <3>1, Stutter
      <3> QED
        BY <1>5, <3>2
    <2> QED
      BY <2>3, <2>4
  <1>7. CASE k # conn /\ link[k].req = <<>>
    <2>1. \A j \in Conns : link'[j].req = link[j].req
      BY <1>7
    <2>2. Asking' = Asking /\ SameGivenUp
      BY <1>i, <2>1, SameAsking
    <2>3. UNCHANGED Service!vars
      BY <1>1, <2>2, Stutter
    <2> QED
      BY <1>5, <2>3
  <1>8. CASE k # conn /\ link[k].req # <<>>
    <2>h. PICK q \in Request : q = Head(link[k].req)
      BY <1>i, <1>8, RequestFacts
    <2>1. q.call \in Calls /\ q.part \in 1 .. Parts
      BY <1>i, <1>8, <2>h, RequestFacts
    <2>2. PICK c \in Calls, x \in 1 .. Parts : c = q.call /\ x = q.part
      BY <2>1
    <2>3. LET stray == [i \in Calls |-> [p \in 1 .. Parts |-> Cardinality(GivenUp(i, p))]] IN
          /\ stray[c][x] > 0
          /\ stray' = [stray EXCEPT ![c][x] = @ - 1]
          /\ Asking' = Asking
      BY <1>8, <2>h, <2>2, StrayTaken
    <2>4. Service!LoseStray(c, x)
      BY <1>2, <2>3 DEF Service!LoseStray
    <2> QED
      BY <1>5, <2>4 DEF Service!Next
  <1> QED
    BY <1>6, <1>7, <1>8

\* A request is served: the one that is awaited, or one that was given up.
LEMMA ExecuteService ==
    ASSUME Served, NEW k \in Conns, Execute(k)
    PROVE  Kept /\ [Service!Next]_(Service!vars)
  <1>i. Inductive /\ OneRequest /\ Types
    BY DEF Served, Inductive
  <1>h. PICK q \in Request : q = Head(link[k].req)
    BY <1>i, RequestFacts DEF Execute
  <1>e. link[k].req # <<>> /\ Tail(link[k].req) = <<>>
    BY <1>i, RequestFacts DEF Execute
  <1>1. Sound(q) /\ (k = conn => Asked(q)) /\ q.call \in Calls /\ q.part \in 1 .. Parts
    BY <1>i, <1>h, <1>e, RequestFacts
  <1>2. PICK c \in Calls, x \in 1 .. Parts : c = q.call /\ x = q.part
    BY <1>1
  <1>3. PICK o \in Ops \cup {NoOp} : o = call[c].op
    BY <1>i, CallFacts
  <1>4. /\ o.area \in Areas /\ o.kind \in {"read", "write"}
        /\ o.kind = "write" => o.val \in Vals
    BY <1>1, <1>2, <1>3, OpFacts DEF Sound
  <1>5. PICK v \in Vals \cup {InitVal} :
           v = IF o.kind = "read" THEN store[o.area][x] ELSE o.val
    BY <1>i, <1>4 DEF Types
  <1>6. PICK r \in Reply : r = [kind |-> "normal", val |-> v]
    BY DEF Reply
  <1>7. /\ link[k].req # <<>> /\ link' = Answered(k, r)
        /\ store' = [store EXCEPT ![o.area][x] = v]
        /\ served' = IF k = conn THEN [served EXCEPT ![c][x] = v] ELSE served
        /\ UNCHANGED <<mu, conn, call>>
    BY <1>h, <1>2, <1>3, <1>5, <1>6 DEF Execute, fields
  <1>8. /\ link'[k].req = <<>>
        /\ \A j \in Conns \ {k} : link'[j].req = link[j].req
    <2>t. link \in [Conns -> Links(Request, Reply)] /\ link' = Answered(k, r)
      BY <1>i, <1>7 DEF Types
    <2>1. \A j \in Conns : link'[j].req = IF j = k THEN Tail(link[j].req) ELSE link[j].req
      BY <2>t, AnsweredFields
    <2>2. link'[k].req = Tail(link[k].req)
      BY <2>1
    <2> QED
      BY <1>e, <2>1, <2>2
  <1>9. IF o.kind = "read" THEN store' = store ELSE store' = [store EXCEPT ![o.area][x] = o.val]
    <2>1. o.kind = "read" => [store EXCEPT ![o.area][x] = v] = store
      BY <1>i, <1>4, <1>5 DEF Types
    <2> QED
      BY <1>5, <1>7, <2>1
  <1>10. Service!Transfer(c, x)
    BY <1>3, <1>9 DEF Service!Transfer
  <1>11. Queues
    BY <1>8 DEF Queues
  <1>12. \A i \in Calls : /\ call'[i].op = call[i].op
                          /\ Status(i)' = Status(i) /\ Result(i)' = Result(i)
    BY <1>7 DEF Status, Result, At
  <1>13. /\ [j \in Calls |-> call[j].op]' = [j \in Calls |-> call[j].op]
         /\ [j \in Calls |-> Status(j)]' = [j \in Calls |-> Status(j)]
         /\ [j \in Calls |-> Result(j)]' = [j \in Calls |-> Result(j)]
    BY <1>12, SameView
  <1>14. CASE k # conn
    <2>1. LET stray == [i \in Calls |-> [p \in 1 .. Parts |-> Cardinality(GivenUp(i, p))]] IN
          /\ stray[c][x] > 0
          /\ stray' = [stray EXCEPT ![c][x] = @ - 1]
          /\ Asking' = Asking
      BY <1>h, <1>2, <1>7, <1>8, <1>14, StrayTaken
    <2>2. Service!ServeStray(c, x)
      BY <1>7, <1>10, <1>13, <1>14, <2>1 DEF Service!ServeStray
    <2>3. Kept
      BY <1>7, <1>11, <1>14, <2>1, QuietKept
    <2> QED
      BY <2>2, <2>3 DEF Service!Next
  <1>15. CASE k = conn
    <2>1. Asking = TRUE /\ Asking' = FALSE
      BY <1>7, <1>8, <1>15, NoConnAssumption DEF Asking
    <2>2. c = mu /\ At(c, "await") /\ x = call[c].part
      BY <1>1, <1>2, <1>15 DEF Asked
    <2>3. SameGivenUp
      <3>1. \A j \in Conns : \/ j # conn /\ j # conn' /\ link'[j].req = link[j].req
                             \/ j = conn /\ j = conn'
        BY <1>7, <1>8, <1>15
      <3> QED
        BY <3>1, SameElsewhere
    <2>4. served[c][x] = NoVal
      BY <2>1, <2>2 DEF Served, Unanswered
    <2>5. Service!NextPart(c, x)
      BY <2>2, <2>4, NextFacts DEF At, Busy
    <2>6. served' = [served EXCEPT ![c][x] = IF o.kind = "read" THEN store[o.area][x] ELSE o.val]
      BY <1>5, <1>7, <1>15
    <2>7. \E p \in 1 .. Parts :
             /\ Service!NextPart(c, p)
             /\ Service!Transfer(c, p)
             /\ served' = [served EXCEPT ![c][p] = IF o.kind = "read" THEN store[o.area][p]
                                                                     ELSE o.val]
      BY <1>10, <2>5, <2>6
    <2>8. Service!Serve(c)
      BY <1>3, <1>7, <1>13, <2>1, <2>2, <2>3, <2>7, SameStrays DEF Service!Serve
    <2>9. /\ \A j \in Calls \ {c} : served'[j] = served[j]
          /\ \A p \in 1 .. Parts : p # x => served'[c][p] = served[c][p]
      BY <1>i, <1>7, <1>15 DEF Types, Buffers
    <2>10. Unserved(c)'
      <3>1. Unserved(c)
        BY DEF Served
      <3>2. \A p \in 1 .. Parts : p > x => served'[c][p] = NoVal
        <4>1. \A p \in 1 .. Parts : p > x => p # x
          OBVIOUS
        <4> QED
          BY <2>2, <2>9, <3>1, <4>1 DEF Unserved, At, Busy
      <3> QED
        BY <1>7, <2>2, <3>2 DEF Unserved, At, Busy
    <2>11. Kept
      BY <1>7, <1>11, <2>1, <2>9, <2>10, SilentKept DEF OnlyCall
    <2> QED
      BY <2>8, <2>11 DEF Service!Next
  <1> QED
    BY <1>14, <1>15

LEMMA PolicyService ==
    ASSUME Served, NEW n \in Policies, SetRetryPolicy(n)
    PROVE  Kept /\ [Service!Next]_(Service!vars)
  <1>1. UNCHANGED <<link, store, mu, conn, call, served>>
    BY DEF SetRetryPolicy
  <1>2. Asking' = Asking /\ SameGivenUp /\ Queues
    BY <1>1, SameAsking DEF Served, Inductive
  <1>3. \A i \in Calls : /\ call'[i].op = call[i].op
                         /\ Status(i)' = Status(i) /\ Result(i)' = Result(i)
    BY <1>1 DEF Status, Result, At
  <1>4. Kept
    BY <1>1, <1>2, QuietKept
  <1> QED
    BY <1>1, <1>2, <1>3, <1>4, Stutter

LEMMA DeviceService ==
    ASSUME Served, NEW k \in Conns, Device(k)
    PROVE  Kept /\ [Service!Next]_(Service!vars)
  <1>i. Inductive /\ OneRequest /\ Types
    BY DEF Served, Inductive
  <1>1. CASE Execute(k)
    BY <1>1, ExecuteService
  <1>2. CASE Refuse(k) \/ Ignore(k)
    <2>1. link[k].req # <<>> /\ UNCHANGED <<store, mu, conn, call, served>>
      BY <1>2 DEF Refuse, Ignore, fields
    <2>2. Tail(link[k].req) = <<>>
      BY <1>i, <2>1, RequestFacts
    <2>3. PICK r \in Reply : r = [kind |-> "error", val |-> NoVal]
      BY DEF Reply
    <2>4. link' = Answered(k, r) \/ link' = Ignored(k)
      BY <1>2, <2>3 DEF Refuse, Ignore
    <2>5. \A j \in Conns : link'[j].req = IF j = k THEN Tail(link[j].req) ELSE link[j].req
      BY <1>i, <2>4, AnsweredFields, IgnoredFields DEF Types
    <2> QED
      BY <2>1, <2>2, <2>5, LoseService
  <1>3. CASE Sever(k)
    <2>1. link' = Severed(k) /\ UNCHANGED <<store, mu, conn, call, served>>
      BY <1>3 DEF Sever, fields
    <2>2. \A j \in Conns : link'[j].req = IF j = k THEN <<>> ELSE link[j].req
      BY <1>i, <2>1, SeveredFields DEF Types
    <2> QED
      BY <2>1, <2>2, LoseService
  <1> QED
    BY <1>1, <1>2, <1>3 DEF Device

-----------------------------------------------------------------------------
LEMMA ServiceNext == Served /\ Next => Kept /\ [Service!Next]_(Service!vars)
  <1> SUFFICES ASSUME Served, Next
               PROVE  Kept /\ [Service!Next]_(Service!vars)
    OBVIOUS
  <1>1. Inductive'
    BY InductiveNext DEF Served
  <1>2. ASSUME NEW i \in Calls, (\E o \in Ops : Invoke(i, o)) \/ Enter(i) \/ Progress(i)
        PROVE  Kept /\ [Service!Next]_(Service!vars)
    <2>1. \/ (\E o \in Ops : Invoke(i, o)) \/ ReturnLocally(i)
          \/ Acquire(i) \/ CloseOrFail(i) \/ Transmit(i) \/ TakeReply(i)
          \/ RefuseReply(i) \/ Fail(i)
          \/ \E k \in Conns : Connect(i, k) \/ Open(i, k)
      BY <1>2 DEF Enter, Progress
    <2> QED
      BY <1>1, <2>1, LocalService, AcquireService, CloseService, TransmitService,
         TakeReplyService, FailureService, DialService
  <1> QED
    BY <1>2, PolicyService, DeviceService DEF Next

\* The queues stay short, and the requests that were given up countable.
LEMMA QueuesKept ==
    ASSUME Served, Queues
    PROVE  OneRequest' /\ Countable'
  <1>1. OneRequest'
    <2> SUFFICES ASSUME NEW k \in Conns
                 PROVE  Len(link'[k].req) <= 1
      BY DEF OneRequest
    <2>1. Len(link[k].req) <= 1
      BY DEF Served, OneRequest
    <2>2. Len(<<>>) <= 1 /\ \A q : Len(<<q>>) <= 1
      BY Empty, OneAppended
    <2> QED
      BY <2>1, <2>2 DEF Queues
  <1>2. Countable'
    <2> SUFFICES ASSUME NEW i \in Calls, NEW p \in 1 .. Parts
                 PROVE  IsFiniteSet(GivenUp(i, p)')
      BY DEF Countable
    <2>1. IsFiniteSet(GivenUp(i, p) \cup {conn})
      BY FS_AddElement DEF Served, Countable
    <2>2. GivenUp(i, p)' \subseteq GivenUp(i, p) \cup {conn}
      <3> SUFFICES ASSUME NEW k \in GivenUp(i, p)', k # conn
                   PROVE  k \in GivenUp(i, p)
        OBVIOUS
      <3>1. k \in Conns /\ link'[k].req # <<>>
        BY Empty DEF GivenUp
      <3>2. link'[k].req = link[k].req
        BY <3>1 DEF Queues
      <3> QED
        BY <3>1, <3>2 DEF GivenUp
    <2> QED
      BY <2>1, <2>2, FS_Subset
  <1> QED
    BY <1>1, <1>2

LEMMA ServedNext == Served /\ [Next]_vars => Served'
  <1> SUFFICES ASSUME Served, [Next]_vars
               PROVE  Served'
    OBVIOUS
  <1>1. Inductive'
    BY InductiveNext DEF Served
  <1>2. CASE Next
    BY <1>1, <1>2, ServiceNext, QueuesKept DEF Served, Kept
  <1>3. CASE UNCHANGED vars
    <2>1. UNCHANGED <<link, mu, conn, call, served>>
      BY <1>3 DEF vars, fields
    <2>2. Asking' => Asking
      BY <2>1 DEF Asking
    <2>3. Queues
      BY <2>1 DEF Queues
    <2> QED
      BY <1>1, <2>1, <2>2, <2>3, QuietKept, QueuesKept DEF Served, Kept
  <1> QED
    BY <1>2, <1>3

LEMMA ServedInit == Init => Served
  <1> SUFFICES ASSUME Init
               PROVE  Served
    OBVIOUS
  <1>1. \A k \in Conns : link[k].req = <<>>
    BY DEF Init, Down
  <1>2. \A i \in Calls : call[i].pc = "new" /\ served[i] = Nothing
    BY DEF Init
  <1>3. \A i \in Calls : Unserved(i)
    BY <1>2 DEF Unserved, At, Busy
  <1>4. Unanswered
    BY DEF Init, Unanswered, Asking
  <1>5. OneRequest
    BY <1>1, Empty DEF OneRequest
  <1>6. Countable
    <2>1. \A i \in Calls, p \in 1 .. Parts : GivenUp(i, p) = {}
      BY <1>1, Empty DEF GivenUp
    <2> QED
      BY <2>1, FS_EmptySet DEF Countable
  <1> QED
    BY <1>3, <1>4, <1>5, <1>6, InductiveInit DEF Served

LEMMA ServiceInit == Init => Service!Init
  <1> SUFFICES ASSUME Init
               PROVE  Service!Init
    OBVIOUS
  <1>1. \A i \in Calls, p \in 1 .. Parts : Cardinality(GivenUp(i, p)) = 0
    <2>1. \A k \in Conns : link[k].req = <<>>
      BY DEF Init, Down
    <2>2. \A i \in Calls, p \in 1 .. Parts : GivenUp(i, p) = {}
      BY <2>1, Empty DEF GivenUp
    <2> QED
      BY <2>2, FS_EmptySet
  <1>2. \A i \in Calls : /\ call[i].op = NoOp /\ Status(i) = "new"
                         /\ Result(i) = Nothing
    <2>1. \A i \in Calls : call[i].pc = "new"
      BY DEF Init
    <2>2. \A i \in Calls : call[i].op = NoOp
      BY DEF Init
    <2>3. \A i \in Calls : Status(i) = "new"
      BY <2>1 DEF Status, At, Waiting
    <2>4. \A i \in Calls : Result(i) = Nothing
      BY <2>1 DEF Result, At
    <2> QED
      BY <2>2, <2>3, <2>4
  <1>3. Asking = FALSE
    BY DEF Init, Asking
  <1>4. [i \in Calls |-> [p \in 1 .. Parts |-> Cardinality(GivenUp(i, p))]]
          = [i \in Calls |-> [p \in 1 .. Parts |-> 0]]
    BY <1>1
  <1>5. Service!None = Nothing
    BY DEF Service!None, Nothing
  <1>6. /\ [i \in Calls |-> call[i].op] = [i \in Calls |-> NoOp]
        /\ [i \in Calls |-> Status(i)] = [i \in Calls |-> "new"]
        /\ [i \in Calls |-> Result(i)] = [i \in Calls |-> Nothing]
    BY <1>2
  <1> QED
    BY <1>3, <1>4, <1>5, <1>6 DEF Init, Service!Init

\* Client, network and device implement the service of transfers in parts: one
\* that succeeds had each part served in order within one attempt, no other
\* transfer goes on between them, and what attempts that were given up asked
\* for is served once at most.
THEOREM Implementation == Spec => ImplementsService
  <1>1. Served /\ [Next]_vars => [Service!Next]_(Service!vars)
    <2> SUFFICES ASSUME Served, [Next]_vars
                 PROVE  [Service!Next]_(Service!vars)
      OBVIOUS
    <2>1. CASE UNCHANGED vars
      <3>1. UNCHANGED <<link, store, mu, conn, call, served>>
        BY <2>1 DEF vars, fields
      <3>2. Asking' = Asking /\ SameGivenUp
        BY <3>1, SameAsking DEF Served, Inductive
      <3> QED
        BY <3>1, <3>2, Stutter DEF Status, Result, At
    <2> QED
      BY <2>1, ServiceNext
  <1> QED
    BY <1>1, ServedInit, ServedNext, ServiceInit, PTL
    DEF Spec, ImplementsService, Service!Spec

=============================================================================
