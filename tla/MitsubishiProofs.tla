-------------------------- MODULE MitsubishiProofs --------------------------
(***************************************************************************)
(* MitsubishiClient against the server: the connection stays in step,      *)
(* reads are fresh, writes take effect, the retry policy is kept and       *)
(* together they are BlockService, for any number of calls, connections,   *)
(* registers and retries.                                                  *)
(***************************************************************************)
EXTENDS MitsubishiSystem, MelsecProofs, FiniteSetTheorems

Active == {"attempt", "await", "reconnecting"}

Idle(k) == link[k].req = <<>> /\ link[k].rep = <<>> /\ job[k].stage = "reading"

\* The call in sendRequest is the one that holds the mutex.
LockHeld ==
    /\ \A i \in Calls : pc[i] \in Active <=> mu = i
    /\ \A i \in Calls : pc[i] = "blocked" /\ op[i].kind = "read" => op[i].count > 0
    /\ mu # NoCall =>
          /\ IsData(op[mu])
          /\ op[mu].kind = "read" => op[mu].count > 0
          /\ budget[mu] = maxRetries
          /\ attempt <= maxRetries
          /\ pc[mu] = "await" => conn # NoConn
          /\ pc[mu] = "reconnecting" => conn = NoConn

\* The client's connection is the only one it holds.
OneSocket ==
    /\ \A k \in Conns : link[k].st # "down" => k = conn
    /\ conn # NoConn => link[conn].st # "down"

\* A connection carries one message in its life, which the server has or not.
OneMessage ==
    \A k \in Conns :
        /\ Len(link[k].req) <= 1 /\ Len(link[k].rep) <= 1
        /\ link[k].req # <<>> => link[k].rep = <<>> /\ job[k].stage = "reading"
        /\ link[k].rep # <<>> => job[k].stage = "reading"

\* On the connection of the client it is that of the call that awaits it.
InStep ==
    conn # NoConn =>
        /\ ~ Idle(conn) => mu # NoCall /\ pc[mu] = "await"
        /\ \A n \in DOMAIN link[conn].req : link[conn].req[n].call = mu
        /\ \A n \in DOMAIN link[conn].rep : link[conn].rep[n].call = mu
        /\ job[conn].stage # "reading" => job[conn].req.call = mu

\* q is the request that its call sends.
Sent(q) == q.call \in Calls /\ pc[q.call] # "new" /\ IsData(op[q.call]) /\ q = RequestOf(q.call)

\* The server has executed call i and found w for it.
Found(i, w) ==
    /\ pc[i] # "new"
    /\ hits[i] >= 1
    /\ op[i].kind = "read" => w \in seen[i] /\ Len(w) = op[i].count

\* Requests and replies are those of calls, wherever they are.
TracedReq(k) == \A n \in DOMAIN link[k].req : Sent(link[k].req[n])

TracedJob(k) ==
    /\ job[k].stage # "reading" => Sent(job[k].req)
    /\ job[k].stage = "answering" => Found(job[k].req.call, job[k].words)

TracedRep(k) ==
    \A n \in DOMAIN link[k].rep :
        link[k].rep[n].end = "zero" => Found(link[k].rep[n].call, link[k].rep[n].words)

Traced == \A k \in Conns : TracedReq(k) /\ TracedJob(k) /\ TracedRep(k)

\* The attempt cannot succeed any more, but for an answer that is on its way.
Doomed ==
    conn # NoConn /\ (\/ link[conn].st # "up"
                      \/ job[conn].stage = "refusing"
                      \/ \E n \in DOMAIN link[conn].rep : link[conn].rep[n].end = "error")

\* Each attempt that failed, or will, has cost the call a fault.
FaultsCharged ==
    mu # NoCall =>
        faults[mu] >= attempt + IF pc[mu] = "reconnecting" \/ Doomed THEN 1 ELSE 0

\* What the return of call i says is so.
Justified(i) ==
    /\ pc[i] = "ok" /\ op[i].kind = "read" /\ op[i].count > 0 => val[i] \in seen[i]
    /\ pc[i] = "ok" /\ op[i].kind = "write" => hits[i] >= 1
    /\ IsData(op[i]) /\ pc[i] \in {"failed", "rejected"} => faults[i] > budget[i]

Inductive ==
    /\ TypeOK /\ LockHeld /\ OneSocket /\ OneMessage /\ InStep /\ Traced
    /\ FaultsCharged /\ \A i \in Calls : Justified(i)

\* The attempts call i has begun to transmit, or may have when it has returned.
Begun(i) ==
    CASE pc[i] = "attempt"                  -> attempt
      [] pc[i] \in {"await", "reconnecting"} -> attempt + 1
      [] pc[i] \in Returned                 -> budget[i] + 1
      [] OTHER                              -> 0

\* Executions and requests that can still become one are no more than attempts.
Counted ==
    \A i \in Calls :
        /\ IsFiniteSet(Copies(i))
        /\ hits[i] + Cardinality(Copies(i)) <= Begun(i)

Accounted == Inductive /\ Counted

-----------------------------------------------------------------------------
\* Requests, jobs and messages.

LEMMA OpFacts ==
    /\ \A o \in Ops \cup {NoOp} : o.kind \in {"read", "write", "open", "close", "invalid", "none"}
    /\ TypeOK => \A i \in Calls : IsData(op[i]) =>
          /\ RequestOf(i) \in Request
          /\ RequestOf(i).call = i /\ RequestOf(i).cmd = op[i].kind
          /\ RequestOf(i).count = op[i].count
          /\ op[i].count \in 0 .. MaxWords
  <1>1. \A r \in Request : r.cmd \in {"read", "write", "other"}
    BY RunFacts
  <1>2. \A o \in Ops \cup {NoOp} : \/ \E r \in Request : r.cmd # "other" /\ o = Op(r.cmd, r)
                                   \/ o = NoOp
                                   \/ \E k \in {"open", "close", "invalid"} :
                                         o = [NoOp EXCEPT !.kind = k]
    BY DEF Ops
  <1>3. \A o \in Ops \cup {NoOp} : o.kind \in {"read", "write", "open", "close", "invalid", "none"}
    BY <1>1, <1>2 DEF Op, NoOp
  <1>4. ASSUME TypeOK, NEW i \in Calls, IsData(op[i])
        PROVE  /\ RequestOf(i) \in Request
               /\ RequestOf(i).call = i /\ RequestOf(i).cmd = op[i].kind
               /\ RequestOf(i).count = op[i].count
               /\ op[i].count \in 0 .. MaxWords
    <2>1. PICK r \in Request : r.cmd # "other" /\ op[i] = Op(r.cmd, r)
      <3>1. op[i] \in Ops \cup {NoOp}
        BY <1>4 DEF TypeOK, ClientTypeOK
      <3> QED
        BY <1>2, <1>4, <3>1 DEF IsData, NoOp
    <2>2. RequestOf(i) = [call |-> i, cmd |-> r.cmd, addr |-> r.addr, count |-> r.count,
                          words |-> r.words]
      BY <2>1 DEF RequestOf, Op
    <2>3. RequestOf(i) \in Request
      BY <2>1, <2>2 DEF Request
    <2>4. r.count \in 0 .. MaxWords
      BY RunFacts
    <2> QED
      BY <2>1, <2>2, <2>3, <2>4 DEF Op
  <1> QED
    BY <1>3, <1>4

LEMMA LinkFacts ==
    ASSUME TypeOK
    PROVE  /\ link \in [Conns -> Links(Request, Reply)]
           /\ \A k \in Conns :
                 /\ link[k].st \in {"down", "up", "cut"}
                 /\ link[k].req \in Seq(Request) /\ link[k].rep \in Seq(Reply)
                 /\ Len(link[k].req) \in Nat /\ Len(link[k].rep) \in Nat
                 /\ link[k].req = <<>> <=> DOMAIN link[k].req = {}
                 /\ link[k].rep = <<>> <=> DOMAIN link[k].rep = {}
                 /\ \A n \in DOMAIN link[k].req : link[k].req[n] \in Request
                 /\ \A n \in DOMAIN link[k].rep : link[k].rep[n] \in Reply
  <1>1. link \in [Conns -> Links(Request, Reply)]
    BY DEF TypeOK, ClientTypeOK
  <1>2. ASSUME NEW k \in Conns
        PROVE  /\ link[k].st \in {"down", "up", "cut"}
               /\ link[k].req \in Seq(Request) /\ link[k].rep \in Seq(Reply)
    BY <1>1 DEF Links
  <1>3. ASSUME NEW k \in Conns
        PROVE  /\ Len(link[k].req) \in Nat /\ Len(link[k].rep) \in Nat
               /\ link[k].req = <<>> <=> DOMAIN link[k].req = {}
               /\ link[k].rep = <<>> <=> DOMAIN link[k].rep = {}
    BY <1>2, QueueFacts
  <1> QED
    BY <1>1, <1>2, <1>3, WireElements

LEMMA MoreFaultsFacts ==
    ASSUME TypeOK, NEW i \in Calls
    PROVE  /\ MoreFaults(i) \in [Calls -> Nat]
           /\ \A j \in Calls : MoreFaults(i)[j] >= faults[j]
           /\ \A j \in Calls \ {i} : MoreFaults(i)[j] = faults[j]
           /\ \A a \in Nat : a <= faults[i] /\ a <= budget[i] => MoreFaults(i)[i] >= a + 1
           /\ \A a \in Nat : a <= faults[i] => MoreFaults(i)[i] >= a
  <1>1. faults \in [Calls -> Nat] /\ budget \in [Calls -> Nat]
    BY DEF TypeOK, ClientTypeOK
  <1> QED
    BY <1>1 DEF MoreFaults

-----------------------------------------------------------------------------
\* What steps keep, whatever else they do.

\* Calls that were made keep what they were asked to do.
OpsKept == \A i \in Calls : pc[i] # "new" => pc'[i] # "new" /\ op'[i] = op[i]

\* The history only grows.
HistoryKept == \A i \in Calls : hits'[i] >= hits[i] /\ seen[i] \subseteq seen'[i]

LEMMA SentKept ==
    ASSUME OpsKept, NEW q, Sent(q)
    PROVE  Sent(q)'
  BY DEF OpsKept, Sent, RequestOf

LEMMA FoundKept ==
    ASSUME TypeOK, TypeOK', OpsKept, HistoryKept, NEW i \in Calls, NEW w, Found(i, w)
    PROVE  Found(i, w)'
  <1>1. hits[i] \in Nat /\ hits'[i] \in Nat
    BY DEF TypeOK
  <1> QED
    BY <1>1 DEF OpsKept, HistoryKept, Found

\* The messages on connection k after the step were there before.
SubReq(k) ==
    \A n \in DOMAIN link'[k].req : \E m \in DOMAIN link[k].req : link'[k].req[n] = link[k].req[m]

SubRep(k) ==
    \A n \in DOMAIN link'[k].rep : \E m \in DOMAIN link[k].rep : link'[k].rep[n] = link[k].rep[m]

SubWire == \A k \in Conns : SubReq(k) /\ SubRep(k)

LEMMA ReqKept ==
    ASSUME Traced, OpsKept, NEW k \in Conns, SubReq(k)
    PROVE  TracedReq(k)'
  <1> SUFFICES ASSUME NEW n \in DOMAIN link'[k].req
               PROVE  Sent(link[k].req[n])'
    BY DEF TracedReq
  <1>1. PICK m \in DOMAIN link[k].req : link'[k].req[n] = link[k].req[m]
    BY DEF SubReq
  <1>2. Sent(link[k].req[m])
    BY <1>1 DEF Traced, TracedReq
  <1>3. PICK q : q = link[k].req[m] /\ q = link'[k].req[n]
    BY <1>1
  <1>4. Sent(q)'
    BY <1>2, <1>3, SentKept
  <1> QED
    BY <1>3, <1>4 DEF Sent, RequestOf

LEMMA RepKept ==
    ASSUME TypeOK, TypeOK', Traced, OpsKept, HistoryKept, NEW k \in Conns, SubRep(k)
    PROVE  TracedRep(k)'
  <1> SUFFICES ASSUME NEW n \in DOMAIN link'[k].rep, link'[k].rep[n].end = "zero"
               PROVE  Found(link[k].rep[n].call, link[k].rep[n].words)'
    BY DEF TracedRep
  <1>1. PICK m \in DOMAIN link[k].rep : link'[k].rep[n] = link[k].rep[m]
    BY DEF SubRep
  <1>2. PICK i \in Calls : i = link[k].rep[m].call
    BY LinkFacts DEF Reply
  <1>3. PICK w : w = link[k].rep[m].words
    OBVIOUS
  <1>4. Found(i, w)
    BY <1>1, <1>2, <1>3 DEF Traced, TracedRep
  <1>5. Found(i, w)'
    BY <1>4, FoundKept
  <1>6. i = link'[k].rep[n].call /\ w = link'[k].rep[n].words
    BY <1>1, <1>2, <1>3
  <1> QED
    BY <1>5, <1>6 DEF Found

LEMMA JobKept ==
    ASSUME TypeOK, TypeOK', Traced, OpsKept, HistoryKept, NEW k \in Conns, job'[k] = job[k]
    PROVE  TracedJob(k)'
  <1> SUFFICES ASSUME job'[k].stage # "reading"
               PROVE  /\ Sent(job[k].req)'
                      /\ job'[k].stage = "answering" => Found(job[k].req.call, job[k].words)'
    BY DEF TracedJob
  <1>1. PICK q, w : q = job[k].req /\ w = job[k].words /\ q = job'[k].req /\ w = job'[k].words
    OBVIOUS
  <1>2. Sent(q) /\ (job[k].stage = "answering" => Found(q.call, w))
    BY <1>1 DEF Traced, TracedJob
  <1>3. PICK i \in Calls : i = q.call
    BY <1>2 DEF Sent
  <1>4. Sent(q)' /\ (job[k].stage = "answering" => Found(i, w)')
    BY <1>2, <1>3, SentKept, FoundKept
  <1>5. Sent(job[k].req)'
    BY <1>1, <1>4 DEF Sent, RequestOf
  <1>6. job'[k].stage = "answering" => Found(job[k].req.call, job[k].words)'
    BY <1>1, <1>3, <1>4 DEF Found
  <1> QED
    BY <1>5, <1>6

LEMMA TracedKept ==
    ASSUME TypeOK, TypeOK', Traced, OpsKept, HistoryKept, SubWire, job' = job
    PROVE  Traced'
  <1>1. \A k \in Conns : TracedReq(k)'
    BY ReqKept DEF SubWire
  <1>2. \A k \in Conns : TracedRep(k)'
    BY RepKept DEF SubWire
  <1>3. \A k \in Conns : TracedJob(k)'
    BY JobKept
  <1> QED
    BY <1>1, <1>2, <1>3 DEF Traced

\* The client lets go of its connection.
LEMMA HangUp ==
    ASSUME Inductive, link' = HungUp(conn), conn' = NoConn, job' = job
    PROVE  /\ link' \in [Conns -> Links(Request, Reply)]
           /\ SubWire /\ OneSocket' /\ OneMessage' /\ InStep' /\ ~ Doomed'
           /\ \A k \in Conns : link'[k].req = link[k].req
  <1>t. TypeOK
    BY DEF Inductive
  <1>1. /\ link \in [Conns -> Links(Request, Reply)]
        /\ conn \in Conns \cup {NoConn}
    BY <1>t DEF TypeOK, ClientTypeOK
  <1>2. link' \in [Conns -> Links(Request, Reply)]
    BY <1>1, WireTypes DEF HungUp
  <1>3. \A k \in Conns : /\ link'[k].st = IF k = conn THEN "down" ELSE link[k].st
                         /\ link'[k].req = link[k].req
                         /\ link'[k].rep = IF k = conn THEN <<>> ELSE link[k].rep
    BY <1>1, HungUpFields
  <1>4. SubWire
    BY <1>3, Empty DEF SubWire, SubReq, SubRep
  <1>5. OneSocket'
    BY <1>3 DEF OneSocket, Inductive
  <1>6. OneMessage'
    BY <1>3, Empty DEF OneMessage, Inductive
  <1> QED
    BY <1>2, <1>3, <1>4, <1>5, <1>6 DEF InStep, Doomed

\* The client dials, having let go of what it had.
LEMMA Dial ==
    ASSUME Inductive, NEW k \in Conns, Free(k), job[k].stage = "reading",
           link' = [HungUp(conn) EXCEPT ![k].st = "up"], conn' = k, job' = job
    PROVE  /\ link' \in [Conns -> Links(Request, Reply)]
           /\ SubWire /\ OneSocket' /\ OneMessage' /\ InStep' /\ ~ Doomed'
           /\ \A j \in Conns : link'[j].req = link[j].req
  <1>t. TypeOK
    BY DEF Inductive
  <1>1. /\ link \in [Conns -> Links(Request, Reply)]
        /\ conn \in Conns \cup {NoConn}
    BY <1>t DEF TypeOK, ClientTypeOK
  <1>2. HungUp(conn) \in [Conns -> Links(Request, Reply)]
    BY <1>1, WireTypes DEF HungUp
  <1>3. link[k].st = "down" /\ link[k].req = <<>> /\ link[k].rep = <<>>
    BY DEF Free, Down
  <1>4. k # conn
    BY <1>3, NoConnAssumption DEF Inductive, OneSocket
  <1>5. \A j \in Conns : /\ HungUp(conn)[j].st = IF j = conn THEN "down" ELSE link[j].st
                         /\ HungUp(conn)[j].req = link[j].req
                         /\ HungUp(conn)[j].rep = IF j = conn THEN <<>> ELSE link[j].rep
    BY <1>1, HungUpFields
  <1>6. link' \in [Conns -> Links(Request, Reply)]
    BY <1>2 DEF Links
  <1>7. \A j \in Conns : /\ link'[j].st = IF j = k THEN "up" ELSE HungUp(conn)[j].st
                         /\ link'[j].req = HungUp(conn)[j].req
                         /\ link'[j].rep = HungUp(conn)[j].rep
    BY <1>2 DEF Links
  <1>8. \A j \in Conns : /\ link'[j].st = IF j = k THEN "up"
                                          ELSE IF j = conn THEN "down" ELSE link[j].st
                         /\ link'[j].req = link[j].req
                         /\ link'[j].rep = IF j = conn THEN <<>> ELSE link[j].rep
    BY <1>5, <1>7
  <1>9. SubWire
    BY <1>8, Empty DEF SubWire, SubReq, SubRep
  <1>10. OneSocket'
    BY <1>8 DEF OneSocket, Inductive
  <1>11. OneMessage'
    BY <1>8, Empty DEF OneMessage, Inductive
  <1>12. link'[k].req = <<>> /\ link'[k].rep = <<>> /\ link'[k].st = "up"
    BY <1>3, <1>4, <1>8
  <1>13. InStep' /\ ~ Doomed'
    BY <1>12, Empty DEF InStep, Idle, Doomed
  <1> QED
    BY <1>6, <1>8, <1>9, <1>10, <1>11, <1>13

\* Nothing happens on the wire.
LEMMA WireAlone ==
    ASSUME Inductive, UNCHANGED <<link, conn, job>>
    PROVE  SubWire /\ OneSocket' /\ OneMessage' /\ Doomed' = Doomed
  <1>1. SubWire
    BY DEF SubWire, SubReq, SubRep
  <1>2. OneSocket' /\ OneMessage'
    BY DEF Inductive, OneSocket, OneMessage
  <1>3. Doomed' = Doomed
    BY DEF Doomed
  <1> QED
    BY <1>1, <1>2, <1>3

\* A step of one call that leaves the others alone leaves them justified.
LEMMA OthersJustified ==
    ASSUME Inductive, TypeOK', HistoryKept, NEW i \in Calls, Justified(i)',
           \A j \in Calls \ {i} :
              /\ pc'[j] = pc[j] /\ op'[j] = op[j] /\ val'[j] = val[j]
              /\ budget'[j] = budget[j] /\ faults'[j] >= faults[j]
    PROVE  \A j \in Calls : Justified(j)'
  <1> SUFFICES ASSUME NEW j \in Calls, j # i PROVE Justified(j)'
    OBVIOUS
  <1>1. /\ hits[j] \in Nat /\ hits'[j] \in Nat /\ faults[j] \in Nat /\ faults'[j] \in Nat
        /\ budget[j] \in Nat
    BY DEF Inductive, TypeOK, ClientTypeOK
  <1>2. Justified(j)
    BY DEF Inductive
  <1> QED
    BY <1>1, <1>2 DEF Justified, HistoryKept

-----------------------------------------------------------------------------
\* The steps of the client.

\* What is left to show of a step of call i that adds nothing to the wire.
LEMMA ClientKeeps ==
    ASSUME Inductive, TypeOK', OpsKept, UNCHANGED <<job, hits, seen>>, SubWire,
           OneSocket', OneMessage', InStep', LockHeld', FaultsCharged',
           NEW i \in Calls, Justified(i)',
           \A j \in Calls \ {i} :
              /\ pc'[j] = pc[j] /\ op'[j] = op[j] /\ val'[j] = val[j]
              /\ budget'[j] = budget[j] /\ faults'[j] >= faults[j]
    PROVE  Inductive'
  <1>1. HistoryKept
    BY DEF HistoryKept, Inductive, TypeOK
  <1>2. Traced'
    BY <1>1, TracedKept DEF Inductive
  <1>3. \A j \in Calls : Justified(j)'
    BY <1>1, OthersJustified
  <1> QED
    BY <1>2, <1>3 DEF Inductive

LEMMA InvokeStep ==
    ASSUME Inductive, NEW i \in Calls, NEW o \in Ops, Invoke(i, o), UNCHANGED <<server, seen, hits>>
    PROVE  Inductive'
  <1>t. TypeOK
    BY DEF Inductive
  <1>0. /\ pc[i] = "new" /\ pc'[i] = "called"
        /\ \A j \in Calls \ {i} : pc'[j] = pc[j] /\ op'[j] = op[j]
        /\ UNCHANGED <<link, conn, job, mu, maxRetries, attempt, val, faults, budget, hits, seen>>
    BY <1>t DEF Invoke, server, TypeOK, ClientTypeOK
  <1>1. TypeOK'
    BY <1>t DEF Invoke, server, TypeOK, ClientTypeOK, Waiting
  <1>2. mu # i /\ mu \in Calls \cup {NoCall}
    BY <1>0, <1>t DEF Inductive, LockHeld, Active, TypeOK, ClientTypeOK
  <1>3. SubWire /\ OneSocket' /\ OneMessage' /\ Doomed' = Doomed
    BY <1>0, WireAlone
  <1>4. InStep'
    BY <1>0, <1>2 DEF Inductive, InStep, Idle
  <1>5. LockHeld'
    BY <1>0, <1>2 DEF Inductive, LockHeld, Active, IsData
  <1>6. FaultsCharged'
    BY <1>0, <1>2, <1>3 DEF Inductive, FaultsCharged
  <1>7. OpsKept
    BY <1>0 DEF OpsKept
  <1>8. Justified(i)'
    BY <1>0 DEF Justified
  <1>9. \A j \in Calls : faults[j] \in Nat
    BY <1>t DEF TypeOK, ClientTypeOK
  <1> QED
    BY <1>0, <1>1, <1>3, <1>4, <1>5, <1>6, <1>7, <1>8, <1>9, ClientKeeps

\* Up to the mutex, and without it.
LEMMA LocalStep ==
    ASSUME Inductive, NEW i \in Calls, ReturnLocally(i) \/ Proceed(i), UNCHANGED <<server, seen, hits>>
    PROVE  Inductive'
  <1>t. TypeOK
    BY DEF Inductive
  <1>0. /\ pc[i] = "called"
        /\ \A j \in Calls \ {i} : pc'[j] = pc[j]
        /\ UNCHANGED <<link, conn, job, mu, maxRetries, attempt, op, val, faults, budget, hits, seen>>
    BY <1>t DEF ReturnLocally, Proceed, server, TypeOK, ClientTypeOK
  <1>1. \/ pc'[i] = "rejected" /\ op[i].kind \in {"open", "invalid"}
        \/ pc'[i] = "ok" /\ op[i].kind = "read" /\ op[i].count = 0
        \/ pc'[i] = "blocked" /\ (op[i].kind = "read" => op[i].count > 0)
    BY <1>t DEF ReturnLocally, Proceed, TypeOK, ClientTypeOK
  <1>2. TypeOK'
    BY <1>t, <1>1 DEF ReturnLocally, Proceed, server, TypeOK, ClientTypeOK, Waiting, Returned
  <1>3. mu # i /\ mu \in Calls \cup {NoCall}
    BY <1>0, <1>t DEF Inductive, LockHeld, Active, TypeOK, ClientTypeOK
  <1>4. SubWire /\ OneSocket' /\ OneMessage' /\ Doomed' = Doomed
    BY <1>0, WireAlone
  <1>5. InStep'
    BY <1>0, <1>3 DEF Inductive, InStep, Idle
  <1>6. LockHeld'
    BY <1>0, <1>1, <1>3 DEF Inductive, LockHeld, Active
  <1>7. FaultsCharged'
    BY <1>0, <1>3, <1>4 DEF Inductive, FaultsCharged
  <1>8. OpsKept
    BY <1>0, <1>1 DEF OpsKept
  <1>9. Justified(i)'
    BY <1>0, <1>1 DEF Justified, IsData
  <1>10. \A j \in Calls : faults[j] \in Nat
    BY <1>t DEF TypeOK, ClientTypeOK
  <1> QED
    BY <1>0, <1>2, <1>4, <1>5, <1>6, <1>7, <1>8, <1>9, <1>10, ClientKeeps

LEMMA AcquireStep ==
    ASSUME Inductive, NEW i \in Calls, Acquire(i), UNCHANGED <<server, seen, hits>>
    PROVE  Inductive'
  <1>t. TypeOK
    BY DEF Inductive
  <1>0. /\ pc[i] = "blocked" /\ pc'[i] = "attempt" /\ IsData(op[i])
        /\ mu = NoCall /\ mu' = i /\ attempt' = 0
        /\ budget'[i] = maxRetries /\ maxRetries \in Nat
        /\ faults'[i] = IF conn = NoConn \/ Live THEN 0 ELSE 1
        /\ \A j \in Calls \ {i} : /\ pc'[j] = pc[j] /\ budget'[j] = budget[j]
                                  /\ faults'[j] = faults[j] /\ faults[j] \in Nat
        /\ UNCHANGED <<link, conn, job, maxRetries, op, val, hits, seen>>
    BY <1>t DEF Acquire, server, TypeOK, ClientTypeOK
  <1>1. TypeOK'
    BY <1>t DEF Acquire, server, TypeOK, ClientTypeOK, Waiting
  <1>2. SubWire /\ OneSocket' /\ OneMessage' /\ Doomed' = Doomed
    BY <1>0, WireAlone
  <1>3. conn # NoConn => Idle(conn)
    BY <1>0 DEF Inductive, InStep
  <1>4. InStep'
    <2>1. conn # NoConn => Idle(conn)'
      BY <1>0, <1>3 DEF Idle
    <2>2. conn # NoConn => DOMAIN link'[conn].req = {} /\ DOMAIN link'[conn].rep = {}
                           /\ job'[conn].stage = "reading"
      BY <1>0, <1>3, Empty DEF Idle
    <2> QED
      BY <1>0, <2>1, <2>2 DEF InStep, Idle
  <1>5. LockHeld'
    BY <1>0, CallAssumption DEF Inductive, LockHeld, Active
  <1>6. FaultsCharged'
    <2>1. Doomed <=> conn # NoConn /\ ~ Live
      BY <1>3, Empty DEF Doomed, Live, Idle
    <2> QED
      BY <1>0, <1>2, <2>1, CallAssumption DEF FaultsCharged
  <1>7. OpsKept
    BY <1>0 DEF OpsKept
  <1>8. Justified(i)'
    BY <1>0 DEF Justified
  <1> QED
    BY <1>0, <1>1, <1>2, <1>4, <1>5, <1>6, <1>7, <1>8, ClientKeeps

\* What is known inside sendRequest.
LEMMA Holder ==
    ASSUME Inductive, NEW i \in Calls, pc[i] \in Active
    PROVE  /\ mu = i /\ i # NoCall /\ IsData(op[i])
           /\ \A j \in Calls \ {i} : pc[j] \notin Active
           /\ budget[i] = maxRetries /\ attempt \in Nat /\ maxRetries \in Nat
           /\ attempt <= maxRetries
           /\ faults[i] \in Nat
           /\ faults[i] >= attempt
           /\ pc[i] = "reconnecting" \/ Doomed => faults[i] >= attempt + 1
           /\ pc[i] = "await" => conn # NoConn
           /\ pc[i] = "reconnecting" => conn = NoConn
           /\ op[i].kind = "read" => op[i].count > 0
  <1>1. attempt \in Nat /\ maxRetries \in Nat /\ faults[i] \in Nat
    BY DEF Inductive, TypeOK, ClientTypeOK
  <1>2. mu = i /\ i # NoCall
    BY CallAssumption DEF Inductive, LockHeld
  <1>3. faults[i] >= attempt + IF pc[i] = "reconnecting" \/ Doomed THEN 1 ELSE 0
    BY <1>2 DEF Inductive, FaultsCharged
  <1>4. /\ faults[i] >= attempt
        /\ pc[i] = "reconnecting" \/ Doomed => faults[i] >= attempt + 1
    BY <1>1, <1>3
  <1> QED
    BY <1>1, <1>2, <1>4 DEF Inductive, LockHeld

\* An attempt that fails, of whatever cause, has cost a fault.
LEMMA FailureStep ==
    ASSUME Inductive, NEW i \in Calls,
           ConnectFail(i) \/ TransmitFail(i) \/ RefuseReply(i) \/ ReceiveFail(i),
           UNCHANGED <<server, seen, hits>>
    PROVE  Inductive'
  <1>t. TypeOK
    BY DEF Inductive
  <1>0. /\ pc[i] \in {"attempt", "await"} /\ pc'[i] = "reconnecting"
        /\ link' = HungUp(conn) /\ conn' = NoConn
        /\ faults' \in {faults, MoreFaults(i)}
        /\ \A j \in Calls \ {i} : pc'[j] = pc[j]
        /\ UNCHANGED <<job, mu, maxRetries, attempt, op, val, budget, hits, seen>>
    BY <1>t DEF ConnectFail, TransmitFail, RefuseReply, ReceiveFail, AttemptFailed, DropConn,
                server, TypeOK, ClientTypeOK
  <1>1. /\ mu = i /\ i # NoCall /\ attempt \in Nat /\ attempt <= budget[i] /\ faults[i] >= attempt
        /\ Doomed => faults[i] >= attempt + 1
        /\ \A j \in Calls \ {i} : pc[j] \notin Active
    BY <1>0, Holder DEF Active
  <1>2. /\ link' \in [Conns -> Links(Request, Reply)]
        /\ SubWire /\ OneSocket' /\ OneMessage' /\ InStep' /\ ~ Doomed'
    BY <1>0, HangUp
  <1>3. /\ faults' \in [Calls -> Nat]
        /\ \A j \in Calls : faults'[j] >= faults[j]
    BY <1>0, <1>t, MoreFaultsFacts DEF TypeOK, ClientTypeOK
  <1>4. TypeOK'
    BY <1>t, <1>2, <1>3
    DEF ConnectFail, TransmitFail, RefuseReply, ReceiveFail, AttemptFailed, DropConn, server,
        TypeOK, ClientTypeOK, Waiting
  <1>5. faults'[i] >= attempt + 1
    <2>1. CASE faults' = MoreFaults(i)
      BY <1>1, <1>t, <2>1, MoreFaultsFacts
    <2>2. CASE faults' # MoreFaults(i)
      <3>1. \/ conn # NoConn /\ ~ Live
            \/ conn # NoConn /\ link[conn].rep # <<>> /\ Head(link[conn].rep).end = "error"
        <4>1. pc[i] = "await" => conn # NoConn
          BY <1>0, Holder DEF Active
        <4> QED
          BY <1>0, <2>2, <4>1 DEF ConnectFail, TransmitFail, RefuseReply, ReceiveFail
      <3>2. Doomed
        <4>1. CASE conn # NoConn /\ ~ Live
          BY <4>1 DEF Doomed, Live
        <4>2. CASE conn # NoConn /\ link[conn].rep # <<>> /\ Head(link[conn].rep).end = "error"
          <5>1. conn \in Conns /\ link[conn].rep \in Seq(Reply)
            BY <1>t, <4>2, LinkFacts DEF TypeOK, ClientTypeOK
          <5>2. 1 \in DOMAIN link[conn].rep /\ Head(link[conn].rep) = link[conn].rep[1]
            BY <4>2, <5>1, HeadFacts
          <5> QED
            BY <4>2, <5>2 DEF Doomed
        <4> QED
          BY <3>1, <4>1, <4>2
      <3> QED
        BY <1>0, <1>1, <2>2, <3>2
    <2> QED
      BY <2>1, <2>2
  <1>6. LockHeld'
    BY <1>0, <1>1 DEF Inductive, LockHeld, Active
  <1>7. FaultsCharged'
    BY <1>0, <1>1, <1>5 DEF FaultsCharged
  <1>8. OpsKept
    BY <1>0 DEF OpsKept
  <1>9. Justified(i)'
    BY <1>0 DEF Justified
  <1> QED
    BY <1>0, <1>2, <1>3, <1>4, <1>6, <1>7, <1>8, <1>9, ClientKeeps

\* An attempt without a connection dials.
LEMMA ConnectStep ==
    ASSUME Inductive, NEW i \in Calls, NEW k \in Conns, job[k] = Resting, Connect(i, k),
           UNCHANGED <<server, seen, hits>>
    PROVE  Inductive'
  <1>t. TypeOK
    BY DEF Inductive
  <1>0. /\ pc[i] = "attempt" /\ conn = NoConn /\ conn' = k /\ Free(k)
        /\ link' = [HungUp(conn) EXCEPT ![k].st = "up"]
        /\ job[k].stage = "reading"
        /\ UNCHANGED <<version, job, mu, maxRetries, attempt, pc, op, val, faults, budget, hits, seen>>
        /\ UNCHANGED server
    BY DEF Connect, calls, server, Resting, HungUp, Dialled
  <1>1. mu = i /\ i # NoCall /\ attempt \in Nat /\ faults[i] \in Nat /\ faults[i] >= attempt
    BY <1>0, Holder DEF Active
  <1>2. /\ link' \in [Conns -> Links(Request, Reply)]
        /\ SubWire /\ OneSocket' /\ OneMessage' /\ InStep' /\ ~ Doomed'
    BY <1>0, Dial
  <1>3. TypeOK'
    BY <1>t, <1>0, <1>2 DEF server, TypeOK, ClientTypeOK
  <1>4. LockHeld'
    BY <1>0, <1>1 DEF Inductive, LockHeld
  <1>5. FaultsCharged'
    BY <1>0, <1>1, <1>2 DEF FaultsCharged
  <1>6. OpsKept
    BY <1>0 DEF OpsKept
  <1>7. Justified(i)'
    BY <1>0 DEF Justified
  <1>8. \A j \in Calls : faults[j] \in Nat
    BY <1>t DEF TypeOK, ClientTypeOK
  <1> QED
    BY <1>0, <1>2, <1>3, <1>4, <1>5, <1>6, <1>7, <1>8, ClientKeeps

\* After a failed attempt comes the next one, if the policy has one left, with
\* or without a new connection.
LEMMA RedialStep ==
    ASSUME Inductive, NEW i \in Calls, UNCHANGED <<server, seen, hits>>,
           \/ RedialFail(i)
           \/ \E k \in Conns : job[k] = Resting /\ Redial(i, k)
    PROVE  Inductive'
  <1>t. TypeOK
    BY DEF Inductive
  <1>0. /\ pc[i] = "reconnecting" /\ NextAttempt(i)
        /\ UNCHANGED <<version, job, maxRetries, op, val, faults, budget, hits, seen>>
        /\ UNCHANGED server
    BY DEF RedialFail, Redial, server
  <1>1. /\ mu = i /\ i # NoCall /\ attempt \in Nat /\ maxRetries \in Nat /\ IsData(op[i])
        /\ faults[i] \in Nat /\ faults[i] >= attempt + 1 /\ conn = NoConn
        /\ budget[i] = maxRetries /\ attempt <= maxRetries
        /\ \A j \in Calls \ {i} : pc[j] \notin Active
    BY <1>0, Holder DEF Active
  <1>2. \/ /\ attempt < maxRetries /\ attempt' = attempt + 1
           /\ pc' = [pc EXCEPT ![i] = "attempt"] /\ mu' = mu
        \/ /\ attempt >= maxRetries /\ attempt' = 0
           /\ pc' = [pc EXCEPT ![i] = "failed"] /\ mu' = NoCall
    BY <1>0, <1>1 DEF NextAttempt, MoreAttempts, Return
  <1>3. /\ link' \in [Conns -> Links(Request, Reply)]
        /\ conn' \in Conns \cup {NoConn}
        /\ SubWire /\ OneSocket' /\ OneMessage' /\ InStep' /\ ~ Doomed'
    <2>1. CASE RedialFail(i)
      <3>1. UNCHANGED <<link, conn>>
        BY <2>1 DEF RedialFail
      <3>2. InStep' /\ ~ Doomed'
        BY <1>1, <3>1 DEF InStep, Doomed
      <3> QED
        BY <1>0, <1>t, <3>1, <3>2, WireAlone DEF TypeOK, ClientTypeOK
    <2>2. ASSUME NEW k \in Conns, job[k] = Resting, Redial(i, k)
          PROVE  /\ link' \in [Conns -> Links(Request, Reply)] /\ conn' = k
                 /\ SubWire /\ OneSocket' /\ OneMessage' /\ InStep' /\ ~ Doomed'
      <3>1. /\ Free(k) /\ conn' = k /\ job[k].stage = "reading"
            /\ link' = [HungUp(conn) EXCEPT ![k].st = "up"]
        BY <1>1, <2>2 DEF Redial, Resting, HungUp, Dialled
      <3> QED
        BY <1>0, <3>1, Dial
    <2> QED
      BY <2>1, <2>2
  <1>4. TypeOK'
    BY <1>t, <1>0, <1>1, <1>2, <1>3 DEF server, TypeOK, ClientTypeOK, Waiting, Returned
  <1>5. pc \in [Calls -> {"new"} \cup Waiting \cup Returned]
    BY <1>t DEF TypeOK, ClientTypeOK
  <1>6. LockHeld'
    BY <1>0, <1>1, <1>2, <1>5, CallAssumption DEF Inductive, LockHeld, Active
  <1>7. FaultsCharged'
    BY <1>0, <1>1, <1>2, <1>3, <1>5 DEF FaultsCharged
  <1>8. OpsKept
    BY <1>0, <1>2, <1>5 DEF OpsKept
  <1>9. Justified(i)'
    BY <1>0, <1>1, <1>2, <1>5 DEF Justified
  <1>10. \A j \in Calls : faults[j] \in Nat
    BY <1>t DEF TypeOK, ClientTypeOK
  <1>11. \A j \in Calls \ {i} : pc'[j] = pc[j]
    BY <1>2, <1>5
  <1> QED
    BY <1>0, <1>3, <1>4, <1>6, <1>7, <1>8, <1>9, <1>10, <1>11, ClientKeeps

\* A call that has taken a reply has the words that the server found for it.
LEMMA TakeReplyStep ==
    ASSUME Inductive, NEW i \in Calls, TakeReply(i), UNCHANGED <<server, seen, hits>>
    PROVE  Inductive'
  <1> DEFINE r == Head(link[conn].rep)
             wanted == IF op[i].kind = "read" THEN op[i].count ELSE 0
  <1>t. TypeOK
    BY DEF Inductive
  <1>0. /\ pc[i] = "await" /\ link[conn].rep # <<>> /\ r.end = "zero"
        /\ mu' = NoCall /\ attempt' = 0 /\ link' = Consumed(conn)
        /\ UNCHANGED <<version, conn, job, maxRetries, op, faults, budget, hits, seen>>
        /\ UNCHANGED server
    BY DEF TakeReply, Return, server
  <1>1. /\ mu = i /\ i # NoCall /\ IsData(op[i]) /\ conn # NoConn
        /\ op[i].kind = "read" => op[i].count > 0
        /\ \A j \in Calls \ {i} : pc[j] \notin Active
    BY <1>0, Holder DEF Active
  <1>2. /\ conn \in Conns /\ link \in [Conns -> Links(Request, Reply)]
        /\ link[conn].rep \in Seq(Reply) /\ link[conn].req \in Seq(Request)
    BY <1>1, <1>t, LinkFacts DEF TypeOK, ClientTypeOK
  <1>3. /\ r = link[conn].rep[1] /\ 1 \in DOMAIN link[conn].rep /\ r \in Reply
        /\ Tail(link[conn].rep) = <<>> /\ link[conn].req = <<>>
        /\ job[conn].stage = "reading"
    <2>1. Len(link[conn].rep) <= 1
      BY <1>2 DEF Inductive, OneMessage
    <2>2. link[conn].req = <<>> /\ job[conn].stage = "reading"
      BY <1>0, <1>2 DEF Inductive, OneMessage
    <2>3. 1 \in {1}
      OBVIOUS
    <2> QED
      BY <1>0, <1>2, <2>1, <2>2, <2>3, Single
  <1>4. r.call = i /\ Found(i, r.words)
    BY <1>0, <1>1, <1>2, <1>3 DEF Inductive, InStep, Traced, TracedRep
  <1>5. /\ op[i].count \in 0 .. MaxWords /\ MaxWords \in Nat
        /\ r.words \in Runs
        /\ op[i].kind \in {"read", "write"}
    BY <1>1, <1>3, <1>t, OpFacts, AddrAssumption DEF Reply, IsData
  <1>6. r.words \in Seq(Words) /\ Len(r.words) \in Nat
    <2>1. PICK m \in 0 .. MaxWords : r.words \in [1 .. m -> Words]
      BY <1>5 DEF Runs
    <2> QED
      BY <1>5, <2>1
  <1>7. Len(r.words) >= wanted
    BY <1>4, <1>5, <1>6 DEF Found
  <1>8. pc' = [pc EXCEPT ![i] = "ok"] /\ val' = [val EXCEPT ![i] = SubSeq(r.words, 1, wanted)]
    BY <1>5, <1>6, <1>7 DEF TakeReply, Return
  <1>9. /\ SubSeq(r.words, 1, wanted) \in Runs
        /\ op[i].kind = "read" => SubSeq(r.words, 1, wanted) = r.words
    <2>1. CASE op[i].kind = "read"
      <3>1. wanted = Len(r.words)
        BY <1>4, <2>1 DEF Found
      <3>2. SubSeq(r.words, 1, Len(r.words)) = r.words
        <4> HIDE DEF r
        <4> QED
          BY <1>6
      <3> QED
        BY <1>5, <3>1, <3>2
    <2>2. CASE op[i].kind = "write"
      <3>1. wanted = 0
        BY <2>2
      <3>2. SubSeq(r.words, 1, 0) = <<>>
        <4> HIDE DEF r
        <4> QED
          BY <1>6
      <3> QED
        BY <2>2, <3>1, <3>2, RunFacts
    <2> QED
      BY <1>5, <2>1, <2>2
  <1>10. \A k \in Conns : /\ link'[k].st = link[k].st /\ link'[k].req = link[k].req
                          /\ link'[k].rep = IF k = conn THEN <<>> ELSE link[k].rep
    BY <1>0, <1>2, <1>3, ConsumedFields
  <1>11. link' \in [Conns -> Links(Request, Reply)]
    BY <1>0, <1>2, WireTypes
  <1> HIDE DEF r
  <1>12. TypeOK'
    BY <1>t, <1>0, <1>8, <1>9, <1>11 DEF server, TypeOK, ClientTypeOK, Waiting, Returned
  <1>13. SubWire
    BY <1>10, Empty DEF SubWire, SubReq, SubRep
  <1>14. OneSocket' /\ OneMessage'
    <2>1. OneSocket'
      BY <1>0, <1>2, <1>10 DEF Inductive, OneSocket
    <2>2. OneMessage'
      BY <1>0, <1>2, <1>10, Empty DEF Inductive, OneMessage
    <2> QED
      BY <2>1, <2>2
  <1>15. InStep'
    BY <1>0, <1>2, <1>3, <1>10, Empty DEF InStep, Idle
  <1>16. pc \in [Calls -> {"new"} \cup Waiting \cup Returned] /\ val \in [Calls -> Runs]
    BY <1>t DEF TypeOK, ClientTypeOK
  <1>17. LockHeld'
    BY <1>0, <1>1, <1>8, <1>16, CallAssumption DEF Inductive, LockHeld, Active
  <1>18. FaultsCharged'
    BY <1>0 DEF FaultsCharged
  <1>19. OpsKept
    BY <1>0, <1>8, <1>16 DEF OpsKept
  <1>20. Justified(i)'
    BY <1>0, <1>4, <1>8, <1>9, <1>16 DEF Justified, Found
  <1>21. \A j \in Calls : faults[j] \in Nat
    BY <1>t DEF TypeOK, ClientTypeOK
  <1>22. \A j \in Calls \ {i} : pc'[j] = pc[j] /\ val'[j] = val[j]
    BY <1>8, <1>16
  <1> QED
    BY <1>0, <1>12, <1>13, <1>14, <1>15, <1>17, <1>18, <1>19, <1>20, <1>21, <1>22, ClientKeeps

\* A request goes out on a connection that carries nothing.
LEMMA TransmitStep ==
    ASSUME Inductive, NEW i \in Calls, Transmit(i), UNCHANGED <<server, seen, hits>>
    PROVE  Inductive'
  <1>t. TypeOK
    BY DEF Inductive
  <1>0. /\ pc[i] = "attempt" /\ pc'[i] = "await" /\ conn # NoConn
        /\ link' = Written(conn, RequestOf(i))
        /\ \A j \in Calls \ {i} : pc'[j] = pc[j]
        /\ UNCHANGED <<version, conn, job, mu, maxRetries, attempt, op, val, faults, budget, hits, seen>>
        /\ UNCHANGED server
    BY <1>t DEF Transmit, server, TypeOK, ClientTypeOK
  <1>1. /\ mu = i /\ i # NoCall /\ IsData(op[i]) /\ attempt \in Nat
        /\ faults[i] \in Nat /\ faults[i] >= attempt /\ (Doomed => faults[i] >= attempt + 1)
        /\ \A j \in Calls \ {i} : pc[j] \notin Active
    BY <1>0, Holder DEF Active
  <1>2. conn \in Conns /\ link \in [Conns -> Links(Request, Reply)]
    BY <1>0, <1>t DEF TypeOK, ClientTypeOK
  <1>3. Idle(conn)
    BY <1>0, <1>1 DEF Inductive, InStep
  <1>4. PICK q \in Request : q = RequestOf(i) /\ q.call = i
    BY <1>1, <1>t, OpFacts
  <1>5. link' \in [Conns -> Links(Request, Reply)]
    BY <1>0, <1>2, <1>4, WireTypes
  <1>6. \A k \in Conns :
            /\ link'[k].st = link[k].st /\ link'[k].rep = link[k].rep
            /\ link'[k].req = IF k = conn /\ link[k].st = "up" THEN <<q>> ELSE link[k].req
    <2>1. \A k \in Conns :
            /\ link'[k].st = link[k].st /\ link'[k].rep = link[k].rep
            /\ link'[k].req = IF k = conn /\ link[k].st = "up"
                              THEN Append(link[k].req, q) ELSE link[k].req
      BY <1>0, <1>2, <1>4, WrittenFields
    <2>2. Append(link[conn].req, q) = <<q>>
      BY <1>3, OneAppended DEF Idle
    <2> QED
      BY <2>1, <2>2
  <1>7. TypeOK'
    BY <1>t, <1>5 DEF Transmit, server, TypeOK, ClientTypeOK, Waiting
  <1>8. OpsKept /\ HistoryKept
    BY <1>0, <1>t DEF OpsKept, HistoryKept, TypeOK
  <1>9. Traced'
    <2>1. ASSUME NEW k \in Conns
          PROVE  TracedReq(k)'
      <3>1. CASE k = conn /\ link[k].st = "up"
        <4>1. Sent(q)'
          <5>1. pc'[i] # "new" /\ IsData(op'[i]) /\ q = RequestOf(i)'
            BY <1>0, <1>1, <1>4 DEF RequestOf, IsData
          <5> QED
            BY <1>4, <5>1 DEF Sent
        <4>2. ASSUME NEW n \in DOMAIN link'[k].req
              PROVE  Sent(link[k].req[n])'
          <5>1. link'[k].req[n] = q
            BY <1>6, <3>1, <4>2, OneAppended
          <5> QED
            BY <4>1, <5>1 DEF Sent, RequestOf
        <4> QED
          BY <4>2 DEF TracedReq
      <3>2. CASE ~ (k = conn /\ link[k].st = "up")
        BY <1>6, <1>8, <3>2, ReqKept DEF Inductive, SubReq
      <3> QED
        BY <3>1, <3>2
    <2>2. \A k \in Conns : TracedRep(k)'
      BY <1>t, <1>6, <1>7, <1>8, RepKept DEF Inductive, SubRep
    <2>3. \A k \in Conns : TracedJob(k)'
      BY <1>t, <1>0, <1>7, <1>8, JobKept DEF Inductive
    <2> QED
      BY <2>1, <2>2, <2>3 DEF Traced
  <1>10. OneSocket'
    BY <1>0, <1>2, <1>6 DEF Inductive, OneSocket
  <1>11. OneMessage'
    <2>1. ASSUME NEW k \in Conns
          PROVE  /\ Len(link'[k].req) <= 1 /\ Len(link'[k].rep) <= 1
                 /\ link'[k].req # <<>> => link'[k].rep = <<>> /\ job'[k].stage = "reading"
                 /\ link'[k].rep # <<>> => job'[k].stage = "reading"
      <3>1. CASE k = conn /\ link[k].st = "up"
        <4>1. Len(link'[k].req) = 1 /\ link'[k].rep = <<>> /\ job'[k].stage = "reading"
          BY <1>0, <1>3, <1>6, <3>1, OneAppended DEF Idle
        <4> QED
          BY <4>1, Empty
      <3>2. CASE ~ (k = conn /\ link[k].st = "up")
        BY <1>0, <1>6, <3>2 DEF Inductive, OneMessage
      <3> QED
        BY <3>1, <3>2
    <2> QED
      BY <2>1 DEF OneMessage
  <1>12. InStep'
    <2>1. \A n \in DOMAIN link'[conn].req : link'[conn].req[n] = q
      BY <1>2, <1>3, <1>6, OneAppended, Empty DEF Idle
    <2>2. DOMAIN link'[conn].rep = {} /\ job'[conn].stage = "reading"
      BY <1>0, <1>2, <1>3, <1>6, Empty DEF Idle
    <2> QED
      BY <1>0, <1>1, <1>4, <2>1, <2>2 DEF InStep
  <1>13. LockHeld'
    BY <1>0, <1>1 DEF Inductive, LockHeld, Active
  <1>14. Doomed' => Doomed
    BY <1>0, <1>2, <1>6 DEF Doomed
  <1>15. FaultsCharged'
    BY <1>0, <1>1, <1>14 DEF FaultsCharged
  <1>16. \A j \in Calls : Justified(j)'
    <2>1. Justified(i)'
      BY <1>0 DEF Justified
    <2>2. \A j \in Calls : faults[j] \in Nat
      BY <1>t DEF TypeOK, ClientTypeOK
    <2> QED
      BY <1>0, <1>7, <1>8, <2>1, <2>2, OthersJustified
  <1> QED
    BY <1>7, <1>9, <1>10, <1>11, <1>12, <1>13, <1>15, <1>16 DEF Inductive

\* Open and Close are one critical section each.
LEMMA OpenCloseStep ==
    ASSUME Inductive, NEW i \in Calls, UNCHANGED <<server, seen, hits>>,
           \/ OpenFail(i) \/ Close(i)
           \/ \E k \in Conns : job[k] = Resting /\ Open(i, k)
    PROVE  Inductive'
  <1>t. TypeOK
    BY DEF Inductive
  <1>0. /\ pc[i] = "blocked" /\ op[i].kind \in {"open", "close"} /\ mu = NoCall
        /\ \E outcome \in {"ok", "failed"} : pc' = [pc EXCEPT ![i] = outcome]
        /\ UNCHANGED <<version, job, mu, maxRetries, attempt, op, val, faults, budget, hits, seen>>
        /\ UNCHANGED server
    BY DEF OpenFail, Close, Open, server
  <1>1. pc \in [Calls -> {"new"} \cup Waiting \cup Returned]
    BY <1>t DEF TypeOK, ClientTypeOK
  <1>2. /\ pc'[i] \in {"ok", "failed"}
        /\ \A j \in Calls \ {i} : pc'[j] = pc[j]
        /\ pc' \in [Calls -> {"new"} \cup Waiting \cup Returned]
    BY <1>0, <1>1 DEF Returned
  <1>3. /\ link' \in [Conns -> Links(Request, Reply)]
        /\ conn' \in Conns \cup {NoConn}
        /\ SubWire /\ OneSocket' /\ OneMessage' /\ InStep'
    <2>1. CASE OpenFail(i) \/ Close(i)
      <3>1. link' = HungUp(conn) /\ conn' = NoConn
        BY <2>1 DEF OpenFail, Close
      <3> QED
        BY <1>0, <3>1, HangUp
    <2>2. ASSUME NEW k \in Conns, job[k] = Resting, Open(i, k)
          PROVE  /\ link' \in [Conns -> Links(Request, Reply)] /\ conn' = k
                 /\ SubWire /\ OneSocket' /\ OneMessage' /\ InStep'
      <3>1. /\ Free(k) /\ conn' = k /\ job[k].stage = "reading"
            /\ link' = [HungUp(conn) EXCEPT ![k].st = "up"]
        BY <2>2 DEF Open, Resting, OldClosed
      <3> QED
        BY <1>0, <3>1, Dial
    <2> QED
      BY <2>1, <2>2
  <1>4. TypeOK'
    BY <1>t, <1>0, <1>2, <1>3 DEF server, TypeOK, ClientTypeOK
  <1>5. LockHeld'
    BY <1>0, <1>2, CallAssumption DEF Inductive, LockHeld, Active
  <1>6. FaultsCharged'
    BY <1>0 DEF FaultsCharged
  <1>7. OpsKept
    BY <1>0, <1>2 DEF OpsKept
  <1>8. Justified(i)'
    BY <1>0, <1>2 DEF Justified, IsData
  <1>9. \A j \in Calls : faults[j] \in Nat
    BY <1>t DEF TypeOK, ClientTypeOK
  <1> QED
    BY <1>0, <1>2, <1>3, <1>4, <1>5, <1>6, <1>7, <1>8, <1>9, ClientKeeps

\* A policy that is set while no call is in sendRequest is nobody's yet.
LEMMA PolicyStep ==
    ASSUME Inductive, NEW n \in Policies, SetRetryPolicy(n), UNCHANGED <<server, seen, hits>>
    PROVE  Inductive'
  <1>t. TypeOK
    BY DEF Inductive
  <1>0. /\ mu = NoCall
        /\ UNCHANGED <<link, version, conn, job, mu, attempt, pc, op, val, faults, budget, hits, seen>>
        /\ UNCHANGED server
    BY DEF SetRetryPolicy, calls, server
  <1>1. maxRetries' \in Nat
    BY PolicyAssumption DEF SetRetryPolicy, NotNegative
  <1>2. TypeOK'
    BY <1>t, <1>0, <1>1 DEF server, TypeOK, ClientTypeOK
  <1>3. SubWire /\ OneSocket' /\ OneMessage' /\ Doomed' = Doomed
    BY <1>0, WireAlone
  <1>4. OpsKept /\ HistoryKept
    BY <1>0, <1>t DEF OpsKept, HistoryKept, TypeOK
  <1>5. Traced'
    BY <1>t, <1>0, <1>2, <1>3, <1>4, TracedKept DEF Inductive
  <1>6. InStep'
    BY <1>0 DEF Inductive, InStep, Idle
  <1>7. LockHeld' /\ FaultsCharged'
    BY <1>0 DEF Inductive, LockHeld, Active, FaultsCharged
  <1>8. \A i \in Calls : Justified(i)'
    BY <1>0 DEF Inductive, Justified
  <1> QED
    BY <1>2, <1>3, <1>5, <1>6, <1>7, <1>8 DEF Inductive

LEMMA ClientStep ==
    ASSUME Inductive, ClientSteps
    PROVE  Inductive'
  <1>0. UNCHANGED <<server, seen, hits>>
    BY DEF ClientSteps
  <1>1. ASSUME NEW k \in Conns, job[k] = Resting, Dials(k)
        PROVE  Inductive'
    <2>1. PICK i \in Calls : Connect(i, k) \/ Redial(i, k) \/ Open(i, k)
      BY <1>1 DEF Dials
    <2> QED
      BY <1>0, <1>1, <2>1, ConnectStep, RedialStep, OpenCloseStep
  <1>2. ASSUME NEW i \in Calls, Enter(i)
        PROVE  Inductive'
    BY <1>0, <1>2, LocalStep, AcquireStep, OpenCloseStep DEF Enter
  <1>3. ASSUME NEW i \in Calls, Progress(i)
        PROVE  Inductive'
    BY <1>0, <1>3, FailureStep, TransmitStep, TakeReplyStep, RedialStep DEF Progress
  <1> QED
    BY <1>0, <1>1, <1>2, <1>3, InvokeStep, PolicyStep DEF ClientSteps

-----------------------------------------------------------------------------
\* The steps of the server.

\* What is left to show of a step of the server.
LEMMA ServerKeeps ==
    ASSUME Inductive, TypeOK', HistoryKept, OneSocket', OneMessage', InStep', Traced',
           UNCHANGED <<version, mu, conn, maxRetries, attempt, calls, budget>>,
           \A j \in Calls : faults'[j] >= faults[j],
           mu # NoCall /\ Doomed' => Doomed \/ faults'[mu] >= attempt + 1
    PROVE  Inductive'
  <1>t. TypeOK
    BY DEF Inductive
  <1>0. UNCHANGED <<mu, conn, maxRetries, attempt, pc, op, val, budget>>
    BY DEF calls
  <1>1. /\ \A j \in Calls : faults[j] \in Nat /\ faults'[j] \in Nat /\ budget[j] \in Nat
                            /\ hits[j] \in Nat /\ hits'[j] \in Nat
        /\ attempt \in Nat
        /\ mu \in Calls \cup {NoCall}
    BY <1>t DEF TypeOK, ClientTypeOK
  <1>2. LockHeld'
    BY <1>0 DEF Inductive, LockHeld, Active
  <1>3. FaultsCharged'
    <2>1. SUFFICES ASSUME mu # NoCall
                   PROVE  faults'[mu] >= attempt + IF pc[mu] = "reconnecting" \/ Doomed' THEN 1 ELSE 0
      BY <1>0 DEF FaultsCharged
    <2>2. mu \in Calls
      BY <1>1, <2>1
    <2>3. faults[mu] >= attempt + IF pc[mu] = "reconnecting" \/ Doomed THEN 1 ELSE 0
      BY <2>1 DEF Inductive, FaultsCharged
    <2>4. faults'[mu] >= faults[mu]
      BY <2>2
    <2>5. CASE pc[mu] = "reconnecting" \/ Doomed'
      <3>1. faults'[mu] >= attempt + 1
        BY <1>1, <2>1, <2>2, <2>3, <2>4, <2>5
      <3> QED
        BY <2>5, <3>1
    <2>6. CASE ~ (pc[mu] = "reconnecting" \/ Doomed')
      <3>1. faults'[mu] >= attempt
        BY <1>1, <2>2, <2>3, <2>4
      <3> QED
        BY <1>1, <2>6, <3>1
    <2> QED
      BY <2>5, <2>6
  <1>4. ASSUME NEW j \in Calls
        PROVE  Justified(j)'
    <2>1. Justified(j) /\ hits'[j] >= hits[j] /\ seen[j] \subseteq seen'[j]
      BY DEF Inductive, HistoryKept
    <2> QED
      BY <1>0, <1>1, <2>1 DEF Justified
  <1> QED
    BY <1>2, <1>3, <1>4 DEF Inductive

\* What is known of a job that the server is at.
LEMMA JobFacts ==
    ASSUME Inductive, NEW k \in Conns, job[k].stage # "reading"
    PROVE  /\ link[k].req = <<>> /\ link[k].rep = <<>>
           /\ job[k].req \in Request /\ job[k].words \in Runs
           /\ Sent(job[k].req)
           /\ job[k].req.call \in Calls
           /\ k = conn => mu # NoCall /\ job[k].req.call = mu
  <1>1. link[k].req = <<>> /\ link[k].rep = <<>>
    BY DEF Inductive, OneMessage
  <1>2. Sent(job[k].req)
    BY DEF Inductive, Traced, TracedJob
  <1>3. job[k].req \in Request /\ job[k].req.call \in Calls
    BY <1>2, OpFacts DEF Inductive, Sent
  <1>4. job[k].words \in Runs
    BY DEF Inductive, TypeOK, Jobs
  <1>5. k = conn => mu # NoCall /\ job[k].req.call = mu
    BY NoConnAssumption DEF Inductive, InStep, Idle
  <1> QED
    BY <1>1, <1>2, <1>3, <1>4, <1>5

LEMMA TakesStep ==
    ASSUME Inductive, NEW k \in Conns, ServerTakes(k)
    PROVE  Inductive'
  <1>t. TypeOK
    BY DEF Inductive
  <1> DEFINE q == Head(link[k].req)
             j2 == [stage |-> IF failNext \/ q.cmd = "other" THEN "refusing" ELSE "checked",
                    req |-> q, words |-> <<>>]
  <1>0. /\ job[k].stage = "reading" /\ link[k].req # <<>>
        /\ job' = [job EXCEPT ![k] = j2]
        /\ failNext' = FALSE
        /\ link' = Ignored(k)
        /\ faults' = IF failNext /\ k = conn THEN MoreFaults(q.call) ELSE faults
        /\ UNCHANGED <<mem, listening, version, mu, conn, maxRetries, attempt, calls, budget, seen, hits>>
    BY DEF ServerTakes, TakeRequest
  <1>1. /\ link \in [Conns -> Links(Request, Reply)]
        /\ link[k].req \in Seq(Request) /\ Len(link[k].req) <= 1
        /\ link[k].rep = <<>>
        /\ job \in [Conns -> Jobs]
    BY <1>0, <1>t, LinkFacts DEF TypeOK, Inductive, OneMessage
  <1>2. /\ q = link[k].req[1] /\ 1 \in DOMAIN link[k].req /\ q \in Request
        /\ Tail(link[k].req) = <<>>
    <2>1. 1 \in {1}
      OBVIOUS
    <2> QED
      BY <1>0, <1>1, <2>1, Single
  <1>3. /\ Sent(q) /\ q.call \in Calls /\ q.cmd # "other"
    <2>1. Sent(q)
      BY <1>2 DEF Inductive, Traced, TracedReq
    <2>2. q.cmd # "other"
      BY <1>t, <2>1, OpFacts DEF Sent, IsData
    <2> QED
      BY <2>1, <2>2 DEF Sent
  <1>4. k = conn => mu # NoCall /\ pc[mu] = "await" /\ q.call = mu
    BY <1>0, <1>2, NoConnAssumption DEF Inductive, InStep, Idle
  <1>5. \A j \in Conns : /\ link'[j].st = link[j].st /\ link'[j].rep = link[j].rep
                         /\ link'[j].req = IF j = k THEN <<>> ELSE link[j].req
    BY <1>0, <1>1, <1>2, IgnoredFields
  <1>6. link' \in [Conns -> Links(Request, Reply)]
    BY <1>0, <1>1, WireTypes
  <1>7. j2 \in Jobs
    BY <1>2, RunFacts DEF Jobs
  <1>8. /\ job' \in [Conns -> Jobs] /\ job'[k] = j2
        /\ \A j \in Conns \ {k} : job'[j] = job[j]
    BY <1>0, <1>1, <1>7
  <1>9. /\ faults' \in [Calls -> Nat]
        /\ \A j \in Calls : faults'[j] >= faults[j]
    BY <1>0, <1>3, <1>t, MoreFaultsFacts DEF TypeOK, ClientTypeOK
  <1>10. j2.stage = (IF failNext THEN "refusing" ELSE "checked") /\ j2.req = q
    BY <1>3
  <1> HIDE DEF q, j2
  <1>11. TypeOK'
    BY <1>t, <1>0, <1>6, <1>8, <1>9 DEF TypeOK, ClientTypeOK, calls
  <1>12. OpsKept /\ HistoryKept
    BY <1>0, <1>t DEF OpsKept, HistoryKept, TypeOK, calls
  <1>13. Traced'
    <2>1. \A j \in Conns : TracedReq(j)'
      BY <1>5, <1>12, ReqKept, Empty DEF Inductive, SubReq
    <2>2. \A j \in Conns : TracedRep(j)'
      BY <1>t, <1>5, <1>11, <1>12, RepKept DEF Inductive, SubRep
    <2>3. \A j \in Conns \ {k} : TracedJob(j)'
      BY <1>t, <1>8, <1>11, <1>12, JobKept DEF Inductive
    <2>4. TracedJob(k)'
      <3>1. PICK x : x = q
        OBVIOUS
      <3>2. Sent(x)'
        BY <1>3, <1>12, <3>1, SentKept
      <3>3. x = job'[k].req /\ job'[k].stage # "answering"
        BY <1>8, <1>10, <3>1
      <3> QED
        BY <3>2, <3>3 DEF TracedJob, Sent, RequestOf
    <2> QED
      BY <2>1, <2>2, <2>3, <2>4 DEF Traced
  <1>14. OneSocket'
    BY <1>0, <1>5 DEF Inductive, OneSocket, TypeOK, ClientTypeOK
  <1>15. OneMessage'
    BY <1>1, <1>5, <1>8, Empty DEF Inductive, OneMessage
  <1>16. InStep'
    <2>1. CASE k = conn
      BY <1>0, <1>1, <1>4, <1>5, <1>8, <1>10, <2>1, Empty DEF InStep, calls
    <2>2. CASE k # conn
      <3>1. conn # NoConn => /\ link'[conn].req = link[conn].req /\ link'[conn].rep = link[conn].rep
                             /\ job'[conn] = job[conn]
        BY <1>t, <1>5, <1>8, <2>2 DEF TypeOK, ClientTypeOK
      <3> QED
        BY <1>0, <3>1 DEF Inductive, InStep, Idle, calls
    <2> QED
      BY <2>1, <2>2
  <1>17. mu # NoCall /\ Doomed' => Doomed \/ faults'[mu] >= attempt + 1
    <2>1. SUFFICES ASSUME mu # NoCall, Doomed', ~ Doomed
                   PROVE  faults'[mu] >= attempt + 1
      OBVIOUS
    <2>2. conn # NoConn /\ conn \in Conns
      BY <1>0, <1>t, <2>1 DEF Doomed, TypeOK, ClientTypeOK
    <2>3. k = conn /\ failNext
      BY <1>0, <1>5, <1>8, <1>10, <2>1, <2>2 DEF Doomed
    <2>4. faults' = MoreFaults(mu) /\ mu \in Calls
      BY <1>0, <1>3, <1>4, <2>3
    <2>5. mu \in Calls /\ pc[mu] \in Active
      BY <1>4, <2>3, <2>4 DEF Active
    <2>6. attempt \in Nat /\ attempt <= faults[mu] /\ attempt <= budget[mu]
      BY <2>5, Holder
    <2> QED
      BY <1>t, <2>4, <2>6, MoreFaultsFacts
  <1> QED
    BY <1>0, <1>9, <1>11, <1>12, <1>13, <1>14, <1>15, <1>16, <1>17, ServerKeeps

LEMMA ExecutesStep ==
    ASSUME Inductive, NEW k \in Conns, ServerExecutes(k)
    PROVE  Inductive'
  <1>t. TypeOK
    BY DEF Inductive
  <1> DEFINE q == job[k].req
             i == q.call
             found == IF q.cmd = "read" THEN Block(q, mem) ELSE <<>>
  <1>0. /\ job[k].stage = "checked"
        /\ mem' = StoredFrom(q, IF q.cmd = "write" THEN 0 ELSE q.count, mem)
        /\ job' = [job EXCEPT ![k].stage = "answering", ![k].words = found]
        /\ hits' = [hits EXCEPT ![i] = @ + 1]
        /\ seen' = IF q.cmd = "read" THEN [seen EXCEPT ![i] = @ \cup {Block(q, mem)}] ELSE seen
        /\ UNCHANGED <<link, failNext, listening, client>>
    BY DEF ServerExecutes, Execute
  <1>1. UNCHANGED <<version, mu, conn, maxRetries, attempt, calls, pc, op, faults, budget>>
    BY <1>0 DEF client, calls
  <1>2. /\ link[k].req = <<>> /\ link[k].rep = <<>>
        /\ q \in Request /\ Sent(q) /\ i \in Calls
    BY <1>0, JobFacts
  <1>3. /\ q.count \in Nat /\ q.cmd \in {"read", "write"}
        /\ q.cmd = op[i].kind /\ q.count = op[i].count /\ pc[i] # "new"
    BY <1>t, <1>2, OpFacts, AddrAssumption DEF Sent, IsData
  <1>4. /\ mem \in [Regs -> Words] /\ seen \in [Calls -> SUBSET Runs] /\ hits \in [Calls -> Nat]
        /\ job \in [Conns -> Jobs]
    BY <1>t DEF TypeOK
  <1>5. mem' \in [Regs -> Words]
    <2>1. CASE q.cmd = "write"
      BY <1>0, <1>2, <1>4, <2>1, StoredType, RunFacts
    <2>2. CASE q.cmd # "write"
      <3>1. mem = [a \in Regs |-> mem[a]]
        BY <1>4
      <3>2. StoredFrom(q, q.count, mem) = mem
        BY <1>2, <3>1, NothingStored
      <3> QED
        BY <1>0, <1>4, <2>2, <3>2
    <2> QED
      BY <2>1, <2>2
  <1>6. Block(q, mem) \in Runs /\ Len(Block(q, mem)) = q.count
    <2>1. q.count \in 0 .. q.count
      BY <1>3
    <2>2. Block(q, mem) \in Runs
      BY <1>2, <1>4, <2>1, CopiedFacts
    <2>3. Block(q, mem) = [n \in 1 .. q.count |-> mem[Reg(q, n - 1)]]
      BY DEF Block
    <2>4. Len(Block(q, mem)) = q.count
      <3> DEFINE e(n) == mem[Reg(q, n - 1)]
      <3>1. Block(q, mem) = [n \in 1 .. q.count |-> e(n)]
        BY <2>3
      <3> HIDE DEF e
      <3> QED
        BY <1>3, <3>1
    <2> QED
      BY <2>2, <2>4
  <1>7. found \in Runs
    BY <1>6, RunFacts
  <1>8. /\ hits' \in [Calls -> Nat] /\ seen' \in [Calls -> SUBSET Runs]
        /\ hits'[i] >= 1
        /\ q.cmd = "read" => Block(q, mem) \in seen'[i]
        /\ \A j \in Calls : hits'[j] >= hits[j] /\ seen[j] \subseteq seen'[j]
    BY <1>0, <1>2, <1>4, <1>6
  <1>9. /\ job' \in [Conns -> Jobs]
        /\ job'[k].stage = "answering" /\ job'[k].req = q /\ job'[k].words = found
        /\ \A j \in Conns \ {k} : job'[j] = job[j]
    <2> HIDE DEF found
    <2> QED
      BY <1>0, <1>4, <1>7 DEF Jobs
  <1>10. q.cmd = "read" => found = Block(q, mem)
    OBVIOUS
  <1> HIDE DEF found
  <1>11. TypeOK'
    BY <1>t, <1>0, <1>1, <1>5, <1>8, <1>9 DEF TypeOK, ClientTypeOK, calls
  <1>12. OpsKept /\ HistoryKept
    BY <1>1, <1>8 DEF OpsKept, HistoryKept
  <1>13. Traced'
    <2>1. \A j \in Conns : TracedReq(j)'
      BY <1>0, <1>12, ReqKept DEF Inductive, SubReq
    <2>2. \A j \in Conns : TracedRep(j)'
      BY <1>t, <1>0, <1>11, <1>12, RepKept DEF Inductive, SubRep
    <2>3. \A j \in Conns \ {k} : TracedJob(j)'
      BY <1>t, <1>9, <1>11, <1>12, JobKept DEF Inductive
    <2>4. TracedJob(k)'
      <3>1. PICK x, c, w : x = q /\ c = i /\ w = found
        OBVIOUS
      <3>2. Sent(x)'
        BY <1>2, <1>12, <3>1, SentKept
      <3>3. Found(c, w)'
        BY <1>1, <1>3, <1>6, <1>8, <1>10, <3>1 DEF Found
      <3>4. x = job'[k].req /\ c = job'[k].req.call /\ w = job'[k].words
        BY <1>9, <3>1
      <3>5. Sent(job[k].req)'
        BY <3>2, <3>4 DEF Sent, RequestOf
      <3>6. Found(job[k].req.call, job[k].words)'
        BY <3>3, <3>4 DEF Found
      <3> QED
        BY <3>5, <3>6 DEF TracedJob
    <2> QED
      BY <2>1, <2>2, <2>3, <2>4 DEF Traced
  <1>14. OneSocket'
    BY <1>0, <1>1 DEF Inductive, OneSocket
  <1>15. OneMessage'
    BY <1>0, <1>2, <1>9 DEF Inductive, OneMessage
  <1>16. InStep'
    <2>1. CASE k = conn
      <3>1. mu # NoCall /\ pc[mu] = "await" /\ i = mu
        BY <1>0, <2>1, NoConnAssumption DEF Inductive, InStep, Idle
      <3> QED
        BY <1>0, <1>1, <1>2, <1>9, <2>1, <3>1, Empty DEF InStep
    <2>2. CASE k # conn
      <3>1. conn # NoConn => job'[conn] = job[conn]
        BY <1>t, <1>9, <2>2 DEF TypeOK, ClientTypeOK
      <3> QED
        BY <1>0, <1>1, <3>1 DEF Inductive, InStep, Idle
    <2> QED
      BY <2>1, <2>2
  <1>17. Doomed' => Doomed
    <2>1. conn \in Conns \cup {NoConn}
      BY <1>t DEF TypeOK, ClientTypeOK
    <2> QED
      BY <1>0, <1>1, <1>9, <2>1 DEF Doomed
  <1>18. \A j \in Calls : faults[j] \in Nat
    BY <1>t DEF TypeOK, ClientTypeOK
  <1> QED
    BY <1>1, <1>11, <1>12, <1>13, <1>14, <1>15, <1>16, <1>17, <1>18, ServerKeeps

LEMMA SeverStep ==
    ASSUME Inductive, NEW k \in Conns, Sever(k)
    PROVE  Inductive'
  <1>t. TypeOK
    BY DEF Inductive
  <1>0. /\ link[k].st = "up" /\ link' = Severed(k)
        /\ faults' = IF mu # NoCall THEN MoreFaults(mu) ELSE faults
        /\ UNCHANGED <<version, mu, conn, maxRetries, attempt, calls, budget, server, seen, hits>>
    BY DEF Sever
  <1>1. /\ k = conn /\ conn # NoConn
        /\ link \in [Conns -> Links(Request, Reply)] /\ mu \in Calls \cup {NoCall}
    BY <1>0, <1>t, NoConnAssumption DEF Inductive, OneSocket, TypeOK, ClientTypeOK
  <1>2. \A j \in Conns : /\ link'[j].st = IF j = k THEN "cut" ELSE link[j].st
                         /\ link'[j].req = IF j = k THEN <<>> ELSE link[j].req
                         /\ link'[j].rep = link[j].rep
    BY <1>0, <1>1, SeveredFields
  <1>3. link' \in [Conns -> Links(Request, Reply)]
    BY <1>0, <1>1, WireTypes
  <1>4. /\ faults' \in [Calls -> Nat]
        /\ \A j \in Calls : faults'[j] >= faults[j]
    BY <1>0, <1>1, <1>t, MoreFaultsFacts DEF TypeOK, ClientTypeOK
  <1>5. TypeOK'
    BY <1>t, <1>0, <1>3, <1>4 DEF TypeOK, ClientTypeOK, calls, server
  <1>6. OpsKept /\ HistoryKept
    BY <1>0, <1>t DEF OpsKept, HistoryKept, TypeOK, calls
  <1>7. SubWire
    BY <1>2, Empty DEF SubWire, SubReq, SubRep
  <1>8. Traced'
    BY <1>t, <1>0, <1>5, <1>6, <1>7, TracedKept DEF Inductive, server
  <1>9. OneSocket'
    BY <1>0, <1>1, <1>2 DEF Inductive, OneSocket
  <1>10. OneMessage'
    BY <1>0, <1>2, Empty DEF Inductive, OneMessage, server
  <1>11. InStep'
    BY <1>0, <1>1, <1>2, Empty DEF Inductive, InStep, Idle, server, calls
  <1>12. mu # NoCall => faults'[mu] >= attempt + 1
    <2>1. SUFFICES ASSUME mu # NoCall
                   PROVE  faults'[mu] >= attempt + 1
      OBVIOUS
    <2>2. pc[mu] \in Active /\ mu \in Calls
      BY <1>1, <2>1 DEF Inductive, LockHeld
    <2>3. attempt \in Nat /\ attempt <= faults[mu] /\ attempt <= budget[mu]
      BY <2>2, Holder
    <2> QED
      BY <1>0, <1>t, <2>1, <2>2, <2>3, MoreFaultsFacts
  <1> QED
    BY <1>0, <1>4, <1>5, <1>6, <1>8, <1>9, <1>10, <1>11, <1>12, ServerKeeps

LEMMA RespondStep ==
    ASSUME Inductive, NEW k \in Conns, Respond(k), UNCHANGED <<client, seen, hits>>
    PROVE  Inductive'
  <1>t. TypeOK
    BY DEF Inductive
  <1> DEFINE r == [call |-> job[k].req.call,
                   end |-> IF job[k].stage = "answering" THEN "zero" ELSE "error",
                   words |-> job[k].words]
  <1>0. /\ job[k].stage \in {"answering", "refusing"}
        /\ link' = IF link[k].st = "up" THEN [link EXCEPT ![k].rep = Append(@, r)] ELSE link
        /\ job' = [job EXCEPT ![k] = Resting]
        /\ UNCHANGED <<mem, failNext, listening, client, seen, hits>>
    BY DEF Respond
  <1>1. UNCHANGED <<version, mu, conn, maxRetries, attempt, calls, pc, op, faults, budget>>
    BY <1>0 DEF client, calls
  <1>2. /\ link[k].req = <<>> /\ link[k].rep = <<>>
        /\ job[k].req.call \in Calls /\ job[k].words \in Runs
        /\ k = conn => mu # NoCall /\ job[k].req.call = mu
    BY <1>0, JobFacts
  <1>3. /\ link \in [Conns -> Links(Request, Reply)] /\ job \in [Conns -> Jobs]
        /\ conn \in Conns \cup {NoConn}
    BY <1>t DEF TypeOK, ClientTypeOK
  <1>4. r \in Reply
    BY <1>2 DEF Reply
  <1>5. /\ r.call = job[k].req.call /\ r.words = job[k].words
        /\ r.end = "zero" => job[k].stage = "answering"
        /\ r.end = "error" => job[k].stage = "refusing"
    BY <1>0
  <1> HIDE DEF r
  <1>6. \A j \in Conns : /\ link'[j].st = link[j].st /\ link'[j].req = link[j].req
                         /\ link'[j].rep = IF j = k /\ link[j].st = "up" THEN <<r>> ELSE link[j].rep
    <2>1. \A j \in Conns : /\ link'[j].st = link[j].st /\ link'[j].req = link[j].req
                           /\ link'[j].rep = IF j = k /\ link[j].st = "up"
                                             THEN Append(link[j].rep, r) ELSE link[j].rep
      BY <1>0, <1>3 DEF Links
    <2>2. Append(link[k].rep, r) = <<r>>
      BY <1>2, OneAppended
    <2> QED
      BY <2>1, <2>2
  <1>7. link' \in [Conns -> Links(Request, Reply)]
    <2>1. link[k].rep \in Seq(Reply)
      BY <1>3 DEF Links
    <2>2. Append(link[k].rep, r) \in Seq(Reply)
      BY <1>4, <2>1
    <2> QED
      BY <1>0, <1>3, <2>2 DEF Links
  <1>8. /\ job' \in [Conns -> Jobs]
        /\ job'[k].stage = "reading"
        /\ \A j \in Conns \ {k} : job'[j] = job[j]
    <2>1. Resting \in Jobs /\ Resting.stage = "reading"
      BY RunFacts DEF Resting, Jobs
    <2> QED
      BY <1>0, <1>3, <2>1
  <1>9. TypeOK'
    BY <1>t, <1>0, <1>1, <1>7, <1>8 DEF TypeOK, ClientTypeOK, calls
  <1>10. OpsKept /\ HistoryKept
    BY <1>0, <1>1, <1>t DEF OpsKept, HistoryKept, TypeOK
  <1>11. Traced'
    <2>1. \A j \in Conns : TracedReq(j)'
      BY <1>6, <1>10, ReqKept DEF Inductive, SubReq
    <2>2. \A j \in Conns \ {k} : TracedRep(j)'
      BY <1>t, <1>6, <1>9, <1>10, RepKept DEF Inductive, SubRep
    <2>3. TracedRep(k)'
      <3>1. CASE link[k].st = "up"
        <4>c. PICK c \in Calls : c = r.call
          BY <1>2, <1>5
        <4>w. PICK w : w = r.words
          OBVIOUS
        <4>1. c = r.call /\ w = r.words
          BY <4>c, <4>w
        <4>2. r.end = "zero" => Found(c, w)'
          <5>1. r.end = "zero" => Found(c, w)
            BY <1>5, <4>1 DEF Inductive, Traced, TracedJob
          <5> QED
            BY <1>t, <1>9, <1>10, <5>1, FoundKept
        <4>3. ASSUME NEW n \in DOMAIN link'[k].rep, link'[k].rep[n].end = "zero"
              PROVE  Found(link[k].rep[n].call, link[k].rep[n].words)'
          <5>1. link'[k].rep[n] = r
            BY <1>6, <3>1, <4>3, OneAppended
          <5>2. c = link'[k].rep[n].call /\ w = link'[k].rep[n].words
            BY <4>1, <5>1
          <5>3. Found(c, w)'
            BY <4>2, <4>3, <5>1
          <5> QED
            BY <5>2, <5>3 DEF Found
        <4> QED
          BY <4>3 DEF TracedRep
      <3>2. CASE link[k].st # "up"
        BY <1>t, <1>6, <1>9, <1>10, <3>2, RepKept DEF Inductive, SubRep
      <3> QED
        BY <3>1, <3>2
    <2>4. \A j \in Conns \ {k} : TracedJob(j)'
      BY <1>t, <1>8, <1>9, <1>10, JobKept DEF Inductive
    <2>5. TracedJob(k)'
      BY <1>8 DEF TracedJob
    <2> QED
      BY <2>1, <2>2, <2>3, <2>4, <2>5 DEF Traced
  <1>12. OneSocket'
    BY <1>1, <1>3, <1>6 DEF Inductive, OneSocket
  <1>13. OneMessage'
    <2>1. ASSUME NEW j \in Conns
          PROVE  /\ Len(link'[j].req) <= 1 /\ Len(link'[j].rep) <= 1
                 /\ link'[j].req # <<>> => link'[j].rep = <<>> /\ job'[j].stage = "reading"
                 /\ link'[j].rep # <<>> => job'[j].stage = "reading"
      <3>1. CASE j = k
        <4>1. link'[j].req = <<>> /\ job'[j].stage = "reading"
          BY <1>2, <1>6, <1>8, <3>1
        <4>2. CASE link[j].st = "up"
          <5>1. link'[j].rep = <<r>>
            BY <1>6, <3>1, <4>2
          <5> QED
            BY <4>1, <5>1, Empty, OneAppended
        <4>3. CASE link[j].st # "up"
          <5>1. link'[j].rep = <<>>
            BY <1>2, <1>6, <3>1, <4>3
          <5> QED
            BY <4>1, <5>1, Empty
        <4> QED
          BY <4>2, <4>3
      <3>2. CASE j # k
        BY <1>6, <1>8, <3>2 DEF Inductive, OneMessage
      <3> QED
        BY <3>1, <3>2
    <2> QED
      BY <2>1 DEF OneMessage
  <1>14. InStep'
    <2>1. CASE k = conn
      <3>1. mu # NoCall /\ pc[mu] = "await"
        BY <1>0, <2>1, NoConnAssumption DEF Inductive, InStep, Idle
      <3>2. DOMAIN link'[conn].req = {} /\ job'[conn].stage = "reading"
        BY <1>2, <1>6, <1>8, <2>1, Empty
      <3>3. \A n \in DOMAIN link'[conn].rep : link'[conn].rep[n] = r
        BY <1>2, <1>6, <2>1, Empty, OneAppended
      <3> QED
        BY <1>1, <1>2, <1>5, <2>1, <3>1, <3>2, <3>3 DEF InStep
    <2>2. CASE k # conn
      <3>1. conn # NoConn => /\ link'[conn].req = link[conn].req /\ link'[conn].rep = link[conn].rep
                             /\ job'[conn] = job[conn]
        BY <1>3, <1>6, <1>8, <2>2
      <3> QED
        BY <1>1, <3>1 DEF Inductive, InStep, Idle
    <2> QED
      BY <2>1, <2>2
  <1>15. Doomed' => Doomed
    <2>1. CASE k = conn
      <3>1. \A n \in DOMAIN link'[conn].rep : link'[conn].rep[n] = r
        BY <1>2, <1>6, <2>1, Empty, OneAppended
      <3> QED
        BY <1>1, <1>5, <1>6, <1>8, <2>1, <3>1 DEF Doomed
    <2>2. CASE k # conn
      BY <1>1, <1>3, <1>6, <1>8, <2>2 DEF Doomed
    <2> QED
      BY <2>1, <2>2
  <1>16. \A j \in Calls : faults[j] \in Nat
    BY <1>t DEF TypeOK, ClientTypeOK
  <1> QED
    BY <1>1, <1>9, <1>10, <1>11, <1>12, <1>13, <1>14, <1>15, <1>16, ServerKeeps

LEMMA DropStep ==
    ASSUME Inductive, NEW k \in Conns, DropConnection(k), UNCHANGED <<client, seen, hits>>
    PROVE  Inductive'
  <1>t. TypeOK
    BY DEF Inductive
  <1>0. /\ link[k].st = "down" /\ link' = [link EXCEPT ![k].req = <<>>]
        /\ UNCHANGED <<server, job, version, mu, conn, maxRetries, attempt, calls, pc, op, faults, budget>>
        /\ UNCHANGED <<seen, hits>>
    BY DEF DropConnection, client, calls, server
  <1>1. link \in [Conns -> Links(Request, Reply)] /\ conn \in Conns \cup {NoConn}
    BY <1>t DEF TypeOK, ClientTypeOK
  <1>2. \A j \in Conns : /\ link'[j].st = link[j].st /\ link'[j].rep = link[j].rep
                         /\ link'[j].req = IF j = k THEN <<>> ELSE link[j].req
    BY <1>0, <1>1 DEF Links
  <1>3. link' \in [Conns -> Links(Request, Reply)]
    <2>1. <<>> \in Seq(Request)
      OBVIOUS
    <2> QED
      BY <1>0, <1>1, <2>1 DEF Links
  <1>4. TypeOK'
    BY <1>t, <1>0, <1>3 DEF TypeOK, ClientTypeOK, calls, server
  <1>5. OpsKept /\ HistoryKept
    BY <1>0, <1>t DEF OpsKept, HistoryKept, TypeOK
  <1>6. SubWire
    BY <1>2, Empty DEF SubWire, SubReq, SubRep
  <1>7. Traced'
    BY <1>t, <1>0, <1>4, <1>5, <1>6, TracedKept DEF Inductive
  <1>8. k # conn
    BY <1>0, NoConnAssumption DEF Inductive, OneSocket
  <1>9. OneSocket' /\ OneMessage' /\ InStep'
    <2>1. OneSocket'
      BY <1>0, <1>1, <1>2 DEF Inductive, OneSocket
    <2>2. OneMessage'
      BY <1>0, <1>2, Empty DEF Inductive, OneMessage
    <2>3. InStep'
      BY <1>0, <1>1, <1>2, <1>8 DEF Inductive, InStep, Idle
    <2> QED
      BY <2>1, <2>2, <2>3
  <1>10. Doomed' => Doomed
    BY <1>0, <1>1, <1>2 DEF Doomed
  <1>11. \A j \in Calls : faults[j] \in Nat
    BY <1>t DEF TypeOK, ClientTypeOK
  <1> QED
    BY <1>0, <1>4, <1>5, <1>7, <1>9, <1>10, <1>11, ServerKeeps

LEMMA ControlStep ==
    ASSUME Inductive, Control, UNCHANGED <<client, seen, hits>>
    PROVE  Inductive'
  <1>t. TypeOK
    BY DEF Inductive
  <1>0. UNCHANGED <<link, job, version, mu, conn, maxRetries, attempt, calls, pc, op, faults, budget,
                    seen, hits>>
    BY DEF Control, SetWord, FailNextRequest, StopListening, client, calls
  <1>1. mem' \in [Regs -> Words] /\ failNext' \in BOOLEAN /\ listening' \in BOOLEAN
    BY <1>t DEF Control, SetWord, FailNextRequest, StopListening, TypeOK
  <1>2. TypeOK'
    BY <1>t, <1>0, <1>1 DEF TypeOK, ClientTypeOK, calls
  <1>3. OpsKept /\ HistoryKept
    BY <1>0, <1>t DEF OpsKept, HistoryKept, TypeOK
  <1>4. SubWire /\ OneSocket' /\ OneMessage' /\ Doomed' = Doomed
    BY <1>0, WireAlone
  <1>5. Traced'
    BY <1>t, <1>0, <1>2, <1>3, <1>4, TracedKept DEF Inductive
  <1>6. InStep'
    BY <1>0 DEF Inductive, InStep, Idle
  <1>7. \A j \in Calls : faults[j] \in Nat
    BY <1>t DEF TypeOK, ClientTypeOK
  <1> QED
    BY <1>0, <1>2, <1>3, <1>4, <1>5, <1>6, <1>7, ServerKeeps

LEMMA StutterStep ==
    ASSUME Inductive, UNCHANGED vars
    PROVE  Inductive'
  <1>0. UNCHANGED <<link, server, job, mem, failNext, listening, version, mu, conn, maxRetries, attempt,
                    calls, pc, op, val, faults, budget, seen, hits>>
    BY DEF vars, client, server, calls
  <1>t. TypeOK /\ TypeOK'
    BY <1>0 DEF Inductive, TypeOK, ClientTypeOK
  <1>1. OpsKept /\ HistoryKept
    BY <1>0, <1>t DEF OpsKept, HistoryKept, TypeOK
  <1>2. SubWire /\ OneSocket' /\ OneMessage' /\ Doomed' = Doomed
    BY <1>0, WireAlone
  <1>3. Traced'
    BY <1>t, <1>0, <1>1, <1>2, TracedKept DEF Inductive
  <1>4. InStep'
    BY <1>0 DEF Inductive, InStep, Idle
  <1>5. \A j \in Calls : faults[j] \in Nat
    BY <1>t DEF TypeOK, ClientTypeOK
  <1> QED
    BY <1>0, <1>t, <1>1, <1>2, <1>3, <1>4, <1>5, ServerKeeps

LEMMA InductiveNext == Inductive /\ [Next]_vars => Inductive'
  <1>1. ASSUME Inductive, ClientSteps PROVE Inductive'
    BY <1>1, ClientStep
  <1>2. ASSUME Inductive, ServerSteps PROVE Inductive'
    BY <1>2, TakesStep, ExecutesStep, SeverStep, ControlStep, RespondStep, DropStep DEF ServerSteps
  <1>3. ASSUME Inductive, UNCHANGED vars PROVE Inductive'
    BY <1>3, StutterStep
  <1> QED
    BY <1>1, <1>2, <1>3 DEF Next

LEMMA InductiveInit == Init => Inductive
  <1> SUFFICES ASSUME Init PROVE Inductive
    OBVIOUS
  <1>0. /\ link = [k \in Conns |-> Down] /\ job = [k \in Conns |-> Resting]
        /\ mu = NoCall /\ conn = NoConn
        /\ pc = [i \in Calls |-> "new"]
    BY DEF Init, ClientInit, ServerInit
  <1>1. <<>> \in Runs /\ Down \in Links(Request, Reply) /\ Resting \in Jobs
    BY RunFacts DEF Down, Links, Resting, Jobs
  <1>2. TypeOK
    BY <1>1, PolicyAssumption, WordAssumption DEF Init, ClientInit, ServerInit, TypeOK, ClientTypeOK
  <1>3. \A k \in Conns : /\ link[k].st = "down" /\ link[k].req = <<>> /\ link[k].rep = <<>>
                         /\ job[k].stage = "reading"
    BY <1>0 DEF Down, Resting
  <1>4. LockHeld
    BY <1>0, CallAssumption DEF LockHeld, Active
  <1>5. OneSocket /\ InStep /\ FaultsCharged
    BY <1>0, <1>3 DEF OneSocket, InStep, FaultsCharged
  <1>6. OneMessage /\ Traced
    BY <1>3, Empty DEF OneMessage, Traced, TracedReq, TracedJob, TracedRep
  <1>7. \A i \in Calls : Justified(i)
    BY <1>0 DEF Justified
  <1> QED
    BY <1>2, <1>4, <1>5, <1>6, <1>7 DEF Inductive

LEMMA InductiveInvariant == Spec => []Inductive
  BY InductiveInit, InductiveNext, PTL DEF Spec

-----------------------------------------------------------------------------
\* Executions and the requests that can still become one.

LEMMA BegunType ==
    ASSUME NEW i \in Calls
    PROVE  (TypeOK => Begun(i) \in Nat) /\ (TypeOK' => Begun(i)' \in Nat)
  BY DEF TypeOK, ClientTypeOK, Begun, Returned

\* What is left to show of a step that executes nothing and sends nothing.
LEMMA QuietCount ==
    ASSUME Accounted, Inductive', hits' = hits,
           \A i \in Calls : Copies(i)' \subseteq Copies(i) /\ Begun(i)' >= Begun(i)
    PROVE  Accounted'
  <1> SUFFICES ASSUME NEW i \in Calls
               PROVE  IsFiniteSet(Copies(i)') /\ hits'[i] + Cardinality(Copies(i)') <= Begun(i)'
    BY DEF Accounted, Counted
  <1>1. IsFiniteSet(Copies(i)) /\ hits[i] + Cardinality(Copies(i)) <= Begun(i)
    BY DEF Accounted, Counted
  <1>2. /\ IsFiniteSet(Copies(i)') /\ Cardinality(Copies(i)') <= Cardinality(Copies(i))
        /\ Cardinality(Copies(i)) \in Nat /\ Cardinality(Copies(i)') \in Nat
    <2>1. IsFiniteSet(Copies(i)') /\ Cardinality(Copies(i)') <= Cardinality(Copies(i))
      BY <1>1, FS_Subset
    <2> QED
      BY <1>1, <2>1, FS_CardinalityType
  <1>3. hits[i] \in Nat /\ Begun(i) \in Nat
    BY BegunType DEF Accounted, Inductive, TypeOK
  <1>4. Begun(i)' \in Nat
    BY BegunType DEF Inductive
  <1>5. Begun(i)' >= Begun(i)
    OBVIOUS
  <1> QED
    BY <1>1, <1>2, <1>3, <1>4, <1>5

\* Such a step of one call.
LEMMA ClientQuiet ==
    ASSUME Accounted, Inductive', UNCHANGED <<job, hits>>,
           \A k \in Conns : link'[k].req = link[k].req,
           NEW i \in Calls, Begun(i)' >= Begun(i),
           \A j \in Calls \ {i} : pc'[j] = pc[j] /\ budget'[j] = budget[j],
           attempt' = attempt \/ \A j \in Calls \ {i} : pc[j] \notin Active
    PROVE  Accounted'
  <1>1. \A j \in Calls : Copies(j)' \subseteq Copies(j)
    BY DEF Copies
  <1>2. ASSUME NEW j \in Calls \ {i}
        PROVE  Begun(j)' >= Begun(j)
    <2>1. Begun(j)' = Begun(j)
      BY DEF Begun, Active
    <2>2. Begun(j) \in Nat
      BY BegunType DEF Accounted, Inductive
    <2> QED
      BY <2>1, <2>2
  <1>3. \A j \in Calls : Begun(j)' >= Begun(j)
    BY <1>2
  <1> QED
    BY <1>1, <1>3, QuietCount

LEMMA TransmitCounted ==
    ASSUME Accounted, Inductive', NEW i \in Calls, Transmit(i), UNCHANGED <<server, seen, hits>>
    PROVE  Accounted'
  <1>t. TypeOK /\ Inductive
    BY DEF Accounted, Inductive
  <1>0. /\ pc[i] = "attempt" /\ pc'[i] = "await" /\ conn # NoConn
        /\ link' = Written(conn, RequestOf(i))
        /\ \A j \in Calls \ {i} : pc'[j] = pc[j]
        /\ UNCHANGED <<attempt, budget, hits, job>>
    BY <1>t DEF Transmit, server, TypeOK, ClientTypeOK
  <1>1. IsData(op[i]) /\ attempt \in Nat /\ conn \in Conns /\ hits[i] \in Nat
    BY <1>0, <1>t, Holder DEF Active, TypeOK, ClientTypeOK
  <1>2. RequestOf(i) \in Request /\ RequestOf(i).call = i
    BY <1>1, <1>t, OpFacts
  <1>3. \A k \in Conns : link'[k].req = IF k = conn /\ link[k].st = "up"
                                        THEN Append(link[k].req, RequestOf(i)) ELSE link[k].req
    BY <1>0, <1>1, <1>2, <1>t, WrittenFields DEF TypeOK, ClientTypeOK
  <1>4. link[conn].req = <<>>
    BY <1>0, <1>t, Holder DEF Active, Inductive, InStep, Idle
  <1>5. \A n \in DOMAIN link'[conn].req : link'[conn].req[n].call = i
    <2>1. Append(<<>>, RequestOf(i)) = <<RequestOf(i)>>
      BY OneAppended
    <2>2. link'[conn].req = IF link[conn].st = "up" THEN <<RequestOf(i)>> ELSE <<>>
      BY <1>1, <1>3, <1>4, <2>1
    <2> HIDE DEF RequestOf
    <2> QED
      BY <1>2, <2>2, Empty, OneAppended
  <1>6. Copies(i)' \subseteq Copies(i) \cup {conn}
    BY <1>0, <1>3 DEF Copies
  <1>7. \A j \in Calls \ {i} : Copies(j)' \subseteq Copies(j)
    BY <1>0, <1>3, <1>5 DEF Copies
  <1>8. Begun(i) = attempt /\ Begun(i)' = attempt + 1
    BY <1>0 DEF Begun, Returned
  <1>9. \A j \in Calls \ {i} : Begun(j)' = Begun(j)
    BY <1>0 DEF Begun
  <1> SUFFICES ASSUME NEW j \in Calls
               PROVE  IsFiniteSet(Copies(j)') /\ hits'[j] + Cardinality(Copies(j)') <= Begun(j)'
    BY DEF Accounted, Counted
  <1>10. /\ IsFiniteSet(Copies(j)) /\ Cardinality(Copies(j)) \in Nat
         /\ hits[j] + Cardinality(Copies(j)) <= Begun(j)
    BY FS_CardinalityType DEF Accounted, Counted
  <1>11. CASE j = i
    <2>1. /\ IsFiniteSet(Copies(i) \cup {conn})
          /\ Cardinality(Copies(i) \cup {conn}) <= Cardinality(Copies(i)) + 1
      BY <1>10, <1>11, FS_AddElement, FS_CardinalityType
    <2>2. IsFiniteSet(Copies(i)') /\ Cardinality(Copies(i)') <= Cardinality(Copies(i) \cup {conn})
      BY <1>6, <2>1, FS_Subset
    <2>3. Cardinality(Copies(i)') \in Nat /\ Cardinality(Copies(i) \cup {conn}) \in Nat
      BY <2>1, <2>2, FS_CardinalityType
    <2> QED
      BY <1>0, <1>1, <1>8, <1>10, <1>11, <2>1, <2>2, <2>3
  <1>12. CASE j # i
    <2>1. IsFiniteSet(Copies(j)') /\ Cardinality(Copies(j)') <= Cardinality(Copies(j))
      BY <1>7, <1>10, <1>12, FS_Subset
    <2>2. Cardinality(Copies(j)') \in Nat
      BY <2>1, FS_CardinalityType
    <2>3. hits[j] \in Nat /\ Begun(j) \in Nat /\ Begun(j)' = Begun(j) /\ hits' = hits
      BY <1>0, <1>9, <1>12, <1>t, BegunType DEF TypeOK
    <2> QED
      BY <1>10, <2>1, <2>2, <2>3
  <1> QED
    BY <1>11, <1>12

\* The client sends in Transmit alone, and begins no attempt unseen.
LEMMA ClientCounted ==
    ASSUME Accounted, Inductive', ClientSteps
    PROVE  Accounted'
  <1>t. TypeOK /\ TypeOK' /\ Inductive
    BY DEF Accounted, Inductive
  <1>0. UNCHANGED <<server, seen, hits, job>>
    BY DEF ClientSteps, server
  <1>n. \A i \in Calls : Begun(i) \in Nat
    BY <1>t, BegunType
  <1>m. \A i \in Calls : Begun(i)' \in Nat
    BY <1>t, BegunType
  <1>p. /\ pc \in [Calls -> {"new"} \cup Waiting \cup Returned]
        /\ budget \in [Calls -> Nat] /\ attempt \in Nat
    BY <1>t DEF TypeOK, ClientTypeOK
  <1>1. ASSUME NEW i \in Calls, NEW o \in Ops, Invoke(i, o)
        PROVE  Accounted'
    <2>1. /\ pc[i] = "new" /\ \A j \in Calls \ {i} : pc'[j] = pc[j]
          /\ UNCHANGED <<link, attempt, budget>>
      BY <1>p, <1>1 DEF Invoke
    <2>2. Begun(i) = 0 /\ Begun(i)' >= Begun(i)
      BY <1>m, <2>1 DEF Begun, Returned
    <2> QED
      BY <1>0, <2>1, <2>2, ClientQuiet
  <1>2. ASSUME NEW i \in Calls, ReturnLocally(i) \/ Proceed(i)
        PROVE  Accounted'
    <2>1. /\ pc[i] = "called" /\ \A j \in Calls \ {i} : pc'[j] = pc[j]
          /\ UNCHANGED <<link, attempt, budget>>
      BY <1>p, <1>2 DEF ReturnLocally, Proceed
    <2>2. Begun(i) = 0 /\ Begun(i)' >= Begun(i)
      BY <1>m, <2>1 DEF Begun, Returned
    <2> QED
      BY <1>0, <2>1, <2>2, ClientQuiet
  <1>3. ASSUME NEW i \in Calls, Acquire(i)
        PROVE  Accounted'
    <2>1. /\ pc[i] = "blocked" /\ mu = NoCall /\ link' = link
          /\ \A j \in Calls \ {i} : pc'[j] = pc[j] /\ budget'[j] = budget[j]
      BY <1>p, <1>3 DEF Acquire
    <2>2. Begun(i) = 0 /\ Begun(i)' >= Begun(i)
      BY <1>m, <2>1 DEF Begun, Returned
    <2>3. \A j \in Calls : pc[j] \notin Active
      BY <1>t, <2>1, CallAssumption DEF Inductive, LockHeld
    <2> QED
      BY <1>0, <2>1, <2>2, <2>3, ClientQuiet
  <1>4. ASSUME NEW i \in Calls,
               \/ OpenFail(i) \/ Close(i)
               \/ \E k \in Conns : job[k] = Resting /\ Open(i, k)
        PROVE  Accounted'
    <2>1. /\ pc[i] = "blocked" /\ \A j \in Calls \ {i} : pc'[j] = pc[j]
          /\ UNCHANGED <<attempt, budget>>
      BY <1>p, <1>4 DEF OpenFail, Close, Open
    <2>2. Begun(i) = 0 /\ Begun(i)' >= Begun(i)
      BY <1>m, <2>1 DEF Begun, Returned
    <2>3. \A k \in Conns : link'[k].req = link[k].req
      <3>1. CASE OpenFail(i) \/ Close(i)
        BY <1>0, <1>t, <3>1, HangUp DEF OpenFail, Close
      <3>2. ASSUME NEW k \in Conns, job[k] = Resting, Open(i, k)
            PROVE  \A j \in Conns : link'[j].req = link[j].req
        <4>1. /\ Free(k) /\ conn' = k /\ job[k].stage = "reading"
              /\ link' = [HungUp(conn) EXCEPT ![k].st = "up"]
          BY <3>2 DEF Open, Resting, OldClosed
        <4> QED
          BY <1>0, <1>t, <4>1, Dial
      <3> QED
        BY <1>4, <3>1, <3>2
    <2> QED
      BY <1>0, <2>1, <2>2, <2>3, ClientQuiet
  <1>5. ASSUME NEW i \in Calls,
               ConnectFail(i) \/ TransmitFail(i) \/ RefuseReply(i) \/ ReceiveFail(i)
        PROVE  Accounted'
    <2>1. /\ pc[i] \in {"attempt", "await"} /\ pc'[i] = "reconnecting"
          /\ \A j \in Calls \ {i} : pc'[j] = pc[j]
          /\ UNCHANGED <<attempt, budget>>
          /\ link' = HungUp(conn) /\ conn' = NoConn
      BY <1>p, <1>5 DEF ConnectFail, TransmitFail, RefuseReply, ReceiveFail, AttemptFailed, DropConn
    <2>2. Begun(i)' >= Begun(i)
      BY <1>p, <2>1 DEF Begun, Returned
    <2>3. \A k \in Conns : link'[k].req = link[k].req
      BY <1>0, <1>t, <2>1, HangUp
    <2> QED
      BY <1>0, <2>1, <2>2, <2>3, ClientQuiet
  <1>6. ASSUME NEW i \in Calls, NEW k \in Conns, job[k] = Resting, Connect(i, k)
        PROVE  Accounted'
    <2>1. UNCHANGED <<pc, attempt, budget>>
      BY <1>6 DEF Connect, calls
    <2>2. Begun(i)' >= Begun(i)
      BY <1>n, <2>1 DEF Begun
    <2>3. \A j \in Conns : link'[j].req = link[j].req
      BY <1>0, <1>t, <1>6, Dial DEF Connect, HungUp, Dialled, Resting
    <2> QED
      BY <1>0, <2>1, <2>2, <2>3, ClientQuiet
  <1>7. ASSUME NEW i \in Calls,
               \/ RedialFail(i)
               \/ \E k \in Conns : job[k] = Resting /\ Redial(i, k)
        PROVE  Accounted'
    <2>1. pc[i] = "reconnecting" /\ NextAttempt(i) /\ budget' = budget
      BY <1>7 DEF RedialFail, Redial
    <2>2. /\ budget[i] = maxRetries /\ attempt <= maxRetries /\ maxRetries \in Nat /\ conn = NoConn
          /\ \A j \in Calls \ {i} : pc[j] \notin Active
      BY <1>t, <2>1, Holder DEF Active
    <2>3. /\ \A j \in Calls \ {i} : pc'[j] = pc[j]
          /\ \/ pc'[i] = "attempt" /\ attempt' = attempt + 1
             \/ pc'[i] = "failed"
      BY <1>p, <2>1 DEF NextAttempt, Return
    <2>4. Begun(i)' >= Begun(i)
      BY <1>p, <2>1, <2>2, <2>3 DEF Begun, Returned
    <2>5. \A k \in Conns : link'[k].req = link[k].req
      <3>1. CASE RedialFail(i)
        BY <3>1 DEF RedialFail
      <3>2. ASSUME NEW k \in Conns, job[k] = Resting, Redial(i, k)
            PROVE  \A j \in Conns : link'[j].req = link[j].req
        BY <1>0, <1>t, <2>2, <3>2, Dial DEF Redial, HungUp, Dialled, Resting
      <3> QED
        BY <1>7, <3>1, <3>2
    <2> QED
      BY <1>0, <2>1, <2>2, <2>3, <2>4, <2>5, ClientQuiet
  <1>8. ASSUME NEW i \in Calls, TakeReply(i)
        PROVE  Accounted'
    <2>1. /\ pc[i] = "await" /\ link' = Consumed(conn)
          /\ pc'[i] \in {"ok", "rejected"}
          /\ \A j \in Calls \ {i} : pc'[j] = pc[j]
          /\ budget' = budget
      BY <1>p, <1>8 DEF TakeReply, Return
    <2>2. /\ budget[i] = maxRetries /\ attempt <= maxRetries /\ conn # NoConn
          /\ \A j \in Calls \ {i} : pc[j] \notin Active
      BY <1>t, <2>1, Holder DEF Active
    <2>3. Begun(i)' >= Begun(i)
      BY <1>p, <2>1, <2>2 DEF Begun, Returned
    <2>4. \A k \in Conns : link'[k].req = link[k].req
      BY <1>t, <2>1, <2>2, ConsumedFields DEF TypeOK, ClientTypeOK
    <2> QED
      BY <1>0, <2>1, <2>2, <2>3, <2>4, ClientQuiet
  <1>9. ASSUME NEW n \in Policies, SetRetryPolicy(n)
        PROVE  Accounted'
    <2>1. UNCHANGED <<link, pc, attempt, budget, job, hits>>
      BY <1>0, <1>9 DEF SetRetryPolicy, calls
    <2>2. \A i \in Calls : Copies(i)' \subseteq Copies(i)
      BY <2>1 DEF Copies
    <2>3. \A i \in Calls : Begun(i)' >= Begun(i)
      <3>1. \A i \in Calls : Begun(i)' = Begun(i)
        BY <2>1 DEF Begun
      <3> QED
        BY <1>n, <3>1
    <2> QED
      BY <2>1, <2>2, <2>3, QuietCount
  <1>10. ASSUME NEW i \in Calls, Transmit(i)
         PROVE  Accounted'
    BY <1>0, <1>10, TransmitCounted
  <1>11. ASSUME NEW k \in Conns, job[k] = Resting, Dials(k)
         PROVE  Accounted'
    <2>1. PICK i \in Calls : Connect(i, k) \/ Redial(i, k) \/ Open(i, k)
      BY <1>11 DEF Dials
    <2> QED
      BY <1>4, <1>6, <1>7, <1>11, <2>1
  <1>12. ASSUME NEW i \in Calls, Enter(i) \/ Progress(i)
         PROVE  Accounted'
    BY <1>2, <1>3, <1>4, <1>5, <1>7, <1>8, <1>10, <1>12 DEF Enter, Progress
  <1> QED
    BY <1>1, <1>9, <1>11, <1>12 DEF ClientSteps

\* An execution uses up the request it is of.
LEMMA ExecutesCounted ==
    ASSUME Accounted, Inductive', NEW k \in Conns, ServerExecutes(k)
    PROVE  Accounted'
  <1>t. TypeOK /\ Inductive
    BY DEF Accounted, Inductive
  <1>i. PICK i \in Calls : i = job[k].req.call
    <2>1. job[k].stage = "checked"
      BY DEF ServerExecutes, Execute
    <2> QED
      BY <1>t, <2>1, JobFacts
  <1>0. /\ job[k].stage = "checked" /\ hits' = [hits EXCEPT ![i] = @ + 1]
        /\ UNCHANGED <<link, pc, attempt, budget>>
    BY <1>i DEF ServerExecutes, Execute, client, calls
  <1>1. /\ job'[k].stage = "answering"
        /\ \A j \in Conns \ {k} : job'[j] = job[j]
    BY <1>t DEF ServerExecutes, Execute, TypeOK, Jobs
  <1>2. link[k].req = <<>>
    BY <1>0, <1>t, JobFacts
  <1>3. k \in Copies(i)
    BY <1>0, <1>i DEF Copies
  <1>4. \A j \in Calls : Copies(j)' \subseteq Copies(j) \ {k}
    BY <1>0, <1>1, <1>2, Empty DEF Copies
  <1>5. \A j \in Calls : Begun(j)' = Begun(j) /\ Begun(j) \in Nat
    BY <1>0, <1>t, BegunType DEF Begun
  <1> SUFFICES ASSUME NEW j \in Calls
               PROVE  IsFiniteSet(Copies(j)') /\ hits'[j] + Cardinality(Copies(j)') <= Begun(j)'
    BY DEF Accounted, Counted
  <1>6. /\ IsFiniteSet(Copies(j)) /\ Cardinality(Copies(j)) \in Nat
        /\ hits[j] + Cardinality(Copies(j)) <= Begun(j)
    BY FS_CardinalityType DEF Accounted, Counted
  <1>7. hits \in [Calls -> Nat]
    BY <1>t DEF TypeOK
  <1>8. CASE j = i
    <2>1. /\ IsFiniteSet(Copies(i) \ {k})
          /\ Cardinality(Copies(i) \ {k}) = Cardinality(Copies(i)) - 1
      BY <1>3, <1>6, <1>8, FS_RemoveElement
    <2>2. IsFiniteSet(Copies(i)') /\ Cardinality(Copies(i)') <= Cardinality(Copies(i) \ {k})
      BY <1>2, <1>4, <2>1, FS_Subset
    <2>3. Cardinality(Copies(i)') \in Nat
      BY <2>2, FS_CardinalityType
    <2>4. hits'[i] = hits[i] + 1 /\ hits[i] \in Nat
      BY <1>0, <1>2, <1>7
    <2>5. Cardinality(Copies(i)') <= Cardinality(Copies(i)) - 1
      BY <2>1, <2>2
    <2> QED
      BY <1>5, <1>6, <1>8, <2>2, <2>3, <2>4, <2>5
  <1>9. CASE j # i
    <2>1. Copies(j)' \subseteq Copies(j)
      BY <1>4
    <2>2. IsFiniteSet(Copies(j)') /\ Cardinality(Copies(j)') <= Cardinality(Copies(j))
      BY <1>6, <2>1, FS_Subset
    <2>3. Cardinality(Copies(j)') \in Nat
      BY <2>2, FS_CardinalityType
    <2>4. hits'[j] = hits[j] /\ hits[j] \in Nat
      BY <1>0, <1>2, <1>7, <1>9
    <2> QED
      BY <1>5, <1>6, <2>2, <2>3, <2>4
  <1> QED
    BY <1>8, <1>9

\* Whatever else the server or the network does makes no copies.
LEMMA ServerCounted ==
    ASSUME Accounted, Inductive', ServerSteps
    PROVE  Accounted'
  <1>t. TypeOK /\ Inductive
    BY DEF Accounted, Inductive
  <1>n. \A i \in Calls : Begun(i) \in Nat
    BY <1>t, BegunType
  <1>q. ASSUME UNCHANGED <<hits, pc, attempt, budget>>,
               \A i \in Calls : Copies(i)' \subseteq Copies(i)
        PROVE  Accounted'
    <2>1. \A i \in Calls : Begun(i)' = Begun(i)
      BY <1>q DEF Begun
    <2>2. \A i \in Calls : Begun(i)' >= Begun(i)
      BY <1>n, <2>1
    <2> QED
      BY <1>q, <2>2, QuietCount
  <1>1. ASSUME NEW k \in Conns, ServerTakes(k)
        PROVE  Accounted'
    <2>1. /\ link[k].req # <<>> /\ link' = Ignored(k) /\ job \in [Conns -> Jobs]
          /\ link[k].req \in Seq(Request) /\ Len(link[k].req) <= 1
          /\ UNCHANGED <<hits, pc, attempt, budget>>
      BY <1>t, <1>1, LinkFacts
      DEF ServerTakes, TakeRequest, TypeOK, calls, Inductive, OneMessage
    <2>2. /\ job'[k].req = Head(link[k].req)
          /\ \A j \in Conns \ {k} : job'[j] = job[j]
      BY <1>1, <2>1 DEF ServerTakes, TakeRequest
    <2>3. \A j \in Conns : link'[j].req = IF j = k THEN Tail(link[k].req) ELSE link[j].req
      BY <1>t, <2>1, IgnoredFields DEF TypeOK, ClientTypeOK
    <2>4. /\ Head(link[k].req) = link[k].req[1] /\ 1 \in DOMAIN link[k].req
          /\ Tail(link[k].req) = <<>>
      <3>1. 1 \in {1}
        OBVIOUS
      <3> QED
        BY <2>1, <3>1, Single
    <2>5. \A i \in Calls : Copies(i)' \subseteq Copies(i)
      <3> SUFFICES ASSUME NEW i \in Calls, NEW c \in Copies(i)'
                   PROVE  c \in Copies(i)
        OBVIOUS
      <3>1. c \in Conns /\ (\/ \E n \in DOMAIN link'[c].req : link'[c].req[n].call = i
                            \/ job'[c].stage = "checked" /\ job'[c].req.call = i)
        BY DEF Copies
      <3>2. CASE c = k
        <4>1. link[k].req[1].call = i
          BY <2>2, <2>3, <2>4, <3>1, <3>2, Empty
        <4> QED
          BY <2>4, <3>2, <4>1 DEF Copies
      <3>3. CASE c # k
        BY <2>2, <2>3, <3>1, <3>3 DEF Copies
      <3> QED
        BY <3>2, <3>3
    <2> QED
      BY <1>q, <2>1, <2>5
  <1>2. ASSUME NEW k \in Conns, Sever(k)
        PROVE  Accounted'
    <2>1. link' = Severed(k) /\ UNCHANGED <<job, hits, pc, attempt, budget>>
      BY <1>2 DEF Sever, calls, server
    <2>2. \A j \in Conns : link'[j].req = IF j = k THEN <<>> ELSE link[j].req
      BY <1>t, <2>1, SeveredFields DEF TypeOK, ClientTypeOK
    <2>3. \A i \in Calls : Copies(i)' \subseteq Copies(i)
      BY <2>1, <2>2, Empty DEF Copies
    <2> QED
      BY <1>q, <2>1, <2>3
  <1>3. ASSUME NEW k \in Conns, Respond(k), UNCHANGED <<client, seen, hits>>
        PROVE  Accounted'
    <2>1. /\ UNCHANGED <<hits, pc, attempt, budget>>
          /\ job' = [job EXCEPT ![k] = Resting] /\ job \in [Conns -> Jobs]
      BY <1>t, <1>3 DEF Respond, client, calls, TypeOK
    <2>2. \A j \in Conns : link'[j].req = link[j].req
      BY <1>t, <1>3 DEF Respond, TypeOK, ClientTypeOK, Links
    <2>3. job'[k].stage = "reading" /\ \A j \in Conns \ {k} : job'[j] = job[j]
      BY <2>1 DEF Resting
    <2>4. \A i \in Calls : Copies(i)' \subseteq Copies(i)
      BY <2>2, <2>3 DEF Copies
    <2> QED
      BY <1>q, <2>1, <2>4
  <1>4. ASSUME NEW k \in Conns, DropConnection(k), UNCHANGED <<client, seen, hits>>
        PROVE  Accounted'
    <2>1. link' = [link EXCEPT ![k].req = <<>>] /\ UNCHANGED <<job, hits, pc, attempt, budget>>
      BY <1>4 DEF DropConnection, client, calls, server
    <2>2. \A j \in Conns : link'[j].req = IF j = k THEN <<>> ELSE link[j].req
      BY <1>t, <2>1 DEF TypeOK, ClientTypeOK, Links
    <2>3. \A i \in Calls : Copies(i)' \subseteq Copies(i)
      BY <2>1, <2>2, Empty DEF Copies
    <2> QED
      BY <1>q, <2>1, <2>3
  <1>5. ASSUME Control, UNCHANGED <<client, seen, hits>>
        PROVE  Accounted'
    <2>1. UNCHANGED <<link, job, hits, pc, attempt, budget>>
      BY <1>5 DEF Control, SetWord, FailNextRequest, StopListening, client, calls
    <2>2. \A i \in Calls : Copies(i)' \subseteq Copies(i)
      BY <2>1 DEF Copies
    <2> QED
      BY <1>q, <2>1, <2>2
  <1> QED
    BY <1>1, <1>2, <1>3, <1>4, <1>5, ExecutesCounted DEF ServerSteps

LEMMA AccountedInvariant == Spec => []Accounted
  <1>1. Init => Accounted
    <2> SUFFICES ASSUME Init PROVE Counted
      BY InductiveInit DEF Accounted
    <2>1. \A i \in Calls : Copies(i) = {} /\ hits[i] = 0 /\ Begun(i) = 0
      BY Empty DEF Init, ClientInit, ServerInit, Copies, Begun, Down, Resting, Returned
    <2> QED
      BY <2>1, FS_EmptySet DEF Counted
  <1>2. Accounted /\ [Next]_vars => Accounted'
    <2> SUFFICES ASSUME Accounted, [Next]_vars PROVE Accounted'
      OBVIOUS
    <2>1. Inductive'
      BY InductiveNext DEF Accounted
    <2>2. CASE UNCHANGED vars
      <3>1. UNCHANGED <<link, job, hits, pc, attempt, budget>>
        BY <2>2 DEF vars, client, server, calls
      <3> QED
        BY <2>1, <3>1 DEF Accounted, Counted, Copies, Begun
    <2> QED
      BY <2>1, <2>2, ClientCounted, ServerCounted DEF Next
  <1> QED
    BY <1>1, <1>2, PTL DEF Spec

-----------------------------------------------------------------------------
\* Every state of client and server is one of the declared ones.
THEOREM SystemTypes == Spec => []TypeOK
  <1>1. Inductive => TypeOK
    BY DEF Inductive
  <1> QED
    BY <1>1, InductiveInvariant, PTL

\* The client holds one socket at most, and what is on it belongs to the call
\* that has the mutex, so that no reply is taken for that of another request.
THEOREM NoReplyLeftOver == Spec => []ConnectionInStep
  <1>1. ASSUME Inductive
        PROVE  ConnectionInStep
    <2>1. \A k \in Conns : link[k].st # "down" => k = conn
      BY <1>1 DEF Inductive, OneSocket
    <2>2. ASSUME conn # NoConn
          PROVE  /\ Len(link[conn].req) + Len(link[conn].rep)
                      + (IF job[conn].stage = "reading" THEN 0 ELSE 1) <= 1
                 /\ \A n \in DOMAIN link[conn].req : link[conn].req[n].call = mu
                 /\ \A n \in DOMAIN link[conn].rep : link[conn].rep[n].call = mu
      <3>1. conn \in Conns
        BY <1>1, <2>2 DEF Inductive, TypeOK, ClientTypeOK
      <3>2. /\ Len(link[conn].req) \in Nat /\ Len(link[conn].rep) \in Nat
            /\ Len(link[conn].req) <= 1 /\ Len(link[conn].rep) <= 1
            /\ link[conn].req # <<>> => link[conn].rep = <<>> /\ job[conn].stage = "reading"
            /\ link[conn].rep # <<>> => job[conn].stage = "reading"
        BY <1>1, <3>1, LinkFacts DEF Inductive, OneMessage
      <3>3. Len(link[conn].req) + Len(link[conn].rep)
               + (IF job[conn].stage = "reading" THEN 0 ELSE 1) <= 1
        <4>1. CASE link[conn].req # <<>>
          <5>1. Len(link[conn].rep) = 0 /\ job[conn].stage = "reading"
            BY <3>2, <4>1, Empty
          <5> QED
            BY <3>2, <5>1
        <4>2. CASE link[conn].rep # <<>>
          <5>1. Len(link[conn].req) = 0 /\ job[conn].stage = "reading"
            BY <3>2, <4>2, Empty
          <5> QED
            BY <3>2, <5>1
        <4>3. CASE link[conn].req = <<>> /\ link[conn].rep = <<>>
          BY <4>3, Empty
        <4> QED
          BY <4>1, <4>2, <4>3
      <3> QED
        BY <1>1, <2>2, <3>3 DEF Inductive, InStep
    <2> QED
      BY <2>1, <2>2 DEF ConnectionInStep
  <1> QED
    BY <1>1, InductiveInvariant, PTL

\* A read that succeeds returns what one execution of its own request found in
\* the registers, whole.
THEOREM ReadsAreFresh == Spec => []ReadFresh
  <1>1. Inductive => ReadFresh
    BY DEF Inductive, Justified, ReadFresh
  <1> QED
    BY <1>1, InductiveInvariant, PTL

\* A write that reports success was executed.
THEOREM WritesTakeEffect == Spec => []WriteTookEffect
  <1>1. Inductive => WriteTookEffect
    BY DEF Inductive, Justified, WriteTookEffect
  <1> QED
    BY <1>1, InductiveInvariant, PTL

\* The server executes a call no more often than the policy allows, requests
\* on abandoned connections included, and a call fails only when it met more
\* faults than it was allowed retries.
THEOREM PolicyKept == Spec => []RetriesAsAllowed
  <1>1. ASSUME Accounted
        PROVE  RetriesAsAllowed
    <2> SUFFICES ASSUME NEW i \in Calls, IsData(op[i])
                 PROVE  /\ hits[i] + Cardinality(Copies(i)) <= budget[i] + 1
                        /\ pc[i] \in {"failed", "rejected"} => faults[i] > budget[i]
      BY DEF RetriesAsAllowed
    <2>t. Inductive
      BY <1>1 DEF Accounted
    <2>1. hits[i] + Cardinality(Copies(i)) <= Begun(i) /\ Cardinality(Copies(i)) \in Nat
      BY <1>1, FS_CardinalityType DEF Accounted, Counted
    <2>2. hits[i] \in Nat /\ budget[i] \in Nat /\ attempt \in Nat
      BY <2>t DEF Inductive, TypeOK, ClientTypeOK
    <2>3. pc[i] \in Active => attempt <= budget[i]
      BY <2>t, Holder
    <2>4. Begun(i) \in Nat /\ Begun(i) <= budget[i] + 1
      BY <2>2, <2>3 DEF Begun, Active
    <2>5. hits[i] + Cardinality(Copies(i)) <= budget[i] + 1
      BY <2>1, <2>2, <2>4
    <2>6. pc[i] \in {"failed", "rejected"} => faults[i] > budget[i]
      BY <2>t DEF Inductive, Justified
    <2> QED
      BY <2>5, <2>6
  <1> QED
    BY <1>1, AccountedInvariant, PTL

-----------------------------------------------------------------------------
\* Client and server together are the service: step by step.

\* The requests in flight, and what the service sees of the calls, stay.
SameCopies == \A j \in Calls : Copies(j)' = Copies(j)

SameStatus == \A j \in Calls : Status(j)' = Status(j)

\* A call that has not returned has no words.
Unset == \A i \in Calls : pc[i] \in {"new"} \cup Waiting => val[i] = <<>>

Served == Accounted /\ Unset

\* Where the requests stay where they are, on the wire and at the server.
LEMMA SameRequestsSameCopies ==
    ASSUME job' = job, \A k \in Conns : link'[k].req = link[k].req
    PROVE  SameCopies
  BY DEF SameCopies, Copies

\* A connection carries the request of one call at most.
LEMMA OneOwner ==
    ASSUME Inductive, NEW k \in Conns, NEW i \in Calls, NEW j \in Calls,
           k \in Copies(i), k \in Copies(j)
    PROVE  i = j
  <1>t. TypeOK
    BY DEF Inductive
  <1>1. CASE link[k].req = <<>>
    BY <1>1, Empty DEF Copies
  <1>2. CASE link[k].req # <<>>
    <2>1. /\ job[k].stage = "reading"
          /\ link[k].req \in Seq(Request) /\ Len(link[k].req) <= 1
      BY <1>t, <1>2, LinkFacts DEF Inductive, OneMessage
    <2>2. DOMAIN link[k].req = {1}
      BY <1>2, <2>1, Single
    <2> QED
      BY <2>1, <2>2 DEF Copies
  <1> QED
    BY <1>1, <1>2

\* The number of requests in flight follows the connections that carry one.
LEMMA InFlight ==
    ASSUME Counted, NEW c \in Calls, NEW k,
           \A j \in Calls : j # c => Copies(j)' = Copies(j)
    PROVE  LET fly == [j \in Calls |-> Cardinality(Copies(j))] IN
           /\ k \in Copies(c) /\ Copies(c)' = Copies(c) \ {k} =>
                 fly[c] > 0 /\ fly' = [fly EXCEPT ![c] = @ - 1]
           /\ k \notin Copies(c) /\ Copies(c)' = Copies(c) \cup {k} =>
                 fly' = [fly EXCEPT ![c] = @ + 1]
  <1> DEFINE fly == [j \in Calls |-> Cardinality(Copies(j))]
  <1>1. IsFiniteSet(Copies(c)) /\ Cardinality(Copies(c)) \in Nat
    BY FS_CardinalityType DEF Counted
  <1>2. \A j \in Calls : j # c => fly'[j] = fly[j]
    OBVIOUS
  <1>3. ASSUME k \in Copies(c), Copies(c)' = Copies(c) \ {k}
        PROVE  fly[c] > 0 /\ fly' = [fly EXCEPT ![c] = @ - 1]
    <2>1. Cardinality(Copies(c)) # 0
      BY <1>1, <1>3, FS_EmptySet
    <2>2. Cardinality(Copies(c) \ {k}) = Cardinality(Copies(c)) - 1
      BY <1>1, <1>3, FS_RemoveElement
    <2>3. fly'[c] = fly[c] - 1
      BY <1>3, <2>2
    <2>4. fly[c] > 0
      BY <1>1, <2>1
    <2>5. fly' = [fly EXCEPT ![c] = @ - 1]
      BY <1>2, <2>3
    <2> QED
      BY <2>4, <2>5
  <1>4. ASSUME k \notin Copies(c), Copies(c)' = Copies(c) \cup {k}
        PROVE  fly' = [fly EXCEPT ![c] = @ + 1]
    <2>1. Cardinality(Copies(c) \cup {k}) = Cardinality(Copies(c)) + 1
      BY <1>1, <1>4, FS_AddElement
    <2>2. fly'[c] = fly[c] + 1
      BY <1>4, <2>1
    <2> QED
      BY <1>2, <2>2
  <1> QED
    BY <1>3, <1>4

-----------------------------------------------------------------------------
\* Steps of the service.

LEMMA Stutter ==
    ASSUME UNCHANGED <<mem, op, val, seen, hits>>, SameCopies, SameStatus
    PROVE  UNCHANGED Service!vars
  <1>1. [j \in Calls |-> Status(j)]' = [j \in Calls |-> Status(j)]
    BY DEF SameStatus
  <1>2. [j \in Calls |-> Cardinality(Copies(j))]' = [j \in Calls |-> Cardinality(Copies(j))]
    BY DEF SameCopies
  <1> QED
    BY <1>1, <1>2 DEF Service!vars

\* A step of call i that the service sees in its status or not at all.
LEMMA CallStep ==
    ASSUME UNCHANGED <<mem, op, seen, hits>>, SameCopies,
           NEW i \in Calls, pc[i] \in Waiting,
           \A j \in Calls : j # i => pc'[j] = pc[j],
           \/ pc'[i] \in Waiting \cup {"failed", "rejected"} /\ val' = val
           \/ /\ pc'[i] = "ok"
              /\ op[i].kind = "write" => hits[i] > 0
              /\ IF op[i].kind = "read" /\ op[i].count > 0
                 THEN \E words \in seen[i] : val' = [val EXCEPT ![i] = words]
                 ELSE val' = val
    PROVE  [Service!Next]_(Service!vars)
  <1>1. Status(i) = "pending" /\ \A j \in Calls : j # i => Status(j)' = Status(j)
    BY DEF Status, Waiting
  <1>2. [j \in Calls |-> Cardinality(Copies(j))]' = [j \in Calls |-> Cardinality(Copies(j))]
    BY DEF SameCopies
  <1>3. \A s : Status(i)' = s =>
           [j \in Calls |-> Status(j)]' = [[j \in Calls |-> Status(j)] EXCEPT ![i] = s]
    BY <1>1
  <1>4. CASE pc'[i] \in Waiting /\ val' = val
    <2>1. SameStatus
      BY <1>1, <1>4 DEF SameStatus, Status, Waiting
    <2> QED
      BY <1>4, <2>1, Stutter
  <1>5. CASE pc'[i] \in {"failed", "rejected"} /\ val' = val
    <2>1. Status(i)' = "failed"
      BY <1>5 DEF Status, Waiting
    <2>2. Service!Fail(i)
      BY <1>1, <1>2, <1>3, <1>5, <2>1 DEF Service!Fail
    <2> QED
      BY <2>2 DEF Service!Next
  <1>6. CASE /\ pc'[i] = "ok"
             /\ op[i].kind = "write" => hits[i] > 0
             /\ IF op[i].kind = "read" /\ op[i].count > 0
                THEN \E words \in seen[i] : val' = [val EXCEPT ![i] = words]
                ELSE val' = val
    <2>1. Status(i)' = "ok"
      BY <1>6 DEF Status, Waiting
    <2>2. Service!Succeed(i)
      BY <1>1, <1>2, <1>3, <1>6, <2>1 DEF Service!Succeed
    <2> QED
      BY <2>2 DEF Service!Next
  <1> QED
    BY <1>4, <1>5, <1>6

\* A request on k is gone, if there was one.
LEMMA LoseStep ==
    ASSUME Accounted, UNCHANGED <<mem, op, val, seen, hits>>, SameStatus, NEW k \in Conns,
           \A j \in Conns \ {k} : link'[j].req = link[j].req /\ job'[j] = job[j],
           \A i \in Calls : k \notin Copies(i)'
    PROVE  [Service!Next]_(Service!vars)
  <1>1. \A i \in Calls : Copies(i)' = Copies(i) \ {k}
    BY DEF Copies
  <1>2. CASE \A i \in Calls : k \notin Copies(i)
    <2>1. SameCopies
      BY <1>1, <1>2 DEF SameCopies
    <2> QED
      BY <2>1, Stutter
  <1>3. CASE \E c \in Calls : k \in Copies(c)
    <2>1. PICK c \in Calls : k \in Copies(c)
      BY <1>3
    <2>2. \A j \in Calls : j # c => Copies(j)' = Copies(j)
      BY <1>1, <2>1, OneOwner DEF Accounted
    <2>3. [j \in Calls |-> Status(j)]' = [j \in Calls |-> Status(j)]
      BY DEF SameStatus
    <2>4. Service!Lose(c)
      BY <1>1, <2>1, <2>2, <2>3, InFlight DEF Service!Lose, Accounted
    <2> QED
      BY <2>4 DEF Service!Next
  <1> QED
    BY <1>2, <1>3

\* A request written on a live connection is one more in flight.
LEMMA SendStep ==
    ASSUME Accounted, NEW i \in Calls, Transmit(i), UNCHANGED <<server, seen, hits>>
    PROVE  [Service!Next]_(Service!vars)
  <1>t. TypeOK /\ Inductive
    BY DEF Accounted, Inductive
  <1>0. /\ pc[i] = "attempt" /\ pc'[i] = "await" /\ conn # NoConn
        /\ link' = Written(conn, RequestOf(i))
        /\ \A j \in Calls \ {i} : pc'[j] = pc[j]
        /\ UNCHANGED <<op, val, mem, seen, hits, job>>
    BY <1>t DEF Transmit, server, TypeOK, ClientTypeOK
  <1>1. IsData(op[i]) /\ conn \in Conns
    BY <1>0, <1>t, Holder DEF Active, TypeOK, ClientTypeOK
  <1>2. RequestOf(i) \in Request /\ RequestOf(i).call = i
    BY <1>1, <1>t, OpFacts
  <1>3. \A k \in Conns : link'[k].req = IF k = conn /\ link[k].st = "up"
                                        THEN Append(link[k].req, RequestOf(i)) ELSE link[k].req
    BY <1>0, <1>1, <1>2, <1>t, WrittenFields DEF TypeOK, ClientTypeOK
  <1>4. link[conn].req = <<>> /\ job[conn].stage = "reading"
    BY <1>0, <1>t, Holder DEF Active, Inductive, InStep, Idle
  <1>5. SameStatus /\ Status(i) = "pending"
    BY <1>0 DEF SameStatus, Status, Waiting
  <1>6. CASE link[conn].st # "up"
    <2>1. SameCopies
      BY <1>0, <1>3, <1>6, SameRequestsSameCopies
    <2> QED
      BY <1>0, <1>5, <2>1, Stutter
  <1>7. CASE link[conn].st = "up"
    <2>1. PICK q : q = RequestOf(i)
      OBVIOUS
    <2>2. link'[conn].req = <<q>>
      BY <1>1, <1>3, <1>4, <1>7, <2>1, OneAppended
    <2>3. q.call = i
      BY <1>2, <2>1
    <2>4. DOMAIN link'[conn].req = {1} /\ link'[conn].req[1] = q
      BY <2>2
    <2>5. \A j \in Calls : conn \in Copies(j)' <=> j = i
      BY <1>0, <1>1, <1>4, <2>3, <2>4 DEF Copies
    <2>6. \A j \in Calls : conn \notin Copies(j)
      BY <1>4, Empty DEF Copies
    <2>7. \A j \in Calls, k \in Conns \ {conn} : k \in Copies(j)' <=> k \in Copies(j)
      BY <1>0, <1>3 DEF Copies
    <2>8. \A j \in Calls : Copies(j) \subseteq Conns /\ Copies(j)' \subseteq Conns
      BY DEF Copies
    <2>9. Copies(i)' = Copies(i) \cup {conn}
      BY <1>1, <2>5, <2>7, <2>8
    <2>10. ASSUME NEW j \in Calls, j # i PROVE Copies(j)' = Copies(j)
      <3>1. conn \notin Copies(j)' /\ conn \notin Copies(j)
        BY <2>5, <2>6, <2>10
      <3>2. \A k \in Conns : k \in Copies(j)' <=> k \in Copies(j)
        BY <2>7, <3>1
      <3> QED
        BY <2>8, <3>2
    <2>11. [j \in Calls |-> Status(j)]' = [j \in Calls |-> Status(j)]
      BY <1>5 DEF SameStatus
    <2>12. [j \in Calls |-> Cardinality(Copies(j))]'
             = [[j \in Calls |-> Cardinality(Copies(j))] EXCEPT ![i] = @ + 1]
      BY <2>6, <2>9, <2>10, InFlight DEF Accounted
    <2>13. Service!Send(i)
      BY <1>0, <1>1, <1>5, <2>11, <2>12 DEF Service!Send, IsData
    <2> QED
      BY <2>13 DEF Service!Next
  <1> QED
    BY <1>6, <1>7

\* The reply that ends a call: what it says is so.
LEMMA TakeServiceStep ==
    ASSUME Served, NEW i \in Calls, TakeReply(i), UNCHANGED <<server, seen, hits>>
    PROVE  [Service!Next]_(Service!vars)
  <1>i. Inductive
    BY DEF Served, Accounted
  <1>t. TypeOK
    BY <1>i DEF Inductive
  <1>0. /\ pc[i] = "await" /\ link[conn].rep # <<>> /\ Head(link[conn].rep).end = "zero"
        /\ link' = Consumed(conn)
        /\ \A j \in Calls : j # i => pc'[j] = pc[j]
        /\ UNCHANGED <<op, mem, seen, hits, job>>
    BY <1>t DEF TakeReply, Return, server, TypeOK, ClientTypeOK
  <1>1. /\ mu = i /\ i # NoCall /\ IsData(op[i]) /\ conn # NoConn
        /\ op[i].kind = "read" => op[i].count > 0
    BY <1>0, <1>i, Holder DEF Active
  <1>2. /\ conn \in Conns /\ link \in [Conns -> Links(Request, Reply)]
        /\ link[conn].rep \in Seq(Reply)
    BY <1>1, <1>t, LinkFacts DEF TypeOK, ClientTypeOK
  <1>3. PICK r \in Reply : r = link[conn].rep[1] /\ r = Head(link[conn].rep)
    BY <1>0, <1>2
  <1>4. 1 \in DOMAIN link[conn].rep
    BY <1>0, <1>2
  <1>5. r.end = "zero" /\ r.call = i /\ Found(i, r.words)
    <2>1. r.call = mu
      BY <1>1, <1>3, <1>4, <1>i DEF Inductive, InStep
    <2>2. r.end = "zero"
      BY <1>0, <1>3
    <2> QED
      BY <1>1, <1>2, <1>3, <1>4, <1>i, <2>1, <2>2 DEF Inductive, Traced, TracedRep
  <1>6. hits[i] > 0
    BY <1>5, <1>t DEF Found, TypeOK
  <1>7. SameCopies
    <2>1. \A k \in Conns : link'[k].req = link[k].req
      BY <1>0, <1>1, <1>2, ConsumedFields
    <2> QED
      BY <1>0, <2>1, SameRequestsSameCopies
  <1>8. r.words \in Seq(Words)
    <2>1. PICK m \in 0 .. MaxWords : r.words \in [1 .. m -> Words]
      BY DEF Reply, Runs
    <2> QED
      BY <2>1, AddrAssumption
  <1>9. CASE op[i].kind = "read"
    <2>1. /\ \/ pc'[i] = "rejected" /\ val' = val
             \/ pc'[i] = "ok" /\ val' = [val EXCEPT ![i] = SubSeq(r.words, 1, op[i].count)]
      BY <1>3, <1>9, <1>t DEF TakeReply, Return, TypeOK, ClientTypeOK
    <2>2. r.words \in seen[i] /\ Len(r.words) = op[i].count
      BY <1>5, <1>9 DEF Found
    <2>3. SubSeq(r.words, 1, op[i].count) = r.words
      BY <1>8, <2>2
    <2>4. \/ pc'[i] = "rejected" /\ val' = val
          \/ pc'[i] = "ok" /\ \E words \in seen[i] : val' = [val EXCEPT ![i] = words]
      BY <2>1, <2>2, <2>3
    <2> QED
      BY <1>0, <1>1, <1>7, <1>9, <2>4, CallStep DEF Waiting
  <1>10. CASE op[i].kind = "write"
    <2>1. \/ pc'[i] = "rejected" /\ val' = val
          \/ pc'[i] = "ok" /\ val' = [val EXCEPT ![i] = SubSeq(r.words, 1, 0)]
      BY <1>3, <1>10, <1>t DEF TakeReply, Return, TypeOK, ClientTypeOK
    <2>2. SubSeq(r.words, 1, 0) = <<>>
      BY <1>8
    <2>3. val[i] = <<>> /\ val \in [Calls -> Runs]
      BY <1>0, <1>t DEF Served, Unset, Waiting, TypeOK, ClientTypeOK
    <2>4. [val EXCEPT ![i] = <<>>] = val
      BY <2>3
    <2>5. val' = val
      BY <2>1, <2>2, <2>4
    <2>6. pc'[i] \in {"rejected", "ok"}
      BY <2>1
    <2> QED
      BY <1>0, <1>6, <1>7, <1>10, <2>5, <2>6, CallStep DEF Waiting
  <1> QED
    BY <1>1, <1>9, <1>10 DEF IsData

\* What the client does without a word to the server.
LEMMA ClientServiceStep ==
    ASSUME Served, ClientSteps
    PROVE  [Service!Next]_(Service!vars)
  <1>i. Inductive
    BY DEF Served, Accounted
  <1>t. TypeOK
    BY <1>i DEF Inductive
  <1>p. pc \in [Calls -> {"new"} \cup Waiting \cup Returned] /\ op \in [Calls -> Ops \cup {NoOp}]
    BY <1>t DEF TypeOK, ClientTypeOK
  <1>0. UNCHANGED <<server, mem, job, seen, hits>>
    BY DEF ClientSteps, server
  <1>1. ASSUME NEW i \in Calls, NEW o \in Ops, Invoke(i, o)
        PROVE  [Service!Next]_(Service!vars)
    <2>1. /\ pc[i] = "new" /\ pc'[i] = "called" /\ op' = [op EXCEPT ![i] = o]
          /\ \A j \in Calls : j # i => pc'[j] = pc[j]
          /\ UNCHANGED <<link, val>>
      BY <1>p, <1>1 DEF Invoke
    <2>2. SameCopies
      BY <1>0, <2>1, SameRequestsSameCopies
    <2>3. [j \in Calls |-> Cardinality(Copies(j))]' = [j \in Calls |-> Cardinality(Copies(j))]
      BY <2>2 DEF SameCopies
    <2>4. /\ Status(i) = "new" /\ Status(i)' = "pending"
          /\ \A j \in Calls : j # i => Status(j)' = Status(j)
      BY <2>1 DEF Status, Waiting
    <2>5. [j \in Calls |-> Status(j)]' = [[j \in Calls |-> Status(j)] EXCEPT ![i] = "pending"]
      BY <2>4
    <2>6. Service!Invoke(i, o)
      BY <1>0, <2>1, <2>3, <2>4, <2>5 DEF Service!Invoke
    <2> QED
      BY <2>6 DEF Service!Next
  <1>2. ASSUME NEW i \in Calls, ReturnLocally(i) \/ Proceed(i) \/ Acquire(i)
        PROVE  [Service!Next]_(Service!vars)
    <2>1. /\ pc[i] \in {"called", "blocked"}
          /\ \A j \in Calls : j # i => pc'[j] = pc[j]
          /\ UNCHANGED <<link, op, val>>
      BY <1>p, <1>2 DEF ReturnLocally, Proceed, Acquire
    <2>2. SameCopies
      BY <1>0, <2>1, SameRequestsSameCopies
    <2>3. \/ pc'[i] \in {"blocked", "attempt", "rejected"}
          \/ pc'[i] = "ok" /\ op[i].kind = "read" /\ op[i].count = 0
      BY <1>p, <1>2 DEF ReturnLocally, Proceed, Acquire
    <2> QED
      BY <1>0, <2>1, <2>2, <2>3, CallStep DEF Waiting
  <1>4. ASSUME NEW i \in Calls,
               \/ OpenFail(i) \/ Close(i)
               \/ \E k \in Conns : job[k] = Resting /\ Open(i, k)
        PROVE  [Service!Next]_(Service!vars)
    <2>1. /\ pc[i] = "blocked" /\ pc'[i] \in {"ok", "failed"}
          /\ op[i].kind \in {"open", "close"}
          /\ \A j \in Calls : j # i => pc'[j] = pc[j]
          /\ UNCHANGED <<op, val>>
      BY <1>p, <1>4 DEF OpenFail, Close, Open
    <2>2. \A k \in Conns : link'[k].req = link[k].req
      <3>1. CASE OpenFail(i) \/ Close(i)
        BY <1>0, <1>i, <3>1, HangUp DEF OpenFail, Close
      <3>2. ASSUME NEW k \in Conns, job[k] = Resting, Open(i, k)
            PROVE  \A j \in Conns : link'[j].req = link[j].req
        <4>1. /\ Free(k) /\ conn' = k /\ job[k].stage = "reading"
              /\ link' = [HungUp(conn) EXCEPT ![k].st = "up"]
          BY <3>2 DEF Open, Resting, OldClosed
        <4> QED
          BY <1>0, <1>i, <4>1, Dial
      <3> QED
        BY <1>4, <3>1, <3>2
    <2> QED
      BY <1>0, <2>1, <2>2, SameRequestsSameCopies, CallStep DEF Waiting
  <1>5. ASSUME NEW i \in Calls,
               ConnectFail(i) \/ TransmitFail(i) \/ RefuseReply(i) \/ ReceiveFail(i)
        PROVE  [Service!Next]_(Service!vars)
    <2>1. /\ pc[i] \in {"attempt", "await"} /\ pc'[i] = "reconnecting"
          /\ \A j \in Calls : j # i => pc'[j] = pc[j]
          /\ UNCHANGED <<op, val>>
          /\ link' = HungUp(conn) /\ conn' = NoConn
      BY <1>p, <1>5 DEF ConnectFail, TransmitFail, RefuseReply, ReceiveFail, AttemptFailed, DropConn
    <2>2. \A k \in Conns : link'[k].req = link[k].req
      BY <1>0, <1>i, <2>1, HangUp
    <2> QED
      BY <1>0, <2>1, <2>2, SameRequestsSameCopies, CallStep DEF Waiting
  <1>6. ASSUME NEW i \in Calls, NEW k \in Conns, job[k] = Resting, Connect(i, k)
        PROVE  [Service!Next]_(Service!vars)
    <2>1. UNCHANGED <<pc, op, val>>
      BY <1>6 DEF Connect, calls
    <2>2. \A j \in Conns : link'[j].req = link[j].req
      BY <1>0, <1>i, <1>6, Dial DEF Connect, HungUp, Dialled, Resting
    <2>3. SameStatus
      BY <2>1 DEF SameStatus, Status
    <2> QED
      BY <1>0, <2>1, <2>2, <2>3, SameRequestsSameCopies, Stutter
  <1>7. ASSUME NEW i \in Calls,
               \/ RedialFail(i)
               \/ \E k \in Conns : job[k] = Resting /\ Redial(i, k)
        PROVE  [Service!Next]_(Service!vars)
    <2>1. pc[i] = "reconnecting" /\ NextAttempt(i) /\ UNCHANGED <<op, val>>
      BY <1>7 DEF RedialFail, Redial
    <2>2. conn = NoConn
      BY <1>i, <2>1, Holder DEF Active
    <2>3. /\ \A j \in Calls : j # i => pc'[j] = pc[j]
          /\ pc'[i] \in {"attempt", "failed"}
      BY <1>p, <2>1 DEF NextAttempt, Return
    <2>4. \A k \in Conns : link'[k].req = link[k].req
      <3>1. CASE RedialFail(i)
        BY <3>1 DEF RedialFail
      <3>2. ASSUME NEW k \in Conns, job[k] = Resting, Redial(i, k)
            PROVE  \A j \in Conns : link'[j].req = link[j].req
        BY <1>0, <1>i, <2>2, <3>2, Dial DEF Redial, HungUp, Dialled, Resting
      <3> QED
        BY <1>7, <3>1, <3>2
    <2> QED
      BY <1>0, <2>1, <2>3, <2>4, SameRequestsSameCopies, CallStep DEF Waiting
  <1>8. ASSUME NEW i \in Calls, TakeReply(i)
        PROVE  [Service!Next]_(Service!vars)
    BY <1>0, <1>8, TakeServiceStep
  <1>9. ASSUME NEW n \in Policies, SetRetryPolicy(n)
        PROVE  [Service!Next]_(Service!vars)
    <2>1. UNCHANGED <<link, pc, op, val>>
      BY <1>9 DEF SetRetryPolicy, calls
    <2>2. SameStatus
      BY <2>1 DEF SameStatus, Status
    <2> QED
      BY <1>0, <2>1, <2>2, SameRequestsSameCopies, Stutter
  <1>10. ASSUME NEW i \in Calls, Transmit(i)
         PROVE  [Service!Next]_(Service!vars)
    BY <1>0, <1>10, SendStep DEF Served
  <1>11. ASSUME NEW k \in Conns, job[k] = Resting, Dials(k)
         PROVE  [Service!Next]_(Service!vars)
    <2>1. PICK i \in Calls : Connect(i, k) \/ Redial(i, k) \/ Open(i, k)
      BY <1>11 DEF Dials
    <2> QED
      BY <1>4, <1>6, <1>7, <1>11, <2>1
  <1>12. ASSUME NEW i \in Calls, Enter(i) \/ Progress(i)
         PROVE  [Service!Next]_(Service!vars)
    BY <1>2, <1>4, <1>5, <1>7, <1>8, <1>10, <1>12 DEF Enter, Progress
  <1> QED
    BY <1>1, <1>9, <1>11, <1>12 DEF ClientSteps


\* The server executes the request of k: the registers of its run, all at once.
LEMMA ExecuteServiceStep ==
    ASSUME Accounted, NEW k \in Conns, ServerExecutes(k)
    PROVE  Service!Next
  <1> DEFINE q == job[k].req
  <1>t. TypeOK /\ Inductive
    BY DEF Accounted, Inductive
  <1>0. /\ job[k].stage = "checked"
        /\ mem' = StoredFrom(q, IF q.cmd = "write" THEN 0 ELSE q.count, mem)
        /\ hits' = [hits EXCEPT ![q.call] = @ + 1]
        /\ seen' = IF q.cmd = "read" THEN [seen EXCEPT ![q.call] = @ \cup {Block(q, mem)}] ELSE seen
        /\ UNCHANGED <<link, pc, op, val>>
    BY DEF ServerExecutes, Execute, client, calls
  <1>1. /\ link[k].req = <<>> /\ q \in Request /\ Sent(q)
    BY <1>0, <1>t, JobFacts
  <1>2. PICK c \in Calls : c = q.call
    BY <1>1 DEF Sent
  <1>3. /\ q.cmd = op[c].kind /\ q.addr = op[c].addr /\ q.count = op[c].count
        /\ q.words = op[c].words /\ op[c].kind \in {"read", "write"}
    BY <1>1, <1>2 DEF Sent, RequestOf, IsData
  <1>4. q.count \in Nat /\ mem \in [Regs -> Words] /\ Service!Registers = Regs
    BY <1>1, <1>t, RunFacts, AddrAssumption DEF TypeOK, Service!Registers, Regs
  <1> DEFINE o == op[c]
  <1>5. \A n \in 1 .. o.count : Service!Cell(o, n) = Reg(q, n - 1)
    BY <1>3, Zenon DEF Service!Cell, Reg
  <1>6. /\ k \in Copies(c)
        /\ Copies(c)' = Copies(c) \ {k}
        /\ \A j \in Calls : j # c => Copies(j)' = Copies(j)
    <2>1. /\ job'[k].stage = "answering"
          /\ \A j \in Conns \ {k} : job'[j] = job[j]
      BY <1>t DEF ServerExecutes, Execute, TypeOK, Jobs
    <2>2. k \in Copies(c)
      BY <1>0, <1>2 DEF Copies
    <2>3. \A j \in Calls : Copies(j)' = Copies(j) \ {k}
      BY <1>0, <1>1, <2>1, Empty DEF Copies
    <2> QED
      BY <1>t, <2>2, <2>3, OneOwner
  <1>7. LET fly == [j \in Calls |-> Cardinality(Copies(j))]
        IN  fly[c] > 0 /\ fly' = [fly EXCEPT ![c] = @ - 1]
    BY <1>6, InFlight DEF Accounted
  <1>8. [j \in Calls |-> Status(j)]' = [j \in Calls |-> Status(j)]
    BY <1>0 DEF Status
  <1>9. CASE q.cmd = "write"
    <2>1. mem' = StoredFrom(q, 0, mem) /\ seen' = seen
      BY <1>0, <1>9
    <2>2. mem' \in [Regs -> Words]
      <3>1. \A j \in 1 .. q.count : q.words[j] \in Words
        BY <1>1, <1>9, RunFacts
      <3>2. StoredFrom(q, 0, mem) \in [Regs -> Words]
        BY <1>1, <1>4, <3>1, StoredType
      <3> QED
        BY <2>1, <3>2
    <2>3. /\ \A n \in 0 .. q.count - 1 : mem'[Reg(q, n)] = q.words[n + 1]
          /\ \A a \in Regs : (\A n \in 0 .. q.count - 1 : Reg(q, n) # a) => mem'[a] = mem[a]
      BY <1>1, <2>1, StoredWhole
    <2>4. ASSUME NEW n \in 1 .. o.count PROVE mem'[Service!Cell(o, n)] = o.words[n]
      <3>1. PICK m \in 0 .. q.count - 1 : m = n - 1 /\ m + 1 = n
        BY <1>3, <1>4
      <3>2. mem'[Reg(q, m)] = q.words[m + 1]
        BY <2>3
      <3>3. Service!Cell(o, n) = Reg(q, m)
        BY <1>5, <3>1
      <3> QED
        BY <1>3, <3>1, <3>2, <3>3
    <2>5. ASSUME NEW a \in Regs, \A n \in 1 .. o.count : Service!Cell(o, n) # a
          PROVE  mem'[a] = mem[a]
      <3>1. ASSUME NEW m \in 0 .. q.count - 1 PROVE Reg(q, m) # a
        <4>1. PICK n \in 1 .. o.count : n - 1 = m
          BY <1>3, <1>4
        <4>2. Service!Cell(o, n) = Reg(q, m)
          BY <1>5, <4>1
        <4> QED
          BY <2>5, <4>2
      <3> QED
        BY <2>3, <3>1
    <2>6. Service!Store(o)
      <3> HIDE DEF o
      <3> QED
        BY <1>4, <2>2, <2>4, <2>5, Zenon DEF Service!Store
    <2>7. Service!Execute(c)
      BY <1>0, <1>2, <1>3, <1>7, <1>8, <1>9, <2>1, <2>6 DEF Service!Execute
    <2> QED
      BY <2>7 DEF Service!Next
  <1>10. CASE q.cmd = "read"
    <2>1. mem' = mem
      <3>1. mem = [a \in Regs |-> mem[a]]
        BY <1>4
      <3>2. StoredFrom(q, q.count, mem) = mem
        BY <1>1, <3>1, NothingStored
      <3> QED
        BY <1>0, <1>10, <3>2
    <2>2. Block(q, mem) = [n \in 1 .. o.count |-> mem[Service!Cell(o, n)]]
      BY <1>3, <1>5 DEF Block
    <2>3. Service!Execute(c)
      BY <1>0, <1>2, <1>3, <1>7, <1>8, <1>10, <2>1, <2>2 DEF Service!Execute
    <2> QED
      BY <2>3 DEF Service!Next
  <1> QED
    BY <1>3, <1>9, <1>10

\* What else the server and the network do: a request is lost, a register is
\* written from outside, or the service sees nothing.
LEMMA ServerServiceStep ==
    ASSUME Accounted, ServerSteps
    PROVE  [Service!Next]_(Service!vars)
  <1>t. TypeOK /\ Inductive
    BY DEF Accounted, Inductive
  <1>q. ASSUME UNCHANGED pc PROVE SameStatus
    BY <1>q DEF SameStatus, Status
  <1>1. ASSUME NEW k \in Conns, ServerTakes(k)
        PROVE  [Service!Next]_(Service!vars)
    <2>1. /\ link[k].req # <<>> /\ link' = Ignored(k) /\ job \in [Conns -> Jobs]
          /\ link[k].req \in Seq(Request) /\ Len(link[k].req) <= 1
          /\ job[k].stage = "reading"
          /\ UNCHANGED <<mem, hits, seen, pc, op, val>>
      BY <1>t, <1>1, LinkFacts
      DEF ServerTakes, TakeRequest, TypeOK, calls, Inductive, OneMessage
    <2>2. PICK q : q = Head(link[k].req)
      OBVIOUS
    <2>3. /\ q = link[k].req[1] /\ DOMAIN link[k].req = {1}
          /\ Tail(link[k].req) = <<>>
      BY <2>1, <2>2, Single
    <2>4. /\ job'[k].req = q
          /\ job'[k].stage = IF failNext \/ q.cmd = "other" THEN "refusing" ELSE "checked"
          /\ \A j \in Conns \ {k} : job'[j] = job[j]
      BY <1>1, <2>1, <2>2 DEF ServerTakes, TakeRequest
    <2>5. \A j \in Conns : link'[j].req = IF j = k THEN <<>> ELSE link[j].req
      BY <1>t, <2>1, <2>3, IgnoredFields DEF TypeOK, ClientTypeOK
    <2>6. SameStatus
      BY <1>q, <2>1
    <2>7. CASE job'[k].stage = "refusing"
      <3>1. \A i \in Calls : k \notin Copies(i)'
        BY <2>5, <2>7, Empty DEF Copies
      <3> QED
        BY <2>1, <2>4, <2>5, <2>6, <3>1, LoseStep
    <2>8. CASE job'[k].stage = "checked"
      <3>1. \A i \in Calls : k \in Copies(i)' <=> k \in Copies(i)
        BY <2>1, <2>3, <2>4, <2>5, <2>8, Empty DEF Copies
      <3>2. \A i \in Calls, j \in Conns \ {k} : j \in Copies(i)' <=> j \in Copies(i)
        BY <2>4, <2>5 DEF Copies
      <3>3. \A i \in Calls : Copies(i) \subseteq Conns /\ Copies(i)' \subseteq Conns
        BY DEF Copies
      <3>4. ASSUME NEW i \in Calls PROVE Copies(i)' = Copies(i)
        <4>1. \A j \in Conns : j \in Copies(i)' <=> j \in Copies(i)
          BY <3>1, <3>2
        <4> QED
          BY <3>3, <4>1
      <3> QED
        BY <2>1, <2>6, <3>4, Stutter DEF SameCopies
    <2> QED
      BY <2>4, <2>7, <2>8
  <1>2. ASSUME NEW k \in Conns, Sever(k)
        PROVE  [Service!Next]_(Service!vars)
    <2>1. link' = Severed(k) /\ UNCHANGED <<job, mem, hits, seen, pc, op, val>>
      BY <1>2 DEF Sever, calls, server
    <2>2. \A j \in Conns : link'[j].req = IF j = k THEN <<>> ELSE link[j].req
      BY <1>t, <2>1, SeveredFields DEF TypeOK, ClientTypeOK
    <2>3. SameStatus
      BY <1>q, <2>1
    <2>4. CASE job[k].stage = "checked"
      <3>1. link[k].req = <<>>
        BY <1>t, <2>4, JobFacts
      <3> QED
        BY <2>1, <2>2, <2>3, <3>1, SameRequestsSameCopies, Stutter
    <2>5. CASE job[k].stage # "checked"
      <3>1. \A i \in Calls : k \notin Copies(i)'
        BY <2>1, <2>2, <2>5, Empty DEF Copies
      <3> QED
        BY <2>1, <2>2, <2>3, <3>1, LoseStep
    <2> QED
      BY <2>4, <2>5
  <1>3. ASSUME NEW k \in Conns, Respond(k), UNCHANGED <<client, seen, hits>>
        PROVE  [Service!Next]_(Service!vars)
    <2>1. /\ UNCHANGED <<mem, hits, seen, pc, op, val>>
          /\ job[k].stage # "checked"
          /\ job' = [job EXCEPT ![k] = Resting] /\ job \in [Conns -> Jobs]
      BY <1>t, <1>3 DEF Respond, client, calls, TypeOK
    <2>2. \A j \in Conns : link'[j].req = link[j].req
      BY <1>t, <1>3 DEF Respond, TypeOK, ClientTypeOK, Links
    <2>3. job'[k].stage = "reading" /\ \A j \in Conns \ {k} : job'[j] = job[j]
      BY <2>1 DEF Resting
    <2>4. SameCopies
      BY <2>1, <2>2, <2>3 DEF Copies, SameCopies
    <2> QED
      BY <1>q, <2>1, <2>4, Stutter
  <1>4. ASSUME NEW k \in Conns, DropConnection(k), UNCHANGED <<client, seen, hits>>
        PROVE  [Service!Next]_(Service!vars)
    <2>1. /\ link' = [link EXCEPT ![k].req = <<>>] /\ job[k].stage = "reading"
          /\ UNCHANGED <<job, mem, hits, seen, pc, op, val>>
      BY <1>4 DEF DropConnection, client, calls, server
    <2>2. \A j \in Conns : link'[j].req = IF j = k THEN <<>> ELSE link[j].req
      BY <1>t, <2>1 DEF TypeOK, ClientTypeOK, Links
    <2>3. \A i \in Calls : k \notin Copies(i)'
      BY <2>1, <2>2, Empty DEF Copies
    <2> QED
      BY <1>q, <2>1, <2>2, <2>3, LoseStep
  <1>5. ASSUME Control, UNCHANGED <<client, seen, hits>>
        PROVE  [Service!Next]_(Service!vars)
    <2>1. UNCHANGED <<link, job, hits, seen, pc, op, val>>
      BY <1>5 DEF Control, SetWord, FailNextRequest, StopListening, client, calls
    <2>2. SameCopies /\ SameStatus
      BY <1>q, <2>1, SameRequestsSameCopies
    <2>3. CASE mem' = mem
      BY <2>1, <2>2, <2>3, Stutter
    <2>4. CASE \E a \in Regs, w \in Words : mem' = [mem EXCEPT ![a] = w]
      <3>1. PICK a \in Regs, w \in Words : mem' = [mem EXCEPT ![a] = w]
        BY <2>4
      <3>2. /\ [j \in Calls |-> Status(j)]' = [j \in Calls |-> Status(j)]
            /\ [j \in Calls |-> Cardinality(Copies(j))]' = [j \in Calls |-> Cardinality(Copies(j))]
        BY <2>2 DEF SameCopies, SameStatus
      <3>3. Service!SetWord(a, w)
        BY <2>1, <3>1, <3>2 DEF Service!SetWord
      <3> QED
        BY <3>3 DEF Service!Next, Service!Registers, Regs
    <2> QED
      BY <1>5, <2>3, <2>4 DEF Control, SetWord, FailNextRequest, StopListening
  <1> QED
    BY <1>1, <1>2, <1>3, <1>4, <1>5, ExecuteServiceStep DEF ServerSteps

LEMMA UnsetNext == Served /\ [Next]_vars => Unset'
  <1> SUFFICES ASSUME Served, [Next]_vars, NEW i \in Calls,
                      pc'[i] \in {"new"} \cup Waiting
               PROVE  val'[i] = <<>>
    BY DEF Unset
  <1>p. /\ pc \in [Calls -> {"new"} \cup Waiting \cup Returned]
        /\ val \in [Calls -> Runs]
    BY DEF Served, Accounted, Inductive, TypeOK, ClientTypeOK
  <1>1. CASE ~ \E j \in Calls : TakeReply(j)
    <2>1. val' = val
      BY <1>1 DEF Next, ClientSteps, ServerSteps, Dials, Connect, Redial, Open, Invoke, Enter,
                  Progress, SetRetryPolicy, ReturnLocally, Proceed, Acquire, OpenFail, Close,
                  ConnectFail, Transmit, TransmitFail, RefuseReply, ReceiveFail, RedialFail,
                  ServerTakes, ServerExecutes, Sever, client, calls, vars
    <2>2. pc[i] \in {"new"} \cup Waiting
      BY <1>1, <1>p DEF Next, ClientSteps, ServerSteps, Dials, Connect, Redial, Open, Invoke, Enter,
                  Progress, SetRetryPolicy, ReturnLocally, Proceed, Acquire, OpenFail, Close,
                  ConnectFail, Transmit, TransmitFail, RefuseReply, ReceiveFail, RedialFail,
                  ServerTakes, ServerExecutes, Sever, client, calls, vars, AttemptFailed,
                  NextAttempt, Return, Waiting, Returned
    <2> QED
      BY <2>1, <2>2 DEF Served, Unset
  <1>2. ASSUME NEW j \in Calls, TakeReply(j) PROVE val'[i] = <<>>
    <2>1. /\ pc'[j] \in {"ok", "rejected"}
          /\ \A n \in Calls : n # j => pc'[n] = pc[n] /\ val'[n] = val[n]
      BY <1>2, <1>p DEF TakeReply, Return
    <2>2. i # j
      BY <2>1 DEF Waiting
    <2> QED
      BY <2>1, <2>2 DEF Served, Unset
  <1> QED
    BY <1>1, <1>2

-----------------------------------------------------------------------------
LEMMA ServedInvariant == Spec => []Served
  <1>1. Init => Unset
    BY DEF Init, ClientInit, Unset
  <1>2. Unset /\ Accounted /\ [Next]_vars => Unset'
    BY UnsetNext DEF Served
  <1>3. Unset /\ Accounted <=> Served
    BY DEF Served
  <1> QED
    BY <1>1, <1>2, <1>3, AccountedInvariant, PTL DEF Spec

LEMMA ServiceNext == Served /\ [Next]_vars => [Service!Next]_(Service!vars)
  <1> SUFFICES ASSUME Served, [Next]_vars PROVE [Service!Next]_(Service!vars)
    OBVIOUS
  <1>1. CASE UNCHANGED vars
    <2>1. UNCHANGED <<link, job, mem, op, val, seen, hits, pc>>
      BY <1>1 DEF vars, client, calls, server
    <2>2. SameStatus
      BY <2>1 DEF SameStatus, Status
    <2> QED
      BY <2>1, <2>2, SameRequestsSameCopies, Stutter
  <1> QED
    BY <1>1, ClientServiceStep, ServerServiceStep DEF Next, Served

LEMMA ServiceInit == Init => Service!Init
  <1> SUFFICES ASSUME Init PROVE Service!Init
    OBVIOUS
  <1>1. \A i \in Calls : Copies(i) = {}
    <2>1. \A k \in Conns : link[k].req = <<>> /\ job[k].stage = "reading"
      BY DEF Init, ServerInit, Down, Resting
    <2> QED
      BY <2>1, Empty DEF Copies
  <1>2. \A i \in Calls : Cardinality(Copies(i)) = 0
    BY <1>1, FS_EmptySet
  <1>3. \A i \in Calls : Status(i) = "new"
    BY DEF Init, ClientInit, Status, Waiting
  <1> QED
    BY <1>2, <1>3 DEF Init, ClientInit, ServerInit, Service!Init, Service!Registers, Regs

\* Client, network, server and test implement the service of runs of registers,
\* whatever the interleaving of calls, retries, faults, executions and writes
\* from outside: a caller sees at least once execution, each whole and at one
\* moment, and of a read only what was found for that call.
THEOREM Implementation == Spec => ImplementsService
  <1>1. Init => Service!Init
    BY ServiceInit
  <1>2. Served /\ [Next]_vars => [Service!Next]_(Service!vars)
    BY ServiceNext
  <1> QED
    BY <1>1, <1>2, ServedInvariant, PTL DEF Spec, ImplementsService, Service!Spec

=============================================================================
