------------------------- MODULE ModbusClientProofs -------------------------
(***************************************************************************)
(* Theorems about ModbusClient and SerialModbusClient, for every set of    *)
(* calls, connections, registers and policies, and for every wire mode;    *)
(* and about ModbusFrames, for any checksums.                              *)
(***************************************************************************)
EXTENDS SerialModbusClient, ModbusFrames, WireProofs, FiniteSetTheorems,
        SequenceTheorems, WellFoundedInduction

\* What is on the wire names a call.
LEMMA OnTheWire ==
    ASSUME TypeOK, NEW k \in Conns
    PROVE  /\ link[k].req \in Seq(Request)
           /\ link[k].rep \in Seq(Reply)
           /\ \A n \in DOMAIN link[k].req :
                 link[k].req[n] \in Request /\ link[k].req[n].call \in Calls
           /\ \A n \in DOMAIN link[k].rep :
                 link[k].rep[n] \in Reply /\ link[k].rep[n].call \in Calls
  <1>1. link \in [Conns -> Links(Request, Reply)]
    BY DEF TypeOK
  <1>2. /\ link[k].req \in Seq(Request)
        /\ link[k].rep \in Seq(Reply)
        /\ \A n \in DOMAIN link[k].req : link[k].req[n] \in Request
        /\ \A n \in DOMAIN link[k].rep : link[k].rep[n] \in Reply
    BY <1>1, WireElements
  <1>3. /\ \A q \in Request : q.call \in Calls
        /\ \A r \in Reply : r.call \in Calls
    BY DEF Request, Reply
  <1> QED
    BY <1>2, <1>3

\* A read or a write has an address, and a write a value.
LEMMA DataOps ==
    ASSUME NEW o \in Ops \cup {NoOp}, IsData(o)
    PROVE  o.addr \in Addrs /\ (o.kind = "write" => o.val \in Vals)
  BY DEF Ops, NoOp, IsData

LEMMA InitType == Init => TypeOK
  <1> SUFFICES ASSUME Init PROVE TypeOK
    OBVIOUS
  <1>1. Down \in Links(Request, Reply)
    BY DEF Down, Links
  <1>2. link \in [Conns -> Links(Request, Reply)]
    BY <1>1 DEF Init
  <1>3. transID \in 0 .. TransMod - 1
    BY TransAssumption DEF Init
  <1> QED
    BY <1>2, <1>3, PolicyAssumption DEF Init, TypeOK

\* The next transaction identifier fits the field of the header.
LEMMA NextTransIDType ==
    ASSUME transID \in 0 .. TransMod - 1
    PROVE  NextTransID \in 0 .. TransMod - 1
  BY TransAssumption, SMT DEF NextTransID

\* A failed attempt keeps the types of what it changes.
LEMMA AttemptFailedType ==
    ASSUME TypeOK, NEW i \in Calls, AttemptFailed(i)
    PROVE  /\ link' \in [Conns -> Links(Request, Reply)]
           /\ mu' \in Calls \cup {NoCall}
           /\ conn' \in Conns \cup {NoConn}
           /\ attempt' \in Nat
           /\ pc' \in [Calls -> {"new"} \cup Waiting \cup Returned]
  <1>1. link' \in [Conns -> Links(Request, Reply)]
    BY WireTypes DEF AttemptFailed, CloseLocked, MoreAttempts, TypeOK, HungUp
  <1> QED
    BY <1>1 DEF AttemptFailed, CloseLocked, MoreAttempts, Return, TypeOK, Waiting, Returned

\* A fault more is counted for one call only, and only while it matters.
LEMMA MoreFaultsFacts ==
    ASSUME faults \in [Calls -> Nat], budget \in [Calls -> Nat],
           NEW i \in Calls
    PROVE  /\ MoreFaults(i) \in [Calls -> Nat]
           /\ \A j \in Calls : MoreFaults(i)[j] >= faults[j]
           /\ \A j \in Calls : j # i => MoreFaults(i)[j] = faults[j]
           /\ faults[i] <= budget[i] => MoreFaults(i)[i] = faults[i] + 1
           /\ faults[i] > budget[i] => MoreFaults(i)[i] = faults[i]
  BY DEF MoreFaults

\* A call that takes its reply returns with "ok" or "rejected".
LEMMA TakeReplyReturns ==
    ASSUME NEW i \in Calls, TakeReply(i)
    PROVE  \E outcome \in {"ok", "rejected"} : Return(i, outcome)
  BY DEF TakeReply

\* What the execution of a request changes.
LEMMA ExecuteFacts ==
    ASSUME TypeOK, NEW q \in Request, IsData(op[q.call]), Execute(q)
    PROVE  /\ store' \in [Addrs -> Vals \cup {InitVal}]
           /\ seen' \in [Calls -> SUBSET (Vals \cup {InitVal})]
           /\ hits' \in [Calls -> Nat]
           /\ \A j \in Calls : seen[j] \subseteq seen'[j] /\ hits[j] <= hits'[j]
           /\ hits'[q.call] >= 1
           /\ op[q.call].kind = "read" =>
                 store[op[q.call].addr] \in seen'[q.call]
  <1> DEFINE o == op[q.call]
  <1>1. q.call \in Calls
    BY DEF Request
  <1>2. o.addr \in Addrs /\ (o.kind = "write" => o.val \in Vals)
    BY <1>1 DEF TypeOK, Ops, NoOp, IsData
  <1>3. store[o.addr] \in Vals \cup {InitVal}
    BY <1>2 DEF TypeOK
  <1>4. hits' = [hits EXCEPT ![q.call] = @ + 1] /\ hits \in [Calls -> Nat]
    BY DEF Execute, TypeOK
  <1>5. store \in [Addrs -> Vals \cup {InitVal}]
        /\ seen \in [Calls -> SUBSET (Vals \cup {InitVal})]
    BY DEF TypeOK
  <1>6. CASE o.kind = "write"
    <2>1. store' = [store EXCEPT ![o.addr] = o.val] /\ seen' = seen
      BY <1>6 DEF Execute
    <2>2. store' \in [Addrs -> Vals \cup {InitVal}]
      BY <1>2, <1>5, <1>6, <2>1
    <2>3. /\ hits' \in [Calls -> Nat]
          /\ \A j \in Calls : hits[j] <= hits'[j]
          /\ hits'[q.call] >= 1
      BY <1>1, <1>4
    <2> QED
      BY <1>5, <1>6, <2>1, <2>2, <2>3
  <1>7. CASE o.kind # "write"
    <2>1. /\ seen' = [seen EXCEPT ![q.call] = @ \cup {store[o.addr]}]
          /\ store' = store
      BY <1>7 DEF Execute
    <2> QED
      BY <1>1, <1>3, <1>4, <1>5, <2>1
  <1> QED
    BY <1>6, <1>7

LEMMA NextType == TypeOK /\ LockHeld /\ Traced /\ [Next]_vars => TypeOK'
  <1> SUFFICES ASSUME TypeOK, LockHeld, Traced, [Next]_vars PROVE TypeOK'
    OBVIOUS
  <1> USE DEF TypeOK
  <1>1. ASSUME NEW i \in Calls, NEW o \in Ops, Invoke(i, o) PROVE TypeOK'
    BY <1>1 DEF Invoke, client, history, Waiting
  <1>2. ASSUME NEW i \in Calls, ReturnLocally(i) PROVE TypeOK'
    BY <1>2 DEF ReturnLocally, client, history, Returned
  <1>3. ASSUME NEW i \in Calls, Acquire(i) PROVE TypeOK'
    BY <1>3 DEF Acquire, Waiting
  <1>4. ASSUME NEW i \in Calls, NEW k \in Conns, Open(i, k) PROVE TypeOK'
    <2>1. HungUp(conn) \in [Conns -> Links(Request, Reply)]
      BY WireTypes DEF HungUp
    <2>2. link' \in [Conns -> Links(Request, Reply)]
      BY <1>4, <2>1 DEF Open, OldClosed, Links
    <2> QED
      BY <1>4, <2>2 DEF Open, history, Returned
  <1>5. ASSUME NEW i \in Calls, OpenFail(i) PROVE TypeOK'
    <2>1. link' \in [Conns -> Links(Request, Reply)]
      BY <1>5, WireTypes DEF OpenFail, OldClosed, HungUp
    <2> QED
      BY <1>5, <2>1 DEF OpenFail, history, Returned
  <1>6. ASSUME NEW i \in Calls, Close(i) PROVE TypeOK'
    <2>1. link' \in [Conns -> Links(Request, Reply)]
      BY <1>6, WireTypes DEF Close, HungUp
    <2> QED
      BY <1>6, <2>1 DEF Close, history, Returned
  <1>7. ASSUME NEW i \in Calls, NEW k \in Conns, Connect(i, k) PROVE TypeOK'
    BY <1>7, WireTypes DEF Connect, calls, history
  <1>8. ASSUME NEW i \in Calls, ConnectFail(i) PROVE TypeOK'
    BY <1>8, AttemptFailedType DEF ConnectFail, MoreFaults
  <1>9. ASSUME NEW i \in Calls, Transmit(i) PROVE TypeOK'
    <2>1. [call |-> i, tid |-> NextTransID] \in Request
      BY NextTransIDType DEF Request
    <2>2. link' \in [Conns -> Links(Request, Reply)]
      BY <1>9, <2>1, WireTypes DEF Transmit, SentTransID, SentTransID
    <2> QED
      BY <1>9, <2>2, NextTransIDType DEF Transmit, SentTransID, history, Waiting
  <1>10. ASSUME NEW i \in Calls, TransmitFail(i) PROVE TypeOK'
    BY <1>10, AttemptFailedType, NextTransIDType DEF TransmitFail, MoreFaults
  <1>11. ASSUME NEW i \in Calls, RefuseReply(i) PROVE TypeOK'
    BY <1>11, AttemptFailedType DEF RefuseReply, history
  <1>12. ASSUME NEW i \in Calls, TakeReply(i) PROVE TypeOK'
    <2>1. conn \in Conns /\ link[conn].rep # <<>>
      BY <1>12 DEF TakeReply, LockHeld
    <2>2. link' \in [Conns -> Links(Request, Reply)]
      BY <1>12, <2>1, WireTypes DEF TakeReply
    <2>3. link[conn].rep \in Seq(Reply)
      BY <2>1 DEF Links
    <2>4. Head(link[conn].rep) \in Reply
      BY <2>1, <2>3
    <2>5. Head(link[conn].rep).val \in Vals \cup {InitVal, NoVal}
      BY <2>4 DEF Reply
    <2>6. val' \in [Calls -> Vals \cup {InitVal, NoVal}]
      BY <1>12, <2>5 DEF TakeReply
    <2>7. /\ mu' \in Calls \cup {NoCall}
          /\ attempt' \in Nat
          /\ pc' \in [Calls -> {"new"} \cup Waiting \cup Returned]
      BY <1>12, TakeReplyReturns DEF Return, Returned
    <2> QED
      BY <1>12, <2>2, <2>6, <2>7 DEF TakeReply, history
  <1>13. ASSUME NEW i \in Calls, ReceiveFail(i) PROVE TypeOK'
    BY <1>13, AttemptFailedType DEF ReceiveFail, MoreFaults
  <1>14. ASSUME NEW n \in Policies, SetRetryPolicy(n) PROVE TypeOK'
    BY <1>14, PolicyAssumption DEF SetRetryPolicy, Normalize, calls, history
  <1>15. ASSUME NEW k \in Conns, NEW kind \in ReplyKinds, Serve(k, kind)
         PROVE  TypeOK'
    <2> DEFINE q == Head(link[k].req)
    <2>1. link[k].req \in Seq(Request) /\ link[k].req # <<>>
      BY <1>15 DEF Serve, Links
    <2>2. q \in Request
      BY <2>1
    <2>3. q.call \in Calls /\ IsData(op[q.call])
      BY <2>1, <2>2, QueueFacts DEF Traced, Request
    <2>4. op[q.call].addr \in Addrs /\ op[q.call].val \in Vals \cup {NoVal}
      BY <2>3 DEF Ops, NoOp, IsData
    <2>5. op[q.call].kind = "write" => op[q.call].val \in Vals
      BY <2>3 DEF Ops, NoOp, IsData
    <2>6. ReplyTo(q, kind) \in Reply
      BY <2>2, <2>4 DEF ReplyTo, Reply, Request
    <2>7. link' \in [Conns -> Links(Request, Reply)]
      BY <1>15, <2>1, <2>6, WireTypes DEF Serve
    <2>8. /\ store' \in [Addrs -> Vals \cup {InitVal}]
          /\ seen' \in [Calls -> SUBSET (Vals \cup {InitVal})]
          /\ hits' \in [Calls -> Nat]
      <3>1. CASE kind = "exception"
        BY <1>15, <3>1 DEF Serve
      <3>2. CASE kind # "exception"
        <4>1. Execute(q)
          BY <1>15, <3>2 DEF Serve
        <4> QED
          BY <2>2, <2>3, <4>1, ExecuteFacts
      <3> QED
        BY <3>1, <3>2
    <2>9. faults' \in [Calls -> Nat]
      BY <1>15, <2>3 DEF Serve, MoreFaults
    <2> QED
      BY <1>15, <2>7, <2>8, <2>9 DEF Serve, client, calls
  <1>16. ASSUME NEW k \in Conns, Ignore(k) PROVE TypeOK'
    BY <1>16, WireTypes DEF Ignore, client, calls, history
  <1>17. ASSUME NEW k \in Conns, Sever(k) PROVE TypeOK'
    <2>1. link' \in [Conns -> Links(Request, Reply)]
      BY <1>17, WireTypes DEF Sever
    <2>2. faults' \in [Calls -> Nat]
      BY <1>17, MoreFaultsFacts DEF Sever
    <2> QED
      BY <1>17, <2>1, <2>2 DEF Sever, client, calls
  <1>18. CASE UNCHANGED vars
    BY <1>18 DEF vars, client, calls, history
  <1> QED
    BY <1>1, <1>2, <1>3, <1>4, <1>5, <1>6, <1>7, <1>8, <1>9, <1>10, <1>11,
       <1>12, <1>13, <1>14, <1>15, <1>16, <1>17, <1>18
    DEF Next, Enter, Progress, Device

-----------------------------------------------------------------------------
\* Closing the client's connection leaves it with none, and its device with
\* the requests it had.
LEMMA HangUpFacts ==
    ASSUME Inductive, link' = HungUp(conn), conn' = NoConn
    PROVE  /\ \A k \in Conns :
                 /\ link'[k].req = link[k].req
                 /\ link'[k].rep = link[k].rep \/ link'[k].rep = <<>>
                 /\ link'[k].st = "down"
           /\ SocketHeld'
           /\ OneSocket'
           /\ StreamInSync'
  <1>1. \A k \in Conns :
           /\ link'[k].st = IF k = conn THEN "down" ELSE link[k].st
           /\ link'[k].req = link[k].req
           /\ link'[k].rep = IF k = conn THEN <<>> ELSE link[k].rep
    BY HungUpFields DEF Inductive, TypeOK
  <1>2. \A k \in Conns : link'[k].st = "down"
    BY <1>1 DEF Inductive, OneSocket
  <1>3. \A k \in Conns : link'[k].rep = <<>>
    BY <1>1, <1>2 DEF Inductive, OneSocket, SocketHeld
  <1> QED
    BY <1>1, <1>2, <1>3 DEF SocketHeld, OneSocket, StreamInSync

\* Queues that only shrink, calls that only move on and a device that only
\* reports more keep what is on the wire traced to a call.
LEMMA TracedKept ==
    ASSUME Traced, TypeOK, TypeOK',
           \A k \in Conns :
               /\ \A n \in DOMAIN link'[k].req : \E m \in DOMAIN link[k].req :
                      link'[k].req[n] = link[k].req[m]
               /\ \A n \in DOMAIN link'[k].rep : \E m \in DOMAIN link[k].rep :
                      link'[k].rep[n] = link[k].rep[m],
           \A j \in Calls : pc[j] # "new" => pc'[j] # "new" /\ op'[j] = op[j],
           \A j \in Calls : seen[j] \subseteq seen'[j] /\ hits[j] <= hits'[j]
    PROVE  Traced'
  <1>1. ASSUME NEW k \in Conns, NEW n \in DOMAIN link'[k].req
        PROVE  LET i == link'[k].req[n].call IN pc'[i] # "new" /\ IsData(op'[i])
    <2>1. PICK m \in DOMAIN link[k].req : link'[k].req[n] = link[k].req[m]
      OBVIOUS
    <2>2. link[k].req[m].call \in Calls
      BY OnTheWire
    <2> QED
      BY <2>1, <2>2 DEF Traced
  <1>2. ASSUME NEW k \in Conns, NEW n \in DOMAIN link'[k].rep
        PROVE  LET r == link'[k].rep[n] IN
               /\ pc'[r.call] # "new"
               /\ r.kind = "normal" =>
                     /\ hits'[r.call] >= 1
                     /\ op'[r.call].kind = "read" => r.val \in seen'[r.call]
    <2>1. PICK m \in DOMAIN link[k].rep : link'[k].rep[n] = link[k].rep[m]
      OBVIOUS
    <2>2. link[k].rep[m].call \in Calls
      BY OnTheWire
    <2>3. hits[link[k].rep[m].call] \in Nat /\ hits'[link[k].rep[m].call] \in Nat
      BY <2>2 DEF TypeOK
    <2> QED
      BY <2>1, <2>2, <2>3 DEF Traced
  <1> QED
    BY <1>1, <1>2 DEF Traced

\* In particular a step that leaves the wire and the device alone does.
LEMMA TracedUnchanged ==
    ASSUME Traced, TypeOK, TypeOK', UNCHANGED <<link, seen, hits>>,
           \A j \in Calls : pc[j] # "new" => pc'[j] # "new" /\ op'[j] = op[j]
    PROVE  Traced'
  <1>1. \A j \in Calls : seen[j] \subseteq seen'[j] /\ hits[j] <= hits'[j]
    BY DEF TypeOK
  <1>2. \A k \in Conns : link'[k].req = link[k].req /\ link'[k].rep = link[k].rep
    OBVIOUS
  <1> QED
    BY <1>1, <1>2, TracedKept

\* The connection stays in step while nobody touches it.
LEMMA StreamUnchanged ==
    ASSUME StreamInSync, TypeOK, UNCHANGED <<link, mu, conn, transID>>,
           \A j \in Calls : pc[j] = "await" => pc'[j] = "await"
    PROVE  StreamInSync'
  <1> SUFFICES ASSUME conn # NoConn PROVE StreamInSync'
    BY DEF StreamInSync
  <1>1. conn \in Conns
    BY DEF TypeOK
  <1>2. /\ \A n \in DOMAIN link[conn].req : link[conn].req[n].call \in Calls
        /\ \A n \in DOMAIN link[conn].rep : link[conn].rep[n].call \in Calls
    BY <1>1, OnTheWire
  <1> QED
    BY <1>2 DEF StreamInSync, Awaited

\* A connection that carries nothing is in step.
LEMMA StreamEmpty ==
    ASSUME conn' # NoConn => link'[conn'].req = <<>> /\ link'[conn'].rep = <<>>
    PROVE  StreamInSync'
  <1>1. \A s, t : s = <<>> /\ t = <<>> =>
            Len(s) + Len(t) <= 1 /\ DOMAIN s = {} /\ DOMAIN t = {}
    OBVIOUS
  <1>2. ASSUME conn' # NoConn
        PROVE  /\ Len(link'[conn'].req) + Len(link'[conn'].rep) <= 1
               /\ DOMAIN link'[conn'].req = {}
               /\ DOMAIN link'[conn'].rep = {}
    BY <1>1, <1>2, Zenon
  <1> QED
    BY <1>2, Zenon DEF StreamInSync

\* The results of calls that have returned stay right while those calls, and
\* what the device did for them, are left alone.
LEMMA ResultsKept ==
    ASSUME Inductive, TypeOK',
           \A j \in Calls : pc'[j] \in {"ok", "failed"} /\ IsData(op'[j]) =>
               /\ pc'[j] = pc[j]
               /\ op'[j] = op[j]
               /\ val'[j] = val[j]
               /\ budget'[j] = budget[j]
               /\ faults'[j] >= faults[j]
               /\ seen[j] \subseteq seen'[j]
               /\ hits[j] <= hits'[j]
    PROVE  ReadFresh' /\ WriteTookEffect' /\ RetryMasksFaults'
  <1>1. \A j \in Calls : /\ hits[j] \in Nat /\ hits'[j] \in Nat
                         /\ faults[j] \in Nat /\ faults'[j] \in Nat
                         /\ budget[j] \in Nat /\ budget'[j] \in Nat
    BY DEF Inductive, TypeOK
  <1>2. ReadFresh'
    BY DEF Inductive, ReadFresh, IsData
  <1>3. WriteTookEffect'
    BY <1>1 DEF Inductive, WriteTookEffect, IsData
  <1>4. RetryMasksFaults'
    BY <1>1 DEF Inductive, RetryMasksFaults
  <1> QED
    BY <1>2, <1>3, <1>4

\* A failed attempt keeps the invariant if a fault accounts for it.
LEMMA AttemptFailedSafe ==
    ASSUME Inductive, TypeOK', NEW i \in Calls, mu = i, AttemptFailed(i),
           UNCHANGED <<op, val, budget, seen, hits>>,
           \A j \in Calls : faults'[j] >= faults[j],
           faults'[i] >= attempt + 1
    PROVE  Inductive'
  <1>1. SocketHeld' /\ OneSocket' /\ StreamInSync'
    BY HangUpFacts DEF AttemptFailed, CloseLocked, MoreAttempts
  <1>2. pc[i] \in {"attempt", "await"} /\ IsData(op[i]) /\ attempt <= budget[i]
    BY DEF Inductive, LockHeld
  <1>3. \A j \in Calls : j # i => pc'[j] = pc[j] /\ pc[j] \notin {"attempt", "await"}
    BY DEF Inductive, LockHeld, TypeOK, AttemptFailed, CloseLocked, MoreAttempts, Return
  <1>4. attempt \in Nat /\ budget[i] \in Nat /\ faults'[i] \in Nat
    BY DEF Inductive, TypeOK
  <1>5. \/ /\ attempt < budget[i] /\ attempt' = attempt + 1
           /\ pc'[i] = "attempt" /\ mu' = i
        \/ /\ attempt = budget[i]
           /\ pc'[i] = "failed" /\ mu' = NoCall
    BY <1>2, <1>4 DEF AttemptFailed, CloseLocked, MoreAttempts, Return, Inductive, TypeOK
  <1>6. LockHeld'
    BY <1>2, <1>3, <1>4, <1>5, CallAssumption DEF LockHeld
  <1>7. Traced'
    <2>1. \A k \in Conns : /\ link'[k].req = link[k].req
                           /\ link'[k].rep = link[k].rep \/ link'[k].rep = <<>>
      BY HangUpFacts DEF AttemptFailed, CloseLocked, MoreAttempts
    <2>2. \A j \in Calls : pc[j] # "new" => pc'[j] # "new"
      BY <1>3, <1>5
    <2>3. \A j \in Calls : seen[j] \subseteq seen'[j] /\ hits[j] <= hits'[j]
      BY DEF Inductive, TypeOK
    <2>4. DOMAIN <<>> = {}
      OBVIOUS
    <2> QED
      BY <2>1, <2>2, <2>3, <2>4, TracedKept DEF Inductive
  <1>8. FaultsCharged'
    <2>1. conn' = NoConn
      BY DEF AttemptFailed, CloseLocked, MoreAttempts
    <2> QED
      BY <1>4, <1>5, <2>1, CallAssumption DEF FaultsCharged, Doomed
  <1>9. ReadFresh' /\ WriteTookEffect' /\ RetryMasksFaults'
    <2>1. ReadFresh'
      BY <1>3, <1>5 DEF Inductive, ReadFresh
    <2>2. WriteTookEffect'
      BY <1>3, <1>5 DEF Inductive, WriteTookEffect
    <2>3. ASSUME NEW j \in Calls, pc'[j] = "failed", IsData(op'[j])
          PROVE  faults'[j] > budget'[j]
      <3>1. CASE j = i
        BY <1>4, <1>5, <2>3, <3>1
      <3>2. CASE j # i
        <4>1. faults[j] > budget[j]
          BY <1>3, <2>3, <3>2 DEF Inductive, RetryMasksFaults
        <4>2. faults[j] \in Nat /\ faults'[j] \in Nat /\ budget[j] \in Nat
          BY DEF Inductive, TypeOK
        <4> QED
          BY <4>1, <4>2
      <3> QED
        BY <3>1, <3>2
    <2> QED
      BY <2>1, <2>2, <2>3 DEF RetryMasksFaults
  <1> QED
    BY <1>1, <1>6, <1>7, <1>8, <1>9 DEF Inductive

\* A step of the public methods, with nobody inside sendPDU, that closes or
\* replaces the connection, or leaves it alone.
LEMMA IdleConnection ==
    ASSUME Inductive, mu = NoCall
    PROVE  /\ conn # NoConn => link[conn].req = <<>> /\ link[conn].rep = <<>>
           /\ \A i \in Calls : pc[i] \notin {"attempt", "await"}
  <1>1. \A i \in Calls : pc[i] \notin {"attempt", "await"}
    BY CallAssumption DEF Inductive, LockHeld
  <1>2. ASSUME conn # NoConn
        PROVE  link[conn].req = <<>> /\ link[conn].rep = <<>>
    <2>1. conn \in Conns
      BY <1>2 DEF Inductive, TypeOK
    <2>2. DOMAIN link[conn].req = {} /\ DOMAIN link[conn].rep = {}
      BY <1>2, <2>1, OnTheWire, CallAssumption
      DEF Inductive, StreamInSync, Awaited
    <2> QED
      BY <2>1, <2>2, OnTheWire, QueueFacts DEF Inductive
  <1> QED
    BY <1>1, <1>2

\* An Open that succeeds leaves a connection that carries nothing, whether it is
\* a new one or the one it has just closed.
LEMMA OpenSafe ==
    ASSUME Inductive, TypeOK', NEW i \in Calls, NEW k \in Conns, mu = NoCall,
           UNCHANGED <<mu, attempt, transID, op, val, budget, seen, hits, faults>>,
           conn' = k, link' = [HungUp(conn) EXCEPT ![k].st = "up"],
           link[k].req = <<>>, k # conn => link[k].rep = <<>>,
           \A j \in Calls : j # i => pc'[j] = pc[j],
           pc'[i] = "ok", pc[i] = "blocked", ~ IsData(op[i])
    PROVE  Inductive'
  <1>t. TypeOK /\ \A j \in Calls : pc[j] \notin {"attempt", "await"}
    BY IdleConnection DEF Inductive
  <1>1. LockHeld'
    BY <1>t, CallAssumption, NoConnAssumption DEF LockHeld
  <1>2. /\ HungUp(conn) \in [Conns -> Links(Request, Reply)]
        /\ \A j \in Conns :
              /\ HungUp(conn)[j].st = IF j = conn THEN "down" ELSE link[j].st
              /\ HungUp(conn)[j].req = link[j].req
              /\ HungUp(conn)[j].rep = IF j = conn THEN <<>> ELSE link[j].rep
    BY <1>t, WireTypes, HungUpFields DEF TypeOK, HungUp
  <1>3. \A j \in Conns :
            /\ link'[j].st = IF j = k THEN "up" ELSE HungUp(conn)[j].st
            /\ link'[j].req = link[j].req
            /\ link'[j].rep = HungUp(conn)[j].rep
    BY <1>2 DEF Links
  <1>4. SocketHeld' /\ OneSocket'
    BY <1>2, <1>3 DEF Inductive, SocketHeld, OneSocket
  <1>5. link'[k].req = <<>> /\ link'[k].rep = <<>>
    BY <1>2, <1>3
  <1>6. StreamInSync'
    BY <1>5, StreamEmpty
  <1>7. Traced'
    <2>1. \A j \in Conns : /\ link'[j].req = link[j].req
                           /\ link'[j].rep = link[j].rep \/ link'[j].rep = <<>>
      BY <1>2, <1>3
    <2>2. DOMAIN <<>> = {}
      OBVIOUS
    <2>3. \A j \in Conns :
              /\ \A n \in DOMAIN link'[j].req : \E m \in DOMAIN link[j].req :
                     link'[j].req[n] = link[j].req[m]
              /\ \A n \in DOMAIN link'[j].rep : \E m \in DOMAIN link[j].rep :
                     link'[j].rep[n] = link[j].rep[m]
      BY <2>1, <2>2
    <2>4. /\ \A j \in Calls : pc[j] # "new" => pc'[j] # "new" /\ op'[j] = op[j]
          /\ \A j \in Calls : seen[j] \subseteq seen'[j] /\ hits[j] <= hits'[j]
      BY <1>t DEF TypeOK
    <2> QED
      BY <2>3, <2>4, TracedKept DEF Inductive
  <1>8. FaultsCharged'
    BY CallAssumption DEF FaultsCharged
  <1>9. ReadFresh' /\ WriteTookEffect' /\ RetryMasksFaults'
    <2>1. \A j \in Calls : /\ seen[j] \subseteq seen'[j] /\ hits[j] <= hits'[j]
                           /\ faults'[j] >= faults[j]
      BY <1>t DEF TypeOK
    <2> QED
      BY <2>1, ResultsKept
  <1> QED
    BY <1>1, <1>4, <1>6, <1>7, <1>8, <1>9 DEF Inductive

LEMMA InductiveNext == Inductive /\ [Next]_vars => Inductive'
  <1> SUFFICES ASSUME Inductive, [Next]_vars PROVE Inductive'
    OBVIOUS
  <1>t. TypeOK /\ TypeOK'
    BY NextType DEF Inductive
  <1>n. /\ \A j \in Calls : /\ hits[j] \in Nat /\ hits'[j] \in Nat
                            /\ faults[j] \in Nat /\ faults'[j] \in Nat
                            /\ budget[j] \in Nat /\ budget'[j] \in Nat
        /\ attempt \in Nat /\ attempt' \in Nat
    BY <1>t DEF TypeOK
  <1>1. ASSUME NEW i \in Calls, NEW o \in Ops, Invoke(i, o) PROVE Inductive'
    <2> USE <1>1 DEF Invoke, client, history
    <2>0. /\ pc' = [pc EXCEPT ![i] = "blocked"] /\ op' = [op EXCEPT ![i] = o]
          /\ mu # i
          /\ pc \in [Calls -> {"new"} \cup Waiting \cup Returned]
          /\ op \in [Calls -> Ops \cup {NoOp}]
      BY <1>t DEF Inductive, LockHeld, TypeOK
    <2>1. LockHeld'
      BY <2>0 DEF Inductive, LockHeld
    <2>2. SocketHeld' /\ OneSocket'
      BY DEF Inductive, SocketHeld, OneSocket
    <2>3. StreamInSync'
      BY <1>t, <2>0, StreamUnchanged DEF Inductive
    <2>4. Traced'
      BY <1>t, <2>0, TracedUnchanged DEF Inductive
    <2>5. FaultsCharged'
      BY DEF Inductive, FaultsCharged, Doomed
    <2>6. ReadFresh' /\ WriteTookEffect' /\ RetryMasksFaults'
      BY <1>t, <1>n, <2>0, ResultsKept
    <2> QED
      BY <1>t, <2>1, <2>2, <2>3, <2>4, <2>5, <2>6 DEF Inductive
  <1>2. ASSUME NEW i \in Calls, ReturnLocally(i) PROVE Inductive'
    <2>0. /\ UNCHANGED <<link, client, op, val, budget, store, history>>
          /\ UNCHANGED <<link, mu, conn, transID, attempt, seen, hits, faults>>
          /\ \A j \in Calls : j # i => pc'[j] = pc[j]
          /\ pc[i] = "blocked" /\ pc'[i] \in {"ok", "rejected"}
          /\ ~ IsData(op[i])
          /\ mu # i
      BY <1>2, <1>t
      DEF ReturnLocally, client, history, IsData, TypeOK, Inductive, LockHeld
    <2>1. LockHeld'
      BY <2>0 DEF Inductive, LockHeld
    <2>2. SocketHeld' /\ OneSocket'
      BY <2>0 DEF Inductive, SocketHeld, OneSocket
    <2>3. StreamInSync'
      BY <1>t, <2>0, StreamUnchanged DEF Inductive
    <2>4. Traced'
      BY <1>t, <2>0, TracedUnchanged DEF Inductive
    <2>5. FaultsCharged'
      BY <2>0 DEF Inductive, FaultsCharged, Doomed
    <2>6. ReadFresh' /\ WriteTookEffect' /\ RetryMasksFaults'
      BY <1>t, <1>n, <2>0, ResultsKept
    <2> QED
      BY <1>t, <2>1, <2>2, <2>3, <2>4, <2>5, <2>6 DEF Inductive
  <1>3. ASSUME NEW i \in Calls, Acquire(i) PROVE Inductive'
    <2>0. /\ UNCHANGED <<link, conn, transID, op, val, seen, hits>>
          /\ mu = NoCall /\ mu' = i
          /\ attempt' = 0
          /\ \A j \in Calls : j # i => /\ pc'[j] = pc[j]
                                       /\ budget'[j] = budget[j]
                                       /\ faults'[j] = faults[j]
          /\ pc'[i] = "attempt"
          /\ pc[i] = "blocked"
          /\ faults'[i] = IF conn = NoConn \/ Live THEN 0 ELSE 1
          /\ IsData(op[i])
      BY <1>3, <1>t DEF Acquire, TypeOK
    <2>1. LockHeld'
      BY <2>0, <1>n, IdleConnection DEF LockHeld
    <2>2. SocketHeld' /\ OneSocket'
      BY <2>0 DEF Inductive, SocketHeld, OneSocket
    <2>3. StreamInSync'
      BY <2>0, IdleConnection, StreamEmpty
    <2>4. Traced'
      BY <1>t, <2>0, TracedUnchanged DEF Inductive
    <2>5. FaultsCharged'
      <3>1. Doomed' => conn # NoConn /\ link[conn].st = "cut"
        BY <2>0, IdleConnection DEF Doomed
      <3>2. Doomed' => faults'[i] = 1
        BY <2>0, <3>1 DEF Live
      <3> QED
        BY <1>n, <2>0, <3>2 DEF FaultsCharged
    <2>6. ReadFresh' /\ WriteTookEffect' /\ RetryMasksFaults'
      BY <1>t, <1>n, <2>0, ResultsKept
    <2> QED
      BY <1>t, <2>1, <2>2, <2>3, <2>4, <2>5, <2>6 DEF Inductive
  <1>4. ASSUME NEW i \in Calls, NEW k \in Conns, Open(i, k) PROVE Inductive'
    <2>0. /\ UNCHANGED <<mu, attempt, transID, op, val, budget, seen, hits, faults>>
          /\ mu = NoCall
          /\ Free(k)
          /\ conn' = k
          /\ link' = [HungUp(conn) EXCEPT ![k].st = "up"]
          /\ \A j \in Calls : j # i => pc'[j] = pc[j]
          /\ pc'[i] = "ok" /\ pc[i] = "blocked"
          /\ ~ IsData(op[i])
      BY <1>4, <1>t DEF Open, OldClosed, TypeOK, history, IsData
    <2>1. link[k].req = <<>> /\ link[k].rep = <<>>
      BY <2>0 DEF Free, Down
    <2> QED
      BY <1>t, <2>0, <2>1, OpenSafe
  <1>5. ASSUME NEW i \in Calls, OpenFail(i) \/ Close(i) PROVE Inductive'
    <2>0. /\ UNCHANGED <<mu, attempt, transID, op, val, budget, seen, hits, faults>>
          /\ mu = NoCall
          /\ conn' = NoConn
          /\ link' = HungUp(conn)
          /\ \A j \in Calls : j # i => pc'[j] = pc[j]
          /\ pc'[i] \in {"ok", "failed"} /\ pc[i] = "blocked"
          /\ ~ IsData(op[i])
      BY <1>5, <1>t DEF OpenFail, OldClosed, Close, TypeOK, history, IsData
    <2>1. LockHeld'
      BY <2>0, <1>n, CallAssumption, IdleConnection DEF LockHeld
    <2>2. SocketHeld' /\ OneSocket' /\ StreamInSync'
      BY <2>0, HangUpFacts
    <2>3. Traced'
      BY <1>t, <1>n, <2>0, HangUpFacts, TracedKept DEF Inductive
    <2>4. FaultsCharged'
      BY <2>0, CallAssumption DEF FaultsCharged
    <2>5. ReadFresh' /\ WriteTookEffect' /\ RetryMasksFaults'
      BY <1>t, <1>n, <2>0, ResultsKept
    <2> QED
      BY <1>t, <2>1, <2>2, <2>3, <2>4, <2>5 DEF Inductive
  <1>6. ASSUME NEW i \in Calls, NEW k \in Conns, Connect(i, k) PROVE Inductive'
    <2>0. /\ UNCHANGED <<mu, transID, attempt, pc, op, val, budget, seen, hits, faults>>
          /\ conn = NoConn
          /\ conn' = k
          /\ Free(k)
          /\ link' = Dialled(k)
          /\ mu = i
      BY <1>6 DEF Connect, calls, history, Inductive, LockHeld
    <2>1. LockHeld'
      BY <2>0, NoConnAssumption DEF Inductive, LockHeld
    <2>2. \A j \in Conns : /\ link'[j].st = IF j = k THEN "up" ELSE link[j].st
                           /\ link'[j].req = link[j].req
                           /\ link'[j].rep = link[j].rep
      BY <1>t, <2>0, DialledFields DEF TypeOK
    <2>3. link'[k].req = <<>> /\ link'[k].rep = <<>>
      BY <2>0, <2>2 DEF Free, Down
    <2>4. SocketHeld' /\ OneSocket'
      BY <2>0, <2>2, NoConnAssumption DEF Inductive, SocketHeld, OneSocket
    <2>5. StreamInSync'
      BY <2>0, <2>3, StreamEmpty
    <2>6. Traced'
      BY <1>t, <1>n, <2>0, <2>2, TracedKept DEF Inductive
    <2>7. FaultsCharged'
      <3>1. ~ Doomed'
        BY <2>0, <2>2, <2>3 DEF Doomed
      <3>2. ~ Doomed
        BY <2>0 DEF Doomed
      <3> QED
        BY <2>0, <3>1, <3>2 DEF Inductive, FaultsCharged
    <2>8. ReadFresh' /\ WriteTookEffect' /\ RetryMasksFaults'
      BY <1>t, <1>n, <2>0, ResultsKept
    <2> QED
      BY <1>t, <2>1, <2>4, <2>5, <2>6, <2>7, <2>8 DEF Inductive
  <1>7. ASSUME NEW i \in Calls, ConnectFail(i) PROVE Inductive'
    <2>1. /\ mu = i /\ AttemptFailed(i) /\ faults' = MoreFaults(i)
          /\ UNCHANGED <<op, val, budget, seen, hits>>
      BY <1>7 DEF ConnectFail, Inductive, LockHeld
    <2>2. attempt <= budget[i] /\ faults[i] >= attempt
      BY <1>n, <2>1 DEF Inductive, LockHeld, FaultsCharged
    <2> QED
      BY <1>t, <1>n, <2>1, <2>2, MoreFaultsFacts, AttemptFailedSafe DEF TypeOK
  <1>8. ASSUME NEW i \in Calls, TransmitFail(i) \/ ReceiveFail(i) PROVE Inductive'
    <2>1. /\ mu = i /\ AttemptFailed(i)
          /\ faults' = IF Live THEN MoreFaults(i) ELSE faults
          /\ UNCHANGED <<op, val, budget, seen, hits>>
          /\ conn \in Conns
      BY <1>8, <1>t DEF TransmitFail, ReceiveFail, Inductive, LockHeld, TypeOK
    <2>2. attempt <= budget[i] /\ faults[i] >= attempt
      BY <1>n, <2>1 DEF Inductive, LockHeld, FaultsCharged
    <2>3. ~ Live => Doomed
      <3>1. link[conn].st \in {"down", "up", "cut"}
        BY <1>t, <2>1 DEF TypeOK, Links
      <3>2. conn # NoConn /\ link[conn].st # "down"
        BY <2>1, NoConnAssumption DEF Inductive, SocketHeld
      <3> QED
        BY <3>1, <3>2 DEF Live, Doomed
    <2>4. ~ Live => faults[i] >= attempt + 1
      BY <2>1, <2>3 DEF Inductive, FaultsCharged
    <2>5. /\ \A j \in Calls : faults'[j] >= faults[j]
          /\ faults'[i] >= attempt + 1
      <3>1. CASE Live
        <4>1. faults' = MoreFaults(i)
          BY <2>1, <3>1
        <4>2. /\ \A j \in Calls : MoreFaults(i)[j] >= faults[j]
              /\ faults[i] <= budget[i] => MoreFaults(i)[i] = faults[i] + 1
              /\ faults[i] > budget[i] => MoreFaults(i)[i] = faults[i]
          BY <1>t, MoreFaultsFacts DEF TypeOK
        <4> QED
          BY <1>n, <2>2, <4>1, <4>2
      <3>2. CASE ~ Live
        BY <1>n, <2>1, <2>4, <3>2
      <3> QED
        BY <3>1, <3>2
    <2> QED
      BY <1>t, <2>1, <2>5, AttemptFailedSafe
  <1>9. ASSUME NEW i \in Calls, RefuseReply(i) PROVE Inductive'
    <2> DEFINE r == Head(link[conn].rep)
    <2>1. /\ mu = i /\ AttemptFailed(i)
          /\ UNCHANGED <<op, val, budget, seen, hits, faults>>
          /\ conn # NoConn /\ conn \in Conns
          /\ link[conn].rep # <<>>
          /\ ~ Accepts(r)
      BY <1>9, <1>t DEF RefuseReply, Inductive, LockHeld, TypeOK, history
    <2>2. r.tid = transID
      BY <1>t, <2>1, OnTheWire, QueueFacts DEF Inductive, StreamInSync, Awaited
    <2>3. Doomed
      BY <2>1, <2>2 DEF Accepts, Doomed
    <2>4. faults[i] >= attempt + 1
      BY <2>1, <2>3 DEF Inductive, FaultsCharged
    <2> QED
      BY <1>t, <1>n, <2>1, <2>4, AttemptFailedSafe
  <1>10. ASSUME NEW i \in Calls, Transmit(i) PROVE Inductive'
    <2> DEFINE q == [call |-> i, tid |-> NextTransID]
    <2>0. /\ UNCHANGED <<mu, conn, attempt, op, val, budget, seen, hits, faults>>
          /\ transID' = NextTransID
          /\ link' = Written(conn, q)
          /\ conn \in Conns /\ conn # NoConn
          /\ mu = i
          /\ pc[i] = "attempt" /\ pc'[i] = "await"
          /\ \A j \in Calls : j # i => pc'[j] = pc[j]
      BY <1>10, <1>t DEF Transmit, SentTransID, history, Inductive, LockHeld, TypeOK
    <2>1. LockHeld'
      BY <2>0 DEF Inductive, LockHeld
    <2>2. q \in Request
      BY <1>t, NextTransIDType DEF Request, TypeOK
    <2>3. \A j \in Conns :
              /\ link'[j].st = link[j].st
              /\ link'[j].req = IF j = conn /\ link[j].st = "up"
                                THEN Append(link[j].req, q) ELSE link[j].req
              /\ link'[j].rep = link[j].rep
      BY <1>t, <2>0, <2>2, WrittenFields DEF TypeOK
    <2>4. SocketHeld' /\ OneSocket'
      BY <2>0, <2>3 DEF Inductive, SocketHeld, OneSocket
    <2>5. link[conn].req = <<>> /\ link[conn].rep = <<>>
      <3>1. DOMAIN link[conn].req = {} /\ DOMAIN link[conn].rep = {}
        BY <2>0 DEF Inductive, StreamInSync, Awaited
      <3> QED
        BY <1>t, <2>0, <3>1, OnTheWire, QueueFacts
    <2>6. StreamInSync'
      <3>1. CASE link[conn].st = "up"
        <4>1. link'[conn].req = Append(<<>>, q) /\ link'[conn].rep = <<>>
          BY <2>0, <2>3, <2>5, <3>1
        <4>2. <<>> \in Seq(Request) /\ Len(<<>>) = 0 /\ DOMAIN <<>> = {}
          OBVIOUS
        <4>3. /\ Len(link'[conn].req) = 1 /\ Len(link'[conn].rep) = 0
              /\ \A n \in DOMAIN link'[conn].req : link'[conn].req[n] = q
              /\ DOMAIN link'[conn].rep = {}
          BY <2>2, <4>1, <4>2, QueueFacts
        <4>4. mu' = q.call /\ pc'[q.call] = "await" /\ q.tid = transID'
          BY <2>0
        <4>5. Len(link'[conn].req) + Len(link'[conn].rep) <= 1
          BY <4>3
        <4> QED
          BY <2>0, <4>3, <4>4, <4>5 DEF StreamInSync, Awaited
      <3>2. CASE link[conn].st # "up"
        BY <2>0, <2>3, <2>5, <3>2, StreamEmpty
      <3> QED
        BY <3>1, <3>2
    <2>7. Traced'
      <3>1. ASSUME NEW k \in Conns, NEW n \in DOMAIN link'[k].req
            PROVE  LET c == link'[k].req[n].call IN pc'[c] # "new" /\ IsData(op'[c])
        <4>1. CASE link'[k].req[n] = q
          BY <2>0, <4>1 DEF Inductive, LockHeld
        <4>2. CASE n \in DOMAIN link[k].req /\ link'[k].req[n] = link[k].req[n]
          <5>1. link[k].req[n].call \in Calls
            BY <1>t, <4>2, OnTheWire
          <5> QED
            BY <2>0, <4>2, <5>1 DEF Inductive, Traced
        <4>3. link[k].req \in Seq(Request)
          BY <1>t, OnTheWire
        <4>4. CASE link'[k].req = link[k].req
          BY <3>1, <4>2, <4>4
        <4>5. CASE link'[k].req = Append(link[k].req, q)
          BY <2>2, <3>1, <4>1, <4>2, <4>3, <4>5, QueueFacts
        <4> QED
          BY <2>3, <4>4, <4>5
      <3>2. ASSUME NEW k \in Conns, NEW n \in DOMAIN link'[k].rep
            PROVE  LET r == link'[k].rep[n] IN
                   /\ pc'[r.call] # "new"
                   /\ r.kind = "normal" =>
                         /\ hits'[r.call] >= 1
                         /\ op'[r.call].kind = "read" => r.val \in seen'[r.call]
        <4>1. n \in DOMAIN link[k].rep /\ link'[k].rep[n] = link[k].rep[n]
          BY <2>3, <3>2
        <4>2. link[k].rep[n].call \in Calls
          BY <1>t, <4>1, OnTheWire
        <4> QED
          BY <2>0, <4>1, <4>2 DEF Inductive, Traced
      <3> QED
        BY <3>1, <3>2 DEF Traced
    <2>8. FaultsCharged'
      <3>1. Doomed' => Doomed
        BY <2>0, <2>3 DEF Doomed
      <3> QED
        BY <1>n, <2>0, <3>1 DEF Inductive, FaultsCharged
    <2>9. ReadFresh' /\ WriteTookEffect' /\ RetryMasksFaults'
      BY <1>t, <1>n, <2>0, ResultsKept
    <2> QED
      BY <1>t, <2>1, <2>4, <2>6, <2>7, <2>8, <2>9 DEF Inductive
  <1>11. ASSUME NEW i \in Calls, TakeReply(i) PROVE Inductive'
    <2> DEFINE r == Head(link[conn].rep)
    <2>0. /\ UNCHANGED <<conn, transID, op, budget, seen, hits, faults>>
          /\ link' = Consumed(conn)
          /\ conn \in Conns /\ conn # NoConn
          /\ link[conn].rep # <<>>
          /\ mu = i /\ pc[i] = "await"
          /\ IsData(op[i])
      BY <1>11, <1>t DEF TakeReply, history, Inductive, LockHeld, TypeOK
    <2>1. /\ mu' = NoCall
          /\ pc'[i] \in {"ok", "rejected"}
          /\ \A j \in Calls : j # i => pc'[j] = pc[j] /\ val'[j] = val[j]
      BY <1>11, <1>t, TakeReplyReturns DEF Return, TypeOK, TakeReply
    <2>2. LockHeld'
      BY <2>0, <2>1, CallAssumption DEF Inductive, LockHeld
    <2>3. \A j \in Conns :
              /\ link'[j].st = link[j].st
              /\ link'[j].req = link[j].req
              /\ link'[j].rep = IF j = conn THEN Tail(link[j].rep) ELSE link[j].rep
      BY <1>t, <2>0, ConsumedFields DEF TypeOK
    <2>4. SocketHeld' /\ OneSocket'
      BY <2>0, <2>3 DEF Inductive, SocketHeld, OneSocket
    <2>5. /\ link[conn].req \in Seq(Request)
          /\ link[conn].rep \in Seq(Reply)
          /\ Len(link[conn].req) + Len(link[conn].rep) <= 1
          /\ r = link[conn].rep[1]
          /\ 1 \in DOMAIN link[conn].rep
      <3>1. link[conn].req \in Seq(Request) /\ link[conn].rep \in Seq(Reply)
        BY <1>t, <2>0, OnTheWire
      <3>2. Len(link[conn].req) + Len(link[conn].rep) <= 1
        BY <2>0 DEF Inductive, StreamInSync
      <3>4. r = link[conn].rep[1] /\ 1 \in DOMAIN link[conn].rep
        BY <2>0, <3>1, HeadFacts
      <3> QED
        BY <3>1, <3>2, <3>4
    <2>6. link'[conn].req = <<>> /\ link'[conn].rep = <<>>
      BY <2>0, <2>3, <2>5, LastMessage
    <2>7. StreamInSync'
      BY <2>0, <2>6, StreamEmpty
    <2>8. Traced'
      <3>1. \A k \in Conns :
               /\ link'[k].req = link[k].req
               /\ \A n \in DOMAIN link'[k].rep : \E m \in DOMAIN link[k].rep :
                      link'[k].rep[n] = link[k].rep[m]
        BY <2>0, <2>3, <2>6
      <3>2. \A j \in Calls : pc[j] # "new" => pc'[j] # "new"
        BY <2>1
      <3>3. \A j \in Calls : seen[j] \subseteq seen'[j] /\ hits[j] <= hits'[j]
        BY <1>n, <2>0
      <3> QED
        BY <1>t, <2>0, <3>1, <3>2, <3>3, TracedKept DEF Inductive
    <2>9. FaultsCharged'
      BY <2>1, CallAssumption DEF FaultsCharged
    <2>10. pc'[i] = "ok" =>
              /\ hits[i] >= 1
              /\ op[i].kind = "read" => val'[i] \in seen[i]
      <3>1. r.call = i
        BY <2>0, <2>5 DEF Inductive, StreamInSync, Awaited
      <3>2. pc'[i] = "ok" => Fits(i, r) /\ val'[i] = r.val
        BY <1>11, <1>t DEF TakeReply, Return, TypeOK
      <3>3. r.kind = "normal" =>
               /\ hits[i] >= 1
               /\ op[i].kind = "read" => r.val \in seen[i]
        BY <2>0, <2>5, <3>1 DEF Inductive, Traced
      <3> QED
        BY <3>2, <3>3 DEF Fits
    <2>11. ReadFresh' /\ WriteTookEffect' /\ RetryMasksFaults'
      BY <2>0, <2>1, <2>10
      DEF Inductive, ReadFresh, WriteTookEffect, RetryMasksFaults
    <2> QED
      BY <1>t, <2>2, <2>4, <2>7, <2>8, <2>9, <2>11 DEF Inductive
  <1>12. ASSUME NEW n \in Policies, SetRetryPolicy(n) PROVE Inductive'
    <2>0. UNCHANGED <<link, mu, conn, transID, attempt, pc, op, val, budget,
                      seen, hits, faults>>
      BY <1>12 DEF SetRetryPolicy, calls, history
    <2>1. LockHeld'
      BY <2>0 DEF Inductive, LockHeld
    <2>2. SocketHeld' /\ OneSocket'
      BY <2>0 DEF Inductive, SocketHeld, OneSocket
    <2>3. StreamInSync'
      BY <1>t, <2>0, StreamUnchanged DEF Inductive
    <2>4. Traced'
      BY <1>t, <2>0, TracedUnchanged DEF Inductive
    <2>5. FaultsCharged'
      BY <2>0 DEF Inductive, FaultsCharged, Doomed
    <2>6. ReadFresh' /\ WriteTookEffect' /\ RetryMasksFaults'
      BY <1>t, <1>n, <2>0, ResultsKept
    <2> QED
      BY <1>t, <2>1, <2>2, <2>3, <2>4, <2>5, <2>6 DEF Inductive
  <1>13. ASSUME NEW k \in Conns, NEW kind \in ReplyKinds, Serve(k, kind)
         PROVE  Inductive'
    <2> DEFINE q == Head(link[k].req)
               r == ReplyTo(q, kind)
    <2>0. UNCHANGED <<mu, conn, transID, attempt, pc, op, val, budget>>
      BY <1>13 DEF Serve, client, calls
    <2>1. /\ link[k].req \in Seq(Request) /\ link[k].req # <<>>
          /\ link[k].rep \in Seq(Reply)
          /\ q = link[k].req[1] /\ 1 \in DOMAIN link[k].req
          /\ q \in Request /\ q.call \in Calls
      <3>1. link[k].req \in Seq(Request) /\ link[k].rep \in Seq(Reply)
        BY <1>t, OnTheWire
      <3>2. link[k].req # <<>>
        BY <1>13 DEF Serve
      <3>3. q = link[k].req[1] /\ 1 \in DOMAIN link[k].req /\ q \in Request
        BY <3>1, <3>2, HeadFacts
      <3> QED
        BY <3>1, <3>2, <3>3 DEF Request
    <2>2. pc[q.call] # "new" /\ IsData(op[q.call])
      BY <2>1 DEF Inductive, Traced
    <2>3. r \in Reply
      <3>1. op[q.call].addr \in Addrs
        BY <1>t, <2>1, <2>2, DataOps DEF TypeOK
      <3> QED
        BY <1>t, <2>1, <3>1 DEF ReplyTo, Reply, Request, TypeOK
    <2>4. \A j \in Conns :
              /\ link'[j].st = link[j].st
              /\ link'[j].req = IF j = k THEN Tail(link[j].req) ELSE link[j].req
              /\ link'[j].rep = IF j = k /\ link[j].st = "up"
                                THEN Append(link[j].rep, r) ELSE link[j].rep
      <3>1. link' = Answered(k, r)
        BY <1>13 DEF Serve
      <3>2. link \in [Conns -> Links(Request, Reply)]
        BY <1>t DEF TypeOK
      <3> QED
        BY <2>3, <3>1, <3>2, AnsweredFields
    <2>5. /\ \A j \in Calls : seen[j] \subseteq seen'[j] /\ hits[j] <= hits'[j]
          /\ r.kind = "normal" =>
                /\ hits'[r.call] >= 1
                /\ op[r.call].kind = "read" => r.val \in seen'[r.call]
      <3>1. r.kind = kind /\ r.call = q.call
        BY DEF ReplyTo
      <3>2. CASE kind = "exception"
        <4>1. UNCHANGED <<seen, hits>>
          BY <1>13, <3>2 DEF Serve
        <4> QED
          BY <1>n, <3>1, <3>2, <4>1
      <3>3. CASE kind # "exception"
        <4>1. Execute(q)
          BY <1>13, <3>3 DEF Serve
        <4>2. kind = "normal" /\ op[q.call].kind = "read" =>
                 r.val = store[op[q.call].addr]
          BY DEF ReplyTo
        <4> QED
          BY <1>t, <2>1, <2>2, <3>1, <4>1, <4>2, ExecuteFacts
      <3> QED
        BY <3>2, <3>3
    <2>6. faults' = IF k = conn /\ kind # "normal" THEN MoreFaults(q.call) ELSE faults
      BY <1>13 DEF Serve
    <2>7. LockHeld'
      BY <2>0 DEF Inductive, LockHeld
    <2>8. SocketHeld' /\ OneSocket'
      BY <1>t, <2>0, <2>4 DEF Inductive, SocketHeld, OneSocket, TypeOK
    <2>9. k = conn => /\ mu = q.call /\ pc[q.call] = "await" /\ q.tid = transID
                      /\ link[k].rep = <<>> /\ Tail(link[k].req) = <<>>
      <3> SUFFICES ASSUME k = conn, conn # NoConn
                   PROVE  /\ mu = q.call /\ pc[q.call] = "await" /\ q.tid = transID
                          /\ link[k].rep = <<>> /\ Tail(link[k].req) = <<>>
        BY NoConnAssumption
      <3>1. Awaited(q)
        BY <2>1 DEF Inductive, StreamInSync
      <3>2. Len(link[k].req) + Len(link[k].rep) <= 1
        BY DEF Inductive, StreamInSync
      <3> QED
        BY <2>1, <3>1, <3>2, LastMessage DEF Awaited
    <2>10. /\ Append(<<>>, r) # <<>> /\ Head(Append(<<>>, r)) = r
           /\ Len(Append(<<>>, r)) = 1 /\ Len(<<>>) = 0 /\ DOMAIN <<>> = {}
           /\ \A n \in DOMAIN Append(<<>>, r) : Append(<<>>, r)[n] = r
      OBVIOUS
    <2>11. StreamInSync'
      <3>1. CASE k = conn
        <4>1. link'[k].req = <<>>
          BY <2>1, <2>4, <2>9, <3>1
        <4>2. link'[k].rep = <<>> \/ link'[k].rep = Append(<<>>, r)
          BY <2>1, <2>4, <2>9, <3>1
        <4>3. CASE link'[k].rep = <<>>
          BY <2>0, <3>1, <4>1, <4>3, StreamEmpty
        <4>4. CASE link'[k].rep = Append(<<>>, r)
          <5>1. /\ Len(link'[k].req) + Len(link'[k].rep) <= 1
                /\ DOMAIN link'[k].req = {}
                /\ \A n \in DOMAIN link'[k].rep : link'[k].rep[n] = r
            BY <2>10, <4>1, <4>4
          <5>2. r.call = mu' /\ pc'[r.call] = "await" /\ r.tid = transID'
            BY <2>0, <2>9, <3>1 DEF ReplyTo
          <5> QED
            BY <2>0, <3>1, <5>1, <5>2 DEF StreamInSync, Awaited
        <4> QED
          BY <4>2, <4>3, <4>4
      <3>2. CASE k # conn
        <4>1. conn # NoConn => link'[conn].req = link[conn].req
                               /\ link'[conn].rep = link[conn].rep
          BY <1>t, <2>4, <3>2 DEF TypeOK
        <4> QED
          BY <2>0, <4>1 DEF Inductive, StreamInSync, Awaited
      <3> QED
        BY <3>1, <3>2
    <2>12. Traced'
      <3>1. ASSUME NEW c \in Conns, NEW n \in DOMAIN link'[c].req
            PROVE  LET i == link'[c].req[n].call IN pc'[i] # "new" /\ IsData(op'[i])
        <4>1. PICK m \in DOMAIN link[c].req : link'[c].req[n] = link[c].req[m]
          <5>1. CASE c = k
            <6>1. link'[c].req = Tail(link[c].req)
              BY <2>4, <5>1
            <6>2. link[c].req \in Seq(Request) /\ link[c].req # <<>>
              BY <2>1, <5>1
            <6>3. n \in DOMAIN Tail(link[c].req)
              BY <3>1, <6>1
            <6> QED
              BY <6>1, <6>2, <6>3, TailElements
          <5>2. CASE c # k
            BY <2>4, <3>1, <5>2
          <5> QED
            BY <5>1, <5>2
        <4> QED
          BY <2>0, <4>1 DEF Inductive, Traced
      <3>2. ASSUME NEW c \in Conns, NEW n \in DOMAIN link'[c].rep
            PROVE  LET p == link'[c].rep[n] IN
                   /\ pc'[p.call] # "new"
                   /\ p.kind = "normal" =>
                         /\ hits'[p.call] >= 1
                         /\ op'[p.call].kind = "read" => p.val \in seen'[p.call]
        <4>1. CASE link'[c].rep[n] = r
          <5>1. pc'[r.call] # "new"
            BY <2>0, <2>2 DEF ReplyTo
          <5> QED
            BY <2>0, <2>5, <4>1, <5>1
        <4>2. CASE n \in DOMAIN link[c].rep /\ link'[c].rep[n] = link[c].rep[n]
          <5>1. link[c].rep[n].call \in Calls
            BY <1>t, <4>2, OnTheWire
          <5>2. hits[link[c].rep[n].call] <= hits'[link[c].rep[n].call]
                /\ seen[link[c].rep[n].call] \subseteq seen'[link[c].rep[n].call]
            BY <2>5, <5>1
          <5> QED
            BY <1>n, <2>0, <4>2, <5>1, <5>2 DEF Inductive, Traced
        <4>3. link[c].rep \in Seq(Reply)
          BY <1>t, OnTheWire
        <4>4. CASE link'[c].rep = link[c].rep
          BY <3>2, <4>2, <4>4
        <4>5. CASE link'[c].rep = Append(link[c].rep, r)
          <5>1. \/ link'[c].rep[n] = r
                \/ n \in DOMAIN link[c].rep /\ link'[c].rep[n] = link[c].rep[n]
            <6> HIDE DEF r
            <6>1. \A m \in DOMAIN Append(link[c].rep, r) :
                     \/ Append(link[c].rep, r)[m] = r
                     \/ m \in DOMAIN link[c].rep /\ Append(link[c].rep, r)[m] = link[c].rep[m]
              BY <2>3, <4>3, QueueFacts
            <6> QED
              BY <3>2, <4>5, <6>1, Zenon
          <5> QED
            BY <4>1, <4>2, <5>1, Zenon
        <4> QED
          BY <2>4, <4>4, <4>5
      <3> QED
        BY <3>1, <3>2 DEF Traced
    <2>13. \A j \in Calls : faults'[j] >= faults[j]
      <3>1. \A j \in Calls : MoreFaults(q.call)[j] >= faults[j]
        BY <1>t, <2>1, MoreFaultsFacts DEF TypeOK
      <3> QED
        BY <1>n, <2>6, <3>1
    <2>14. FaultsCharged'
      <3> SUFFICES ASSUME NEW j \in Calls, mu = j
                   PROVE  faults'[j] >= IF Doomed' THEN attempt + 1 ELSE attempt
        BY <2>0 DEF FaultsCharged
      <3>1. attempt <= budget[j] /\ faults[j] >= attempt
            /\ (Doomed => faults[j] >= attempt + 1)
        BY <1>n DEF Inductive, LockHeld, FaultsCharged
      <3>2. CASE k = conn /\ kind # "normal"
        <4>1. faults' = MoreFaults(j)
          BY <2>6, <2>9, <3>2
        <4>2. /\ faults[j] <= budget[j] => MoreFaults(j)[j] = faults[j] + 1
              /\ faults[j] > budget[j] => MoreFaults(j)[j] = faults[j]
          BY <1>t, MoreFaultsFacts DEF TypeOK
        <4> QED
          BY <1>n, <3>1, <4>1, <4>2
      <3>3. CASE k # conn \/ kind = "normal"
        <4>1. Doomed' => Doomed
          <5>1. CASE k = conn
            <6>1. link'[k].rep = <<>> \/ link'[k].rep = Append(<<>>, r)
              BY <2>1, <2>4, <2>9, <5>1
            <6>2. r.kind = "normal"
              BY <3>3, <5>1 DEF ReplyTo
            <6>3. link'[k].st = link[k].st
              BY <2>4
            <6> QED
              BY <2>0, <2>10, <5>1, <6>1, <6>2, <6>3 DEF Doomed
          <5>2. CASE k # conn
            <6>1. conn # NoConn => link'[conn].st = link[conn].st
                                   /\ link'[conn].rep = link[conn].rep
              BY <1>t, <2>4, <5>2 DEF TypeOK
            <6> QED
              BY <2>0, <6>1 DEF Doomed
          <5> QED
            BY <5>1, <5>2
        <4> QED
          BY <1>n, <2>6, <3>1, <3>3, <4>1
      <3> QED
        BY <3>2, <3>3
    <2>15. ReadFresh' /\ WriteTookEffect' /\ RetryMasksFaults'
      BY <1>t, <2>0, <2>5, <2>13, ResultsKept
    <2> QED
      BY <1>t, <2>7, <2>8, <2>11, <2>12, <2>14, <2>15 DEF Inductive
  <1>14. ASSUME NEW k \in Conns, Ignore(k) PROVE Inductive'
    <2>0. /\ UNCHANGED <<mu, conn, transID, attempt, pc, op, val, budget,
                         seen, hits, faults>>
          /\ link' = Ignored(k)
          /\ link[k].req # <<>>
      BY <1>14 DEF Ignore, client, calls, history
    <2>1. \A j \in Conns :
              /\ link'[j].st = link[j].st
              /\ link'[j].req = IF j = k THEN Tail(link[j].req) ELSE link[j].req
              /\ link'[j].rep = link[j].rep
      BY <1>t, <2>0, IgnoredFields DEF TypeOK
    <2>2. link[k].req \in Seq(Request) /\ link[k].rep \in Seq(Reply)
      BY <1>t, OnTheWire
    <2>3. LockHeld'
      BY <2>0 DEF Inductive, LockHeld
    <2>4. SocketHeld' /\ OneSocket'
      BY <1>t, <2>0, <2>1 DEF Inductive, SocketHeld, OneSocket, TypeOK
    <2>5. StreamInSync'
      <3>1. CASE k = conn
        <4>1. conn # NoConn
          BY <3>1, NoConnAssumption
        <4>2. Len(link[k].req) + Len(link[k].rep) <= 1
          BY <3>1, <4>1 DEF Inductive, StreamInSync
        <4>3. Tail(link[k].req) = <<>> /\ link[k].rep = <<>>
          BY <2>0, <2>2, <4>2, LastMessage
        <4> QED
          BY <2>0, <2>1, <3>1, <4>3, StreamEmpty
      <3>2. CASE k # conn
        <4>1. conn # NoConn => link'[conn].req = link[conn].req
                               /\ link'[conn].rep = link[conn].rep
          BY <1>t, <2>1, <3>2 DEF TypeOK
        <4> QED
          BY <2>0, <4>1 DEF Inductive, StreamInSync, Awaited
      <3> QED
        BY <3>1, <3>2
    <2>6. Traced'
      <3>1. ASSUME NEW c \in Conns, NEW n \in DOMAIN link'[c].req
            PROVE  \E m \in DOMAIN link[c].req : link'[c].req[n] = link[c].req[m]
        <4>1. CASE c = k
          <5>1. link'[c].req = Tail(link[c].req)
            BY <2>1, <4>1
          <5>2. link[c].req \in Seq(Request) /\ link[c].req # <<>>
            BY <2>0, <2>2, <4>1
          <5>3. n \in DOMAIN Tail(link[c].req)
            BY <3>1, <5>1
          <5> QED
            BY <5>1, <5>2, <5>3, TailElements
        <4>2. CASE c # k
          BY <2>1, <3>1, <4>2
        <4> QED
          BY <4>1, <4>2
      <3>2. \A j \in Calls : seen[j] \subseteq seen'[j] /\ hits[j] <= hits'[j]
        BY <1>n, <2>0
      <3>3. \A c \in Conns : link'[c].rep = link[c].rep
        BY <2>1
      <3> QED
        BY <1>t, <2>0, <3>1, <3>2, <3>3, TracedKept DEF Inductive
    <2>7. FaultsCharged'
      <3>1. Doomed' => Doomed
        BY <1>t, <2>0, <2>1 DEF Doomed, TypeOK
      <3> QED
        BY <1>n, <2>0, <3>1 DEF Inductive, FaultsCharged
    <2>8. ReadFresh' /\ WriteTookEffect' /\ RetryMasksFaults'
      BY <1>t, <1>n, <2>0, ResultsKept
    <2> QED
      BY <1>t, <2>3, <2>4, <2>5, <2>6, <2>7, <2>8 DEF Inductive
  <1>15. ASSUME NEW k \in Conns, Sever(k) PROVE Inductive'
    <2>0. /\ UNCHANGED <<mu, conn, transID, attempt, pc, op, val, budget,
                         seen, hits>>
          /\ link' = Severed(k)
          /\ link[k].st = "up"
          /\ faults' = IF mu # NoCall THEN MoreFaults(mu) ELSE faults
      BY <1>15 DEF Sever, client, calls
    <2>1. k = conn /\ conn # NoConn
      BY <2>0, NoConnAssumption DEF Inductive, OneSocket
    <2>2. \A j \in Conns :
              /\ link'[j].st = IF j = k THEN "cut" ELSE link[j].st
              /\ link'[j].req = IF j = k THEN <<>> ELSE link[j].req
              /\ link'[j].rep = link[j].rep
      BY <1>t, <2>0, SeveredFields DEF TypeOK
    <2>3. LockHeld'
      BY <2>0 DEF Inductive, LockHeld
    <2>4. SocketHeld' /\ OneSocket'
      BY <2>0, <2>1, <2>2 DEF Inductive, SocketHeld, OneSocket
    <2>5. StreamInSync'
      <3>1. link'[k].req = <<>> /\ link'[k].rep = link[k].rep
        BY <2>2
      <3>2. /\ Len(link[k].req) \in Nat /\ Len(link[k].rep) \in Nat
            /\ Len(<<>>) = 0 /\ DOMAIN <<>> = {}
        BY <1>t, OnTheWire
      <3>3. Len(link[k].req) + Len(link[k].rep) <= 1
        BY <2>1 DEF Inductive, StreamInSync
      <3>4. \A n \in DOMAIN link[k].rep : Awaited(link[k].rep[n])
        BY <2>1 DEF Inductive, StreamInSync
      <3>5. Len(link'[k].req) + Len(link'[k].rep) <= 1
        <4>1. \A a, b \in Nat : a + b <= 1 => 0 + b <= 1
          OBVIOUS
        <4> QED
          BY <3>1, <3>2, <3>3, <4>1, Zenon
      <3> QED
        BY <2>0, <2>1, <3>1, <3>2, <3>4, <3>5 DEF StreamInSync, Awaited
    <2>6. Traced'
      <3>1. ASSUME NEW c \in Conns, NEW n \in DOMAIN link'[c].req
            PROVE  \E m \in DOMAIN link[c].req : link'[c].req[n] = link[c].req[m]
        <4>1. DOMAIN <<>> = {}
          OBVIOUS
        <4> QED
          BY <2>2, <3>1, <4>1
      <3>2. \A j \in Calls : seen[j] \subseteq seen'[j] /\ hits[j] <= hits'[j]
        BY <1>n, <2>0
      <3>3. \A c \in Conns : link'[c].rep = link[c].rep
        BY <2>2
      <3> QED
        BY <1>t, <2>0, <3>1, <3>2, <3>3, TracedKept DEF Inductive
    <2>7. \A j \in Calls : faults'[j] >= faults[j]
      <3>1. CASE mu \in Calls
        <4>1. \A j \in Calls : MoreFaults(mu)[j] >= faults[j]
          BY <1>t, <3>1, MoreFaultsFacts DEF TypeOK
        <4> QED
          BY <1>n, <2>0, <4>1
      <3>2. CASE mu = NoCall
        BY <1>n, <2>0, <3>2
      <3> QED
        BY <1>t, <3>1, <3>2 DEF TypeOK
    <2>8. FaultsCharged'
      <3> SUFFICES ASSUME NEW j \in Calls, mu = j
                   PROVE  faults'[j] >= attempt + 1
        BY <1>n, <2>0 DEF FaultsCharged
      <3>1. attempt <= budget[j] /\ faults[j] >= attempt
        BY <1>n DEF Inductive, LockHeld, FaultsCharged
      <3>2. faults' = MoreFaults(j)
        BY <2>0, CallAssumption
      <3>3. /\ faults[j] <= budget[j] => MoreFaults(j)[j] = faults[j] + 1
            /\ faults[j] > budget[j] => MoreFaults(j)[j] = faults[j]
        BY <1>t, MoreFaultsFacts DEF TypeOK
      <3> QED
        BY <1>n, <3>1, <3>2, <3>3
    <2>9. ReadFresh' /\ WriteTookEffect' /\ RetryMasksFaults'
      BY <1>t, <1>n, <2>0, <2>7, ResultsKept
    <2> QED
      BY <1>t, <2>3, <2>4, <2>5, <2>6, <2>8, <2>9 DEF Inductive
  <1>16. CASE UNCHANGED vars
    <2>0. UNCHANGED <<link, mu, conn, transID, attempt, pc, op, val, budget,
                      seen, hits, faults>>
      BY <1>16 DEF vars, client, calls, history
    <2>1. LockHeld'
      BY <2>0 DEF Inductive, LockHeld
    <2>2. SocketHeld' /\ OneSocket'
      BY <2>0 DEF Inductive, SocketHeld, OneSocket
    <2>3. StreamInSync'
      BY <1>t, <2>0, StreamUnchanged DEF Inductive
    <2>4. Traced'
      BY <1>t, <2>0, TracedUnchanged DEF Inductive
    <2>5. FaultsCharged'
      BY <2>0 DEF Inductive, FaultsCharged, Doomed
    <2>6. ReadFresh' /\ WriteTookEffect' /\ RetryMasksFaults'
      BY <1>t, <1>n, <2>0, ResultsKept
    <2> QED
      BY <1>t, <2>1, <2>2, <2>3, <2>4, <2>5, <2>6 DEF Inductive
  <1> QED
    BY <1>1, <1>2, <1>3, <1>4, <1>5, <1>6, <1>7, <1>8, <1>9, <1>10, <1>11,
       <1>12, <1>13, <1>14, <1>15, <1>16
    DEF Next, Enter, Progress, Device

LEMMA InductiveInit == Init => Inductive
  <1> SUFFICES ASSUME Init PROVE Inductive
    OBVIOUS
  <1>1. TypeOK
    BY InitType
  <1>2. LockHeld
    BY CallAssumption DEF Init, LockHeld
  <1>3. \A k \in Conns : link[k] = Down
    BY DEF Init
  <1>4. Down.st = "down" /\ Down.req = <<>> /\ Down.rep = <<>> /\ DOMAIN <<>> = {}
    BY DEF Down
  <1>5. SocketHeld /\ OneSocket /\ StreamInSync /\ Traced
    BY <1>3, <1>4 DEF Init, SocketHeld, OneSocket, StreamInSync, Traced
  <1>6. FaultsCharged
    BY CallAssumption DEF Init, FaultsCharged
  <1>7. ReadFresh /\ WriteTookEffect /\ RetryMasksFaults
    BY DEF Init, ReadFresh, WriteTookEffect, RetryMasksFaults
  <1> QED
    BY <1>1, <1>2, <1>5, <1>6, <1>7 DEF Inductive

\* The invariant the theorems below are consequences of.
THEOREM InductiveInvariant == Spec => []Inductive
  <1>1. Init => Inductive
    BY InductiveInit
  <1>2. Inductive /\ [Next]_vars => Inductive'
    BY InductiveNext
  <1> QED
    BY <1>1, <1>2, PTL DEF Spec

\* Every variable of the client, the wire and the device keeps its type.
THEOREM TypeCorrect == Spec => []TypeOK
  <1>1. Inductive => TypeOK
    BY DEF Inductive
  <1> QED
    BY <1>1, InductiveInvariant, PTL

\* However calls to Open, Close, reads and writes overlap and fail, the client
\* never holds a socket other than the one in its conn field.
THEOREM NoSocketLeaks == Spec => []OneSocket
  <1>1. Inductive => OneSocket
    BY DEF Inductive
  <1> QED
    BY <1>1, InductiveInvariant, PTL

\* A connection in use never holds a message of an earlier exchange.
THEOREM RepliesInStep == Spec => []StreamInSync
  <1>1. Inductive => StreamInSync
    BY DEF Inductive
  <1> QED
    BY <1>1, InductiveInvariant, PTL

\* A successful read returns what the device reported to that very read, with
\* or without transaction identifiers, after any number of failed attempts.
THEOREM ReadsAreFresh == Spec => []ReadFresh
  <1>1. Inductive => ReadFresh
    BY DEF Inductive
  <1> QED
    BY <1>1, InductiveInvariant, PTL

\* A write that reports success was executed by the device.
THEOREM WritesTakeEffect == Spec => []WriteTookEffect
  <1>1. Inductive => WriteTookEffect
    BY DEF Inductive
  <1> QED
    BY <1>1, InductiveInvariant, PTL

\* No call fails before it has met more faults than it has retries.
THEOREM RetriesMaskFaults == Spec => []RetryMasksFaults
  <1>1. Inductive => RetryMasksFaults
    BY DEF Inductive
  <1> QED
    BY <1>1, InductiveInvariant, PTL

-----------------------------------------------------------------------------
(***************************************************************************)
(* How often the device executes a call of ModbusClient: at most once per  *)
(* attempt, and once if it met no fault.  Both rest on an account of the   *)
(* requests that the device still holds, those on closed connections       *)
(* included, which Inductive does not keep.                                *)
(***************************************************************************)

\* The attempts call i has begun to transmit, or may have when it has returned.
Begun(i) ==
    CASE pc[i] = "attempt"  -> attempt
      [] pc[i] = "await"    -> attempt + 1
      [] pc[i] \in Returned -> budget[i] + 1
      [] OTHER              -> 0

\* A connection carries one request in its life.
OneRequest == \A k \in Conns : Len(link[k].req) <= 1

\* Executions and requests that can still become one are no more than attempts.
Counted ==
    \A i \in Calls :
        /\ IsFiniteSet(Copies(i))
        /\ hits[i] + Cardinality(Copies(i)) <= Begun(i)

\* A call that returns without a fault has nothing left on the wire.
CleanReturn ==
    \A i \in Calls : pc[i] \in Returned /\ faults[i] = 0 =>
        /\ Copies(i) = {}
        /\ pc[i] = "ok" /\ IsData(op[i]) => hits[i] = 1

Accounted == Inductive /\ OneRequest /\ Counted /\ CleanReturn

-----------------------------------------------------------------------------
LEMMA BegunType == TypeOK => \A i \in Calls : Begun(i) \in Nat
  BY DEF TypeOK, Begun

\* The requests in the hands of the device only become fewer.
Fewer ==
    \A k \in Conns :
        /\ Len(link'[k].req) <= Len(link[k].req)
        /\ \A n \in DOMAIN link'[k].req : \E m \in DOMAIN link[k].req :
              link'[k].req[n] = link[k].req[m]

LEMMA FewerCopies ==
    ASSUME Fewer, NEW i \in Calls
    PROVE  Copies(i)' \subseteq Copies(i)
  <1> SUFFICES ASSUME NEW k \in Copies(i)' PROVE k \in Copies(i)
    OBVIOUS
  <1>1. PICK n \in DOMAIN link'[k].req : link'[k].req[n].call = i
    BY DEF Copies
  <1>2. k \in Conns
    BY DEF Copies
  <1>3. PICK m \in DOMAIN link[k].req : link'[k].req[n] = link[k].req[m]
    BY <1>1, <1>2 DEF Fewer
  <1> QED
    BY <1>1, <1>2, <1>3 DEF Copies

\* Only calls that read or write have requests with the device.
LEMMA CopiesOfData ==
    ASSUME Traced, NEW i \in Calls, Copies(i) # {}
    PROVE  pc[i] # "new" /\ IsData(op[i])
  <1>1. PICK k \in Conns : \E n \in DOMAIN link[k].req : link[k].req[n].call = i
    BY DEF Copies
  <1>2. PICK n \in DOMAIN link[k].req : link[k].req[n].call = i
    BY <1>1
  <1> QED
    BY <1>2 DEF Traced

LEMMA SmallerSum ==
    ASSUME NEW a \in Nat, NEW S, NEW T, IsFiniteSet(S), T \subseteq S
    PROVE  /\ IsFiniteSet(T)
           /\ Cardinality(S) \in Nat /\ Cardinality(T) \in Nat
           /\ a + Cardinality(T) <= a + Cardinality(S)
  <1>1. IsFiniteSet(T) /\ Cardinality(T) <= Cardinality(S)
    BY FS_Subset
  <1>2. Cardinality(S) \in Nat /\ Cardinality(T) \in Nat
    BY <1>1, FS_CardinalityType
  <1> QED
    BY <1>1, <1>2

\* A step without a new request or execution keeps the count.
LEMMA QuietCount ==
    ASSUME Accounted, Inductive', Fewer, UNCHANGED hits,
           \A j \in Calls : Begun(j) <= Begun(j)'
    PROVE  OneRequest' /\ Counted'
  <1>1. OneRequest'
    <2>1. \A k \in Conns : link[k].req \in Seq(Request) /\ link'[k].req \in Seq(Request)
      BY DEF Accounted, Inductive, TypeOK, Links
    <2>2. \A k \in Conns : Len(link[k].req) \in Nat /\ Len(link'[k].req) \in Nat
      BY <2>1
    <2> QED
      BY <2>2 DEF Accounted, OneRequest, Fewer
  <1>2. Counted'
    <2> SUFFICES ASSUME NEW j \in Calls
                 PROVE  IsFiniteSet(Copies(j)') /\ hits'[j] + Cardinality(Copies(j)') <= Begun(j)'
      BY DEF Counted
    <2>1. hits[j] \in Nat /\ Begun(j) \in Nat /\ Begun(j)' \in Nat
      BY BegunType DEF Accounted, Inductive, TypeOK, Begun
    <2>2. IsFiniteSet(Copies(j)) /\ hits[j] + Cardinality(Copies(j)) <= Begun(j)
      BY DEF Accounted, Counted
    <2>3. /\ IsFiniteSet(Copies(j)')
          /\ Cardinality(Copies(j)) \in Nat /\ Cardinality(Copies(j)') \in Nat
          /\ hits[j] + Cardinality(Copies(j)') <= hits[j] + Cardinality(Copies(j))
      BY <2>1, <2>2, FewerCopies, SmallerSum
    <2> QED
      BY <2>1, <2>2, <2>3
  <1> QED
    BY <1>1, <1>2

\* It keeps the rest, too, as long as no call returns in it from a transfer
\* without having met a fault.
LEMMA QuietStep ==
    ASSUME Accounted, Inductive', Fewer, UNCHANGED hits,
           \A j \in Calls : Begun(j) <= Begun(j)',
           \A j \in Calls : pc'[j] \in Returned /\ faults'[j] = 0 /\ IsData(op'[j]) =>
               pc[j] = pc'[j] /\ op[j] = op'[j] /\ faults[j] = 0
    PROVE  Accounted'
  <1> SUFFICES ASSUME NEW j \in Calls, pc'[j] \in Returned, faults'[j] = 0
               PROVE  /\ Copies(j)' = {}
                      /\ pc'[j] = "ok" /\ IsData(op'[j]) => hits'[j] = 1
    BY QuietCount DEF Accounted, CleanReturn
  <1>1. CASE IsData(op'[j])
    BY <1>1, FewerCopies DEF Accounted, CleanReturn
  <1>2. CASE ~ IsData(op'[j])
    <2>1. Traced'
      BY DEF Inductive
    <2>2. Copies(j)' # {} => \E k \in Conns : \E n \in DOMAIN link'[k].req :
                                 link'[k].req[n].call = j
      BY DEF Copies
    <2> QED
      BY <1>2, <2>1, <2>2 DEF Traced
  <1> QED
    BY <1>1, <1>2

\* Connections whose requests are left alone.
LEMMA SameRequests ==
    ASSUME TypeOK, TypeOK', \A k \in Conns : link'[k].req = link[k].req
    PROVE  Fewer
  <1>1. \A k \in Conns : Len(link[k].req) \in Nat
    BY DEF TypeOK, Links
  <1> QED
    BY <1>1 DEF Fewer

\* A failed attempt keeps the account: it counts as begun whether or not its
\* request was written, and a call that fails has met a fault.
LEMMA FailureCounted ==
    ASSUME Accounted, Inductive', NEW i \in Calls, mu = i, AttemptFailed(i),
           UNCHANGED <<op, budget, hits>>, \A j \in Calls : faults'[j] >= faults[j]
    PROVE  Accounted'
  <1>t. TypeOK /\ TypeOK'
    BY DEF Accounted, Inductive
  <1>1. Fewer
    BY <1>t, HangUpFacts, SameRequests
    DEF Accounted, AttemptFailed, CloseLocked, MoreAttempts
  <1>2. pc[i] \in {"attempt", "await"} /\ attempt <= budget[i]
    BY DEF Accounted, Inductive, LockHeld
  <1>3. /\ \A j \in Calls : j # i => pc'[j] = pc[j] /\ pc[j] \notin {"attempt", "await"}
        /\ \/ attempt < budget[i] /\ attempt' = attempt + 1 /\ pc'[i] = "attempt"
           \/ pc'[i] = "failed"
    BY <1>t DEF Accounted, Inductive, LockHeld, TypeOK, AttemptFailed, CloseLocked,
                MoreAttempts, Return
  <1>4. \A j \in Calls : Begun(j) <= Begun(j)'
    <2>1. attempt \in Nat /\ \A j \in Calls : budget[j] \in Nat /\ budget'[j] = budget[j]
      BY <1>t DEF TypeOK
    <2>2. Begun(i) <= Begun(i)'
      BY <1>2, <1>3, <2>1 DEF Begun, Returned
    <2>3. \A j \in Calls : j # i => Begun(j)' = Begun(j)
      BY <1>3, <2>1 DEF Begun
    <2>4. \A j \in Calls : Begun(j) \in Nat
      BY <1>t, BegunType
    <2> QED
      BY <2>2, <2>3, <2>4
  <1>5. ASSUME NEW j \in Calls, pc'[j] \in Returned, faults'[j] = 0, IsData(op'[j])
        PROVE  pc[j] = pc'[j] /\ op[j] = op'[j] /\ faults[j] = 0
    <2>1. faults[j] \in Nat /\ budget'[j] \in Nat
      BY <1>t DEF TypeOK
    <2>2. j # i
      <3> SUFFICES ASSUME j = i PROVE FALSE
        OBVIOUS
      <3>1. pc'[i] = "failed"
        BY <1>3, <1>5 DEF Returned
      <3>2. faults'[i] > budget'[i]
        BY <1>5, <3>1 DEF Inductive, RetryMasksFaults
      <3> QED
        BY <1>5, <2>1, <3>2
    <2> QED
      BY <1>3, <1>5, <2>1, <2>2
  <1> QED
    BY <1>1, <1>4, <1>5, QuietStep

\* One more request is one more attempt.
LEMMA TransmitCounted ==
    ASSUME Accounted, Inductive', NEW i \in Calls, Transmit(i)
    PROVE  Accounted'
  <1> DEFINE q == [call |-> i, tid |-> NextTransID]
  <1>0. /\ UNCHANGED <<mu, conn, attempt, op, budget, hits, faults>>
        /\ link' = Written(conn, q)
        /\ conn \in Conns
        /\ pc[i] = "attempt" /\ pc'[i] = "await"
        /\ \A j \in Calls : j # i => pc'[j] = pc[j]
    BY DEF Transmit, SentTransID, history, Accounted, Inductive, TypeOK
  <1>t. TypeOK /\ TypeOK'
    BY DEF Accounted, Inductive
  <1>1. q \in Request
    BY <1>t, NextTransIDType DEF Request, TypeOK
  <1>2. \A j \in Conns :
            link'[j].req = IF j = conn /\ link[j].st = "up"
                           THEN Append(link[j].req, q) ELSE link[j].req
    BY <1>t, <1>0, <1>1, WrittenFields DEF TypeOK
  <1>3. link[conn].req = <<>>
    <2>1. DOMAIN link[conn].req = {}
      <3>1. mu = i /\ conn # NoConn
        BY <1>0, NoConnAssumption DEF Accounted, Inductive, LockHeld
      <3> QED
        BY <1>0, <3>1 DEF Accounted, Inductive, StreamInSync, Awaited
    <2> QED
      BY <1>t, <1>0, <2>1, OnTheWire, QueueFacts
  <1>4. Len(Append(<<>>, q)) = 1 /\ \A n \in DOMAIN Append(<<>>, q) : Append(<<>>, q)[n] = q
    OBVIOUS
  <1>5. OneRequest'
    <2> SUFFICES ASSUME NEW k \in Conns PROVE Len(link'[k].req) <= 1
      BY DEF OneRequest
    <2>1. CASE link'[k].req = link[k].req
      BY <2>1 DEF Accounted, OneRequest
    <2>2. CASE k = conn /\ link'[k].req = Append(<<>>, q)
      BY <1>4, <2>2
    <2> QED
      BY <1>2, <1>3, <2>1, <2>2
  <1>6. /\ Copies(i)' \subseteq Copies(i) \cup {conn}
        /\ \A j \in Calls : j # i => Copies(j)' \subseteq Copies(j)
    <2> SUFFICES ASSUME NEW j \in Calls, NEW k \in Copies(j)'
                 PROVE  k \in Copies(j) \/ (j = i /\ k = conn)
      OBVIOUS
    <2>1. k \in Conns /\ \E n \in DOMAIN link'[k].req : link'[k].req[n].call = j
      BY DEF Copies
    <2>2. PICK n \in DOMAIN link'[k].req : link'[k].req[n].call = j
      BY <2>1
    <2>3. CASE link'[k].req = link[k].req
      BY <2>1, <2>2, <2>3 DEF Copies
    <2>4. CASE k = conn /\ link'[k].req = Append(<<>>, q)
      <3>1. link'[k].req[n] = q
        BY <1>4, <2>2, <2>4
      <3> QED
        BY <2>2, <2>4, <3>1
    <2> QED
      BY <1>2, <1>3, <2>1, <2>3, <2>4
  <1>7. Counted'
    <2> SUFFICES ASSUME NEW j \in Calls
                 PROVE  IsFiniteSet(Copies(j)') /\ hits'[j] + Cardinality(Copies(j)') <= Begun(j)'
      BY DEF Counted
    <2>1. hits[j] \in Nat /\ hits'[j] = hits[j] /\ Begun(j) \in Nat
      BY <1>t, <1>0, BegunType DEF TypeOK
    <2>2. IsFiniteSet(Copies(j)) /\ hits[j] + Cardinality(Copies(j)) <= Begun(j)
      BY DEF Accounted, Counted
    <2>3. CASE j = i
      <3>1. /\ IsFiniteSet(Copies(i) \cup {conn})
            /\ Cardinality(Copies(i) \cup {conn}) <= Cardinality(Copies(i)) + 1
            /\ Cardinality(Copies(i)) \in Nat
        BY <2>2, <2>3, FS_AddElement, FS_CardinalityType
      <3>2. /\ IsFiniteSet(Copies(i)') /\ Cardinality(Copies(i)') \in Nat
            /\ Cardinality(Copies(i) \cup {conn}) \in Nat
            /\ hits[i] + Cardinality(Copies(i)') <= hits[i] + Cardinality(Copies(i) \cup {conn})
        BY <1>6, <2>1, <2>3, <3>1, SmallerSum
      <3>3. Begun(i)' = Begun(i) + 1
        BY <1>0 DEF Begun, Returned
      <3> QED
        BY <2>1, <2>2, <2>3, <3>1, <3>2, <3>3
    <2>4. CASE j # i
      <3>1. /\ IsFiniteSet(Copies(j)')
            /\ Cardinality(Copies(j)) \in Nat /\ Cardinality(Copies(j)') \in Nat
            /\ hits[j] + Cardinality(Copies(j)') <= hits[j] + Cardinality(Copies(j))
        BY <1>6, <2>1, <2>2, <2>4, SmallerSum
      <3>2. Begun(j)' = Begun(j)
        BY <1>0, <2>4 DEF Begun
      <3> QED
        BY <2>1, <2>2, <3>1, <3>2
    <2> QED
      BY <2>3, <2>4
  <1>8. CleanReturn'
    <2> SUFFICES ASSUME NEW j \in Calls, pc'[j] \in Returned, faults'[j] = 0
                 PROVE  /\ Copies(j)' = {}
                        /\ pc'[j] = "ok" /\ IsData(op'[j]) => hits'[j] = 1
      BY DEF CleanReturn
    <2>1. j # i
      BY <1>0 DEF Returned
    <2> QED
      BY <1>0, <1>6, <2>1 DEF Accounted, CleanReturn
  <1> QED
    BY <1>5, <1>7, <1>8 DEF Accounted

\* An executed request is one less that can be.
LEMMA ServeCounted ==
    ASSUME Accounted, Inductive', NEW k \in Conns, NEW kind \in ReplyKinds, Serve(k, kind)
    PROVE  Accounted'
  <1> DEFINE q == Head(link[k].req)
  <1>t. TypeOK /\ TypeOK'
    BY DEF Accounted, Inductive
  <1>1. /\ link[k].req # <<>> /\ link[k].req \in Seq(Request)
        /\ q = link[k].req[1] /\ 1 \in DOMAIN link[k].req
        /\ Len(link[k].req) <= 1 /\ Tail(link[k].req) = <<>>
        /\ q.call \in Calls /\ k \in Copies(q.call)
    <2>1. link[k].req # <<>> /\ link[k].req \in Seq(Request) /\ Len(link[k].req) <= 1
      BY <1>t, OnTheWire DEF Serve, Accounted, OneRequest
    <2>2. q = link[k].req[1] /\ 1 \in DOMAIN link[k].req /\ Tail(link[k].req) = <<>>
      BY <2>1, HeadFacts, QueueFacts
    <2> QED
      BY <1>t, <2>1, <2>2, OnTheWire DEF Copies
  <1>c. PICK c \in Calls : c = q.call
    BY <1>1
  <1>2. /\ UNCHANGED <<pc, op, budget, attempt>>
        /\ \A j \in Conns : link'[j].req = IF j = k THEN <<>> ELSE link[j].req
    BY <1>1, <1>t DEF Serve, Answered, client, calls, TypeOK, Links
  <1>3. \/ UNCHANGED hits
        \/ hits' = [hits EXCEPT ![c] = @ + 1]
    BY <1>c DEF Serve, Execute
  <1>4. \A j \in Calls : faults[j] \in Nat /\ faults'[j] \in Nat /\ faults'[j] >= faults[j]
    <2>1. faults' = faults \/ faults' = MoreFaults(c)
      BY <1>c DEF Serve
    <2>2. /\ faults \in [Calls -> Nat] /\ faults' \in [Calls -> Nat]
          /\ \A j \in Calls : MoreFaults(c)[j] >= faults[j]
      BY <1>t, MoreFaultsFacts DEF TypeOK
    <2> QED
      BY <2>1, <2>2
  <1>5. \A j \in Calls : Copies(j)' \subseteq Copies(j) \ {k}
    <2> SUFFICES ASSUME NEW j \in Calls, NEW n \in Copies(j)'
                 PROVE  n \in Copies(j) /\ n # k
      OBVIOUS
    <2>1. DOMAIN <<>> = {}
      OBVIOUS
    <2>2. n \in Conns /\ \E m \in DOMAIN link'[n].req : link'[n].req[m].call = j
      BY DEF Copies
    <2> QED
      BY <1>2, <2>1, <2>2 DEF Copies
  <1>6. OneRequest'
    <2>1. Len(<<>>) = 0
      OBVIOUS
    <2> QED
      BY <1>2, <2>1 DEF Accounted, OneRequest
  <1>7. Counted'
    <2> SUFFICES ASSUME NEW j \in Calls
                 PROVE  IsFiniteSet(Copies(j)') /\ hits'[j] + Cardinality(Copies(j)') <= Begun(j)'
      BY DEF Counted
    <2>1. hits[j] \in Nat /\ Begun(j) \in Nat /\ Begun(j)' = Begun(j)
      BY <1>t, <1>2, BegunType DEF TypeOK, Begun
    <2>2. IsFiniteSet(Copies(j)) /\ hits[j] + Cardinality(Copies(j)) <= Begun(j)
      BY DEF Accounted, Counted
    <2>3. CASE j = c
      <3>1. /\ IsFiniteSet(Copies(j) \ {k})
            /\ Cardinality(Copies(j) \ {k}) = Cardinality(Copies(j)) - 1
            /\ Cardinality(Copies(j)) \in Nat
        BY <1>1, <1>c, <2>2, <2>3, FS_RemoveElement, FS_CardinalityType
      <3>2. /\ IsFiniteSet(Copies(j)') /\ Cardinality(Copies(j)') \in Nat
            /\ hits[j] + Cardinality(Copies(j)') <= hits[j] + Cardinality(Copies(j) \ {k})
        BY <1>5, <2>1, <2>3, <3>1, SmallerSum
      <3>3. hits'[j] \in Nat /\ hits'[j] <= hits[j] + 1
        BY <1>t, <1>3, <2>1, <2>3 DEF TypeOK
      <3> QED
        BY <2>1, <2>2, <3>1, <3>2, <3>3
    <2>4. CASE j # c
      <3>1. /\ IsFiniteSet(Copies(j)')
            /\ Cardinality(Copies(j)) \in Nat /\ Cardinality(Copies(j)') \in Nat
            /\ hits[j] + Cardinality(Copies(j)') <= hits[j] + Cardinality(Copies(j))
        BY <1>5, <2>1, <2>2, SmallerSum
      <3>2. hits'[j] = hits[j]
        BY <1>t, <1>3, <2>4 DEF TypeOK
      <3> QED
        BY <2>1, <2>2, <3>1, <3>2
    <2> QED
      BY <2>3, <2>4
  <1>8. CleanReturn'
    <2> SUFFICES ASSUME NEW j \in Calls, pc'[j] \in Returned, faults'[j] = 0
                 PROVE  /\ Copies(j)' = {}
                        /\ pc'[j] = "ok" /\ IsData(op'[j]) => hits'[j] = 1
      BY DEF CleanReturn
    <2>1. Copies(j) = {} /\ (pc[j] = "ok" /\ IsData(op[j]) => hits[j] = 1)
      BY <1>2, <1>4 DEF Accounted, CleanReturn
    <2>2. j # c
      BY <1>1, <1>c, <2>1
    <2>3. hits'[j] = hits[j]
      BY <1>t, <1>3, <2>2 DEF TypeOK
    <2> QED
      BY <1>2, <1>5, <2>1, <2>3
  <1> QED
    BY <1>6, <1>7, <1>8 DEF Accounted

\* A call that takes its reply had one attempt for each fault and one more, so
\* without a fault that reply is of its only request.
LEMMA TakeReplyCounted ==
    ASSUME Accounted, Inductive', NEW i \in Calls, TakeReply(i)
    PROVE  Accounted'
  <1> DEFINE r == Head(link[conn].rep)
  <1>t. TypeOK /\ TypeOK'
    BY DEF Accounted, Inductive
  <1>0. /\ UNCHANGED <<op, budget, hits, faults>>
        /\ link' = Consumed(conn)
        /\ conn \in Conns /\ conn # NoConn
        /\ link[conn].rep # <<>>
        /\ mu = i /\ pc[i] = "await"
        /\ pc'[i] \in {"ok", "rejected"}
        /\ \A j \in Calls : j # i => pc'[j] = pc[j] /\ pc[j] \notin {"attempt", "await"}
    BY <1>t, TakeReplyReturns
    DEF TakeReply, Return, history, Accounted, Inductive, LockHeld, TypeOK
  <1>1. \A k \in Conns : link'[k].req = link[k].req
    BY <1>t, <1>0, ConsumedFields DEF TypeOK
  <1>2. Fewer
    BY <1>t, <1>1, SameRequests
  <1>3. /\ attempt \in Nat /\ attempt <= budget[i]
        /\ \A j \in Calls : hits[j] \in Nat /\ faults[j] \in Nat /\ budget[j] \in Nat
    BY <1>t, <1>0 DEF TypeOK, Accounted, Inductive, LockHeld
  <1>4. \A j \in Calls : Begun(j) <= Begun(j)'
    <2>1. Begun(i) = attempt + 1 /\ Begun(i)' = budget[i] + 1
      BY <1>0 DEF Begun, Returned
    <2>2. \A j \in Calls : j # i => Begun(j)' = Begun(j)
      BY <1>0 DEF Begun
    <2>3. \A j \in Calls : Begun(j) \in Nat
      BY <1>t, BegunType
    <2> QED
      BY <1>3, <2>1, <2>2, <2>3
  <1>5. OneRequest' /\ Counted'
    BY <1>0, <1>2, <1>4, QuietCount
  <1>6. ASSUME faults[i] = 0
        PROVE  Copies(i) = {} /\ hits[i] = 1
    <2>1. attempt = 0 /\ ~ Doomed
      BY <1>0, <1>3, <1>6 DEF Accounted, Inductive, FaultsCharged
    <2>2. r = link[conn].rep[1] /\ 1 \in DOMAIN link[conn].rep
      BY <1>t, <1>0, OnTheWire, HeadFacts
    <2>3. r.kind = "normal" /\ r.call = i
      BY <1>0, <2>1, <2>2 DEF Doomed, Accounted, Inductive, StreamInSync, Awaited
    <2>4. hits[i] >= 1
      BY <1>0, <2>2, <2>3 DEF Accounted, Inductive, Traced
    <2>5. IsFiniteSet(Copies(i)) /\ hits[i] + Cardinality(Copies(i)) <= 1
      BY <1>0, <2>1 DEF Accounted, Counted, Begun, Returned
    <2>6. Cardinality(Copies(i)) \in Nat
      BY <2>5, FS_CardinalityType
    <2>7. hits[i] = 1 /\ Cardinality(Copies(i)) = 0
      BY <1>3, <2>4, <2>5, <2>6
    <2> QED
      BY <2>5, <2>7, FS_EmptySet
  <1>7. CleanReturn'
    <2> SUFFICES ASSUME NEW j \in Calls, pc'[j] \in Returned, faults'[j] = 0
                 PROVE  /\ Copies(j)' = {}
                        /\ pc'[j] = "ok" /\ IsData(op'[j]) => hits'[j] = 1
      BY DEF CleanReturn
    <2>1. Copies(j) = {} /\ (pc'[j] = "ok" /\ IsData(op[j]) => hits[j] = 1)
      BY <1>0, <1>6 DEF Accounted, CleanReturn
    <2> QED
      BY <1>0, <1>2, <2>1, FewerCopies
  <1> QED
    BY <1>5, <1>7 DEF Accounted

LEMMA AccountedInit == Init => Accounted
  <1> SUFFICES ASSUME Init PROVE Accounted
    OBVIOUS
  <1>1. Inductive
    BY InductiveInit
  <1>2. \A k \in Conns : link[k].req = <<>>
    BY DEF Init, Down
  <1>3. Len(<<>>) = 0 /\ DOMAIN <<>> = {}
    OBVIOUS
  <1>4. \A i \in Calls : Copies(i) = {}
    BY <1>2, <1>3 DEF Copies
  <1>5. \A i \in Calls : Begun(i) = 0 /\ hits[i] = 0 /\ pc[i] \notin Returned
    BY DEF Init, Begun, Returned
  <1>6. IsFiniteSet({}) /\ Cardinality({}) = 0
    BY FS_EmptySet
  <1>7. OneRequest
    BY <1>2, <1>3 DEF OneRequest
  <1>8. Counted
    <2> SUFFICES ASSUME NEW i \in Calls
                 PROVE  IsFiniteSet(Copies(i)) /\ hits[i] + Cardinality(Copies(i)) <= Begun(i)
      BY DEF Counted
    <2>1. Cardinality(Copies(i)) = 0 /\ hits[i] = 0 /\ Begun(i) = 0
      BY <1>4, <1>5, <1>6
    <2> QED
      BY <1>4, <1>6, <2>1
  <1> QED
    BY <1>1, <1>5, <1>7, <1>8 DEF Accounted, CleanReturn

LEMMA AccountedNext == Accounted /\ [Next]_vars => Accounted'
  <1> SUFFICES ASSUME Accounted, [Next]_vars PROVE Accounted'
    OBVIOUS
  <1>i. Inductive /\ Inductive'
    BY InductiveNext DEF Accounted
  <1>t. TypeOK /\ TypeOK'
    BY <1>i DEF Inductive
  <1>n. /\ \A j \in Calls : /\ Begun(j) \in Nat /\ faults[j] \in Nat /\ faults'[j] \in Nat
                            /\ budget[j] \in Nat
        /\ attempt \in Nat
    BY <1>t, BegunType DEF TypeOK
  <1>1. ASSUME NEW i \in Calls, NEW o \in Ops, Invoke(i, o) PROVE Accounted'
    <2>0. /\ UNCHANGED <<link, attempt, budget, hits, faults>>
          /\ pc[i] = "new" /\ pc'[i] = "blocked"
          /\ \A j \in Calls : j # i => pc'[j] = pc[j] /\ op'[j] = op[j]
      BY <1>1, <1>t DEF Invoke, client, history, TypeOK
    <2>1. \A j \in Calls : Begun(j)' = Begun(j)
      BY <2>0 DEF Begun, Returned
    <2>2. Fewer
      BY <1>t, <2>0, SameRequests
    <2> QED
      BY <1>i, <1>n, <2>0, <2>1, <2>2, QuietStep DEF Returned
  <1>2. ASSUME NEW i \in Calls,
               \/ ReturnLocally(i) \/ OpenFail(i) \/ Close(i)
               \/ \E k \in Conns : Open(i, k)
        PROVE  Accounted'
    <2>0. /\ UNCHANGED <<attempt, budget, op, hits, faults>>
          /\ pc[i] = "blocked" /\ pc'[i] \in Returned /\ ~ IsData(op[i])
          /\ \A j \in Calls : j # i => pc'[j] = pc[j]
      BY <1>2, <1>t DEF ReturnLocally, OpenFail, Close, Open, client, history,
                        TypeOK, IsData, Returned
    <2>1. \A j \in Calls : Begun(j) <= Begun(j)'
      <3>1. Begun(i) = 0 /\ Begun(i)' = budget[i] + 1
        BY <2>0 DEF Begun, Returned
      <3>2. \A j \in Calls : j # i => Begun(j)' = Begun(j)
        BY <2>0 DEF Begun
      <3> QED
        BY <1>n, <3>1, <3>2
    <2>2. \A k \in Conns : link'[k].req = link[k].req
      <3>1. \A k \in Conns : HungUp(conn)[k].req = link[k].req
        BY <1>t, HungUpFields DEF TypeOK
      <3>2. HungUp(conn) \in [Conns -> Links(Request, Reply)]
        BY <1>t, WireTypes DEF HungUp, TypeOK
      <3> QED
        BY <1>2, <3>1, <3>2
        DEF ReturnLocally, OpenFail, Close, Open, OldClosed, Links
    <2>3. Fewer
      BY <1>t, <2>2, SameRequests
    <2> QED
      BY <1>i, <2>0, <2>1, <2>3, QuietStep
  <1>3. ASSUME NEW i \in Calls, Acquire(i) PROVE Accounted'
    <2>0. /\ UNCHANGED <<link, op, hits>>
          /\ pc[i] = "blocked" /\ pc'[i] = "attempt" /\ attempt' = 0 /\ mu = NoCall
          /\ \A j \in Calls : j # i => pc'[j] = pc[j] /\ budget'[j] = budget[j]
                                       /\ faults'[j] = faults[j]
      BY <1>3, <1>t DEF Acquire, TypeOK
    <2>1. \A j \in Calls : Begun(j)' = Begun(j)
      BY <1>i, <2>0, IdleConnection DEF Begun, Returned
    <2>2. Fewer
      BY <1>t, <2>0, SameRequests
    <2> QED
      BY <1>i, <1>n, <2>0, <2>1, <2>2, QuietStep DEF Returned
  <1>4. ASSUME NEW i \in Calls, NEW k \in Conns, Connect(i, k) PROVE Accounted'
    <2>0. UNCHANGED <<attempt, pc, op, budget, hits, faults>> /\ link' = Dialled(k)
      BY <1>4 DEF Connect, calls, history
    <2>1. \A j \in Calls : Begun(j)' = Begun(j)
      BY <2>0 DEF Begun
    <2>2. \A j \in Conns : link'[j].req = link[j].req
      BY <1>t, <2>0, DialledFields DEF TypeOK
    <2>3. Fewer
      BY <1>t, <2>2, SameRequests
    <2> QED
      BY <1>i, <1>n, <2>0, <2>1, <2>3, QuietStep
  <1>5. ASSUME NEW i \in Calls,
               ConnectFail(i) \/ TransmitFail(i) \/ RefuseReply(i) \/ ReceiveFail(i)
        PROVE  Accounted'
    <2>1. /\ mu = i /\ AttemptFailed(i)
          /\ UNCHANGED <<op, budget, hits>>
          /\ faults' = faults \/ faults' = MoreFaults(i)
      BY <1>5, <1>i DEF ConnectFail, TransmitFail, RefuseReply, ReceiveFail, history,
                        Inductive, LockHeld
    <2>2. \A j \in Calls : MoreFaults(i)[j] >= faults[j]
      BY <1>t, MoreFaultsFacts DEF TypeOK
    <2>3. \A j \in Calls : faults'[j] >= faults[j]
      BY <1>n, <2>1, <2>2
    <2> QED
      BY <1>i, <2>1, <2>3, FailureCounted
  <1>6. ASSUME NEW i \in Calls, Transmit(i) PROVE Accounted'
    BY <1>i, <1>6, TransmitCounted
  <1>7. ASSUME NEW i \in Calls, TakeReply(i) PROVE Accounted'
    BY <1>i, <1>7, TakeReplyCounted
  <1>8. ASSUME NEW n \in Policies, SetRetryPolicy(n) PROVE Accounted'
    <2>0. UNCHANGED <<link, attempt, pc, op, budget, hits, faults>>
      BY <1>8 DEF SetRetryPolicy, calls, history
    <2>1. \A j \in Calls : Begun(j)' = Begun(j)
      BY <2>0 DEF Begun
    <2>2. Fewer
      BY <1>t, <2>0, SameRequests
    <2> QED
      BY <1>i, <1>n, <2>0, <2>1, <2>2, QuietStep
  <1>9. ASSUME NEW k \in Conns, NEW kind \in ReplyKinds, Serve(k, kind) PROVE Accounted'
    BY <1>i, <1>9, ServeCounted
  <1>10. ASSUME NEW k \in Conns, Ignore(k) \/ Sever(k) PROVE Accounted'
    <2>0. /\ UNCHANGED <<attempt, pc, op, budget, hits>>
          /\ \A j \in Calls : faults'[j] = 0 => faults[j] = 0
      <3>1. faults' = faults \/ (mu \in Calls /\ faults' = MoreFaults(mu))
        BY <1>10, <1>t DEF Ignore, Sever, history, TypeOK
      <3>2. mu \in Calls => \A j \in Calls : MoreFaults(mu)[j] >= faults[j]
        BY <1>t, MoreFaultsFacts DEF TypeOK
      <3>3. \A j \in Calls : faults'[j] >= faults[j]
        BY <1>n, <3>1, <3>2
      <3> QED
        BY <1>10, <1>n, <3>3 DEF Ignore, Sever, client, calls, history
    <2>1. \A j \in Calls : Begun(j)' = Begun(j)
      BY <2>0 DEF Begun
    <2>2. \A j \in Conns : \/ link'[j].req = link[j].req
                           \/ link'[j].req = <<>>
                           \/ link[j].req # <<>> /\ link'[j].req = Tail(link[j].req)
      <3>1. CASE Ignore(k)
        <4>1. link' = Ignored(k) /\ link[k].req # <<>>
          BY <3>1 DEF Ignore
        <4> QED
          BY <1>t, <4>1, IgnoredFields DEF TypeOK
      <3>2. CASE Sever(k)
        <4>1. link' = Severed(k)
          BY <3>2 DEF Sever
        <4> QED
          BY <1>t, <4>1, SeveredFields DEF TypeOK
      <3> QED
        BY <1>10, <3>1, <3>2
    <2>3. Fewer
      <3> SUFFICES ASSUME NEW j \in Conns
                   PROVE  /\ Len(link'[j].req) <= Len(link[j].req)
                          /\ \A n \in DOMAIN link'[j].req : \E m \in DOMAIN link[j].req :
                                link'[j].req[n] = link[j].req[m]
        BY DEF Fewer
      <3>1. link[j].req \in Seq(Request) /\ Len(link[j].req) \in Nat
        BY <1>t DEF TypeOK, Links
      <3>2. Len(<<>>) = 0 /\ DOMAIN <<>> = {}
        OBVIOUS
      <3>3. link[j].req # <<>> => Len(Tail(link[j].req)) = Len(link[j].req) - 1
        BY <3>1
      <3>4. link[j].req # <<>> => \A n \in DOMAIN Tail(link[j].req) :
                \E m \in DOMAIN link[j].req : Tail(link[j].req)[n] = link[j].req[m]
        BY <3>1, TailElements
      <3>5. CASE link'[j].req = link[j].req
        BY <3>1, <3>5
      <3>6. CASE link'[j].req = <<>>
        BY <3>1, <3>2, <3>6
      <3>7. CASE link[j].req # <<>> /\ link'[j].req = Tail(link[j].req)
        <4>1. Len(Tail(link[j].req)) <= Len(link[j].req)
          BY <3>1, <3>3, <3>7
        <4> QED
          BY <3>4, <3>7, <4>1
      <3> QED
        BY <2>2, <3>5, <3>6, <3>7
    <2> QED
      BY <1>i, <1>n, <2>0, <2>1, <2>3, QuietStep
  <1>11. CASE UNCHANGED vars
    <2>0. UNCHANGED <<link, attempt, pc, op, budget, hits, faults>>
      BY <1>11 DEF vars, calls, history, client
    <2>1. \A j \in Calls : Begun(j)' = Begun(j)
      BY <2>0 DEF Begun
    <2>2. Fewer
      BY <1>t, <2>0, SameRequests
    <2> QED
      BY <1>i, <1>n, <2>0, <2>1, <2>2, QuietStep
  <1> QED
    BY <1>1, <1>2, <1>3, <1>4, <1>5, <1>6, <1>7, <1>8, <1>9, <1>10, <1>11
    DEF Next, Enter, Progress, Device

LEMMA AccountedInvariant == Spec => []Accounted
  BY AccountedInit, AccountedNext, PTL DEF Spec

-----------------------------------------------------------------------------
\* The device executes a call at most once per attempt of its policy, also when
\* requests abandoned on closed connections reach it after the call returned.
THEOREM ExecutionsBounded == Spec => []AttemptsBounded
  <1>1. Accounted => AttemptsBounded
    <2> SUFFICES ASSUME Accounted, NEW i \in Calls, IsData(op[i])
                 PROVE  hits[i] + Cardinality(Copies(i)) <= budget[i] + 1
      BY DEF AttemptsBounded
    <2>1. IsFiniteSet(Copies(i)) /\ hits[i] + Cardinality(Copies(i)) <= Begun(i)
      BY DEF Accounted, Counted
    <2>2. Cardinality(Copies(i)) \in Nat
      BY <2>1, FS_CardinalityType
    <2>3. hits[i] \in Nat /\ budget[i] \in Nat /\ attempt \in Nat
      BY DEF Accounted, Inductive, TypeOK
    <2>4. pc[i] \in {"attempt", "await"} => attempt <= budget[i]
      BY DEF Accounted, Inductive, LockHeld
    <2>5. Begun(i) \in Nat /\ Begun(i) <= budget[i] + 1
      BY <2>3, <2>4 DEF Begun, Returned
    <2> QED
      BY <2>1, <2>2, <2>3, <2>5
  <1> QED
    BY <1>1, AccountedInvariant, PTL

\* A call that succeeds without a fault was executed exactly once, and no
\* request of it is left.
THEOREM NoNeedlessRepetition == Spec => []OnceWithoutFaults
  <1>1. Accounted => OnceWithoutFaults
    BY DEF Accounted, CleanReturn, OnceWithoutFaults, Returned
  <1> QED
    BY <1>1, AccountedInvariant, PTL

\* The device executes a call that has returned only if the call met a fault.
THEOREM LateTakesAFault == Spec => LateOnlyAfterFault
  <1>1. Accounted /\ [Next]_vars =>
           [\A i \in Calls : pc[i] \in Returned /\ hits'[i] # hits[i] => faults[i] > 0]_vars
    <2> SUFFICES ASSUME Accounted, Next, NEW i \in Calls, pc[i] \in Returned, hits'[i] # hits[i]
                 PROVE  faults[i] > 0
      BY DEF vars, history
    <2>1. PICK k \in Conns, kind \in ReplyKinds : Serve(k, kind)
      BY DEF Next, Enter, Progress, Device, Invoke, ReturnLocally, Acquire, Open, OpenFail,
             Close, Connect, ConnectFail, Transmit, TransmitFail, RefuseReply, TakeReply,
             ReceiveFail, SetRetryPolicy, Ignore, Sever, history
    <2> DEFINE q == Head(link[k].req)
    <2>2. hits' = hits \/ hits' = [hits EXCEPT ![q.call] = @ + 1]
      BY <2>1 DEF Serve, Execute
    <2>3. /\ link[k].req # <<>> /\ link[k].req \in Seq(Request)
          /\ faults[i] \in Nat /\ hits \in [Calls -> Nat]
      BY <2>1 DEF Serve, Accounted, Inductive, TypeOK, Links
    <2>4. q = link[k].req[1] /\ 1 \in DOMAIN link[k].req
      BY <2>3, HeadFacts
    <2>5. q.call = i
      BY <2>2, <2>3
    <2>6. k \in Copies(i)
      BY <2>4, <2>5 DEF Copies
    <2>7. faults[i] # 0
      BY <2>6 DEF Accounted, CleanReturn
    <2> QED
      BY <2>3, <2>7
  <1> QED
    BY <1>1, AccountedInvariant, PTL DEF Spec, LateOnlyAfterFault

-----------------------------------------------------------------------------
(***************************************************************************)
(* ModbusClient implements DataService: every step of the client, of its   *)
(* connections and of its device is a step of the service or none.         *)
(***************************************************************************)

\* What the service sees of a call outside the one that moves.
Others(i) == \A j \in Calls : j # i => Status(j)' = Status(j)

SameCopies == \A j \in Calls : Copies(j)' = Copies(j)

LEMMA SameRequestsSameCopies ==
    ASSUME \A k \in Conns : link'[k].req = link[k].req
    PROVE  SameCopies
  <1> SUFFICES ASSUME NEW j \in Calls PROVE Copies(j)' = Copies(j)
    BY DEF SameCopies
  <1> QED
    BY DEF Copies

\* The status of a call is where it is, and nothing else.
LEMMA StatusFacts ==
    ASSUME TypeOK, NEW i \in Calls
    PROVE  /\ Status(i) = "new" <=> pc[i] = "new"
           /\ Status(i) = "pending" <=> pc[i] \in Waiting
           /\ Status(i) = "ok" <=> pc[i] = "ok"
           /\ Status(i) = "failed" <=> pc[i] \in {"failed", "rejected"}
  BY DEF TypeOK, Status, Waiting, Returned

LEMMA Stutter ==
    ASSUME UNCHANGED <<store, op, val, seen, hits>>, SameCopies,
           \A j \in Calls : Status(j)' = Status(j)
    PROVE  UNCHANGED Service!vars
  <1>1. [j \in Calls |-> Status(j)]' = [j \in Calls |-> Status(j)]
    OBVIOUS
  <1>2. [j \in Calls |-> Cardinality(Copies(j))]' = [j \in Calls |-> Cardinality(Copies(j))]
    BY DEF SameCopies
  <1> QED
    BY <1>1, <1>2 DEF Service!vars

LEMMA FailStep ==
    ASSUME UNCHANGED <<store, op, val, seen, hits>>, SameCopies,
           NEW i \in Calls, Status(i) = "pending", Status(i)' = "failed", Others(i)
    PROVE  Service!Next
  <1>1. [j \in Calls |-> Status(j)]' = [[j \in Calls |-> Status(j)] EXCEPT ![i] = "failed"]
    BY DEF Others
  <1>2. [j \in Calls |-> Cardinality(Copies(j))]' = [j \in Calls |-> Cardinality(Copies(j))]
    BY DEF SameCopies
  <1>3. Service!Fail(i)
    BY <1>1, <1>2 DEF Service!Fail
  <1> QED
    BY <1>3 DEF Service!Next

LEMMA SucceedStep ==
    ASSUME UNCHANGED <<store, op, seen, hits>>, SameCopies,
           NEW i \in Calls, Status(i) = "pending", Status(i)' = "ok", Others(i),
           op[i].kind = "write" => hits[i] > 0,
           op[i].kind = "read" => \E v \in seen[i] : val' = [val EXCEPT ![i] = v],
           op[i].kind # "read" => val' = val
    PROVE  Service!Next
  <1>1. [j \in Calls |-> Status(j)]' = [[j \in Calls |-> Status(j)] EXCEPT ![i] = "ok"]
    BY DEF Others
  <1>2. [j \in Calls |-> Cardinality(Copies(j))]' = [j \in Calls |-> Cardinality(Copies(j))]
    BY DEF SameCopies
  <1>3. Service!Succeed(i)
    BY <1>1, <1>2 DEF Service!Succeed
  <1> QED
    BY <1>3 DEF Service!Next

\* The number of requests in flight follows the connections that carry one.
LEMMA InFlight ==
    ASSUME Accounted, NEW c \in Calls, NEW k,
           \A j \in Calls : j # c => Copies(j)' = Copies(j)
    PROVE  LET fly == [j \in Calls |-> Cardinality(Copies(j))] IN
           /\ k \in Copies(c) /\ Copies(c)' = Copies(c) \ {k} =>
                 fly[c] > 0 /\ fly' = [fly EXCEPT ![c] = @ - 1]
           /\ k \notin Copies(c) /\ Copies(c)' = Copies(c) \cup {k} =>
                 fly' = [fly EXCEPT ![c] = @ + 1]
  <1> DEFINE fly == [j \in Calls |-> Cardinality(Copies(j))]
  <1>1. IsFiniteSet(Copies(c)) /\ Cardinality(Copies(c)) \in Nat
    BY FS_CardinalityType DEF Accounted, Counted
  <1>2. \A j \in Calls : j # c => fly'[j] = fly[j]
    OBVIOUS
  <1>3. ASSUME k \in Copies(c), Copies(c)' = Copies(c) \ {k}
        PROVE  fly[c] > 0 /\ fly' = [fly EXCEPT ![c] = @ - 1]
    <2>1. Copies(c) # {}
      BY <1>3
    <2>2. Cardinality(Copies(c)) # 0
      BY <1>1, <2>1, FS_EmptySet
    <2>3. Cardinality(Copies(c) \ {k}) = Cardinality(Copies(c)) - 1
      BY <1>1, <1>3, FS_RemoveElement
    <2>4. fly'[c] = fly[c] - 1
      BY <1>3, <2>3
    <2>5. fly[c] > 0
      BY <1>1, <2>2
    <2>6. fly' = [fly EXCEPT ![c] = @ - 1]
      BY <1>2, <2>4
    <2> QED
      BY <2>5, <2>6
  <1>4. ASSUME k \notin Copies(c), Copies(c)' = Copies(c) \cup {k}
        PROVE  fly' = [fly EXCEPT ![c] = @ + 1]
    <2>1. Cardinality(Copies(c) \cup {k}) = Cardinality(Copies(c)) + 1
      BY <1>1, <1>4, FS_AddElement
    <2>2. fly'[c] = fly[c] + 1
      BY <1>4, <2>1
    <2> QED
      BY <1>2, <2>2
  <1> QED
    BY <1>3, <1>4

\* The device takes the request at the head of k, the only one there.
LEMMA RequestTaken ==
    ASSUME Accounted, NEW k \in Conns, link[k].req # <<>>,
           \A j \in Conns : link'[j].req = IF j = k THEN Tail(link[j].req) ELSE link[j].req
    PROVE  \E c \in Calls :
              /\ c = Head(link[k].req).call
              /\ k \in Copies(c) /\ Copies(c)' = Copies(c) \ {k}
              /\ \A j \in Calls : j # c => Copies(j)' = Copies(j)
              /\ IsData(op[c])
  <1> DEFINE q == Head(link[k].req)
  <1>t. TypeOK /\ Traced /\ OneRequest
    BY DEF Accounted, Inductive
  <1>1. /\ link[k].req \in Seq(Request)
        /\ q = link[k].req[1] /\ 1 \in DOMAIN link[k].req
        /\ DOMAIN link[k].req = 1 .. 1 /\ Tail(link[k].req) = <<>>
        /\ q.call \in Calls
    <2>1. link[k].req \in Seq(Request) /\ Len(link[k].req) <= 1
      BY <1>t, OnTheWire DEF OneRequest
    <2>2. /\ q = link[k].req[1] /\ 1 \in DOMAIN link[k].req
          /\ DOMAIN link[k].req = 1 .. 1 /\ Tail(link[k].req) = <<>>
      BY <2>1, HeadFacts, QueueFacts
    <2> QED
      BY <1>t, <2>1, <2>2, OnTheWire
  <1>2. PICK c \in Calls : c = q.call
    BY <1>1
  <1>3. \A j \in Calls : k \in Copies(j) <=> j = c
    <2>1. \A n \in DOMAIN link[k].req : link[k].req[n].call = c
      BY <1>1, <1>2
    <2> QED
      BY <1>1, <2>1 DEF Copies
  <1>4. \A j \in Conns : link'[j].req = IF j = k THEN <<>> ELSE link[j].req
    BY <1>1
  <1>5. \A j \in Calls : Copies(j)' = Copies(j) \ {k}
    <2>1. DOMAIN <<>> = {}
      OBVIOUS
    <2> QED
      BY <1>4, <2>1 DEF Copies
  <1>6. IsData(op[c])
    BY <1>1, <1>2, <1>t DEF Traced
  <1>7. \A j \in Calls : j # c => Copies(j)' = Copies(j)
    BY <1>3, <1>5
  <1> QED
    BY <1>2, <1>3, <1>5, <1>6, <1>7

LEMMA LoseStep ==
    ASSUME UNCHANGED <<store, op, val, seen, hits>>, \A j \in Calls : Status(j)' = Status(j),
           Accounted, NEW k \in Conns, link[k].req # <<>>,
           \A j \in Conns : link'[j].req = IF j = k THEN Tail(link[j].req) ELSE link[j].req
    PROVE  Service!Next
  <1>1. PICK c \in Calls :
            /\ k \in Copies(c) /\ Copies(c)' = Copies(c) \ {k}
            /\ \A j \in Calls : j # c => Copies(j)' = Copies(j)
    BY RequestTaken
  <1>2. [j \in Calls |-> Status(j)]' = [j \in Calls |-> Status(j)]
    OBVIOUS
  <1>3. Service!Lose(c)
    BY <1>1, <1>2, InFlight DEF Service!Lose
  <1> QED
    BY <1>3 DEF Service!Next

LEMMA ExecuteStep ==
    ASSUME UNCHANGED <<op, val>>, \A j \in Calls : Status(j)' = Status(j),
           Accounted, NEW k \in Conns, link[k].req # <<>>, Execute(Head(link[k].req)),
           \A j \in Conns : link'[j].req = IF j = k THEN Tail(link[j].req) ELSE link[j].req
    PROVE  Service!Next
  <1>1. PICK c \in Calls :
            /\ c = Head(link[k].req).call
            /\ k \in Copies(c) /\ Copies(c)' = Copies(c) \ {k}
            /\ \A j \in Calls : j # c => Copies(j)' = Copies(j)
            /\ IsData(op[c])
    BY RequestTaken
  <1>2. [j \in Calls |-> Status(j)]' = [j \in Calls |-> Status(j)]
    OBVIOUS
  <1>3. /\ hits' = [hits EXCEPT ![c] = @ + 1]
        /\ \/ /\ op[c].kind = "write"
              /\ store' = [store EXCEPT ![op[c].addr] = op[c].val]
              /\ UNCHANGED seen
           \/ /\ op[c].kind = "read"
              /\ seen' = [seen EXCEPT ![c] = @ \cup {store[op[c].addr]}]
              /\ UNCHANGED store
    BY <1>1 DEF Execute, IsData
  <1>4. Service!Execute(c)
    BY <1>1, <1>2, <1>3, InFlight DEF Service!Execute
  <1> QED
    BY <1>4 DEF Service!Next

\* A request written on a live connection is one more in flight.
LEMMA SendStep ==
    ASSUME Accounted, Accounted', NEW i \in Calls, Transmit(i)
    PROVE  [Service!Next]_(Service!vars)
  <1> DEFINE q == [call |-> i, tid |-> NextTransID]
  <1>t. TypeOK /\ TypeOK'
    BY DEF Accounted, Inductive
  <1>0. /\ UNCHANGED <<store, op, val, seen, hits>>
        /\ link' = Written(conn, q)
        /\ conn \in Conns
        /\ mu = i /\ IsData(op[i])
        /\ pc[i] = "attempt" /\ pc' = [pc EXCEPT ![i] = "await"]
    BY DEF Transmit, SentTransID, history, Accounted, Inductive, TypeOK, LockHeld
  <1>1. q \in Request
    BY <1>t, NextTransIDType DEF Request, TypeOK
  <1>2. \A j \in Conns :
            link'[j].req = IF j = conn /\ link[j].st = "up"
                           THEN Append(link[j].req, q) ELSE link[j].req
    BY <1>t, <1>0, <1>1, WrittenFields DEF TypeOK
  <1>3. \A j \in Calls : Status(j)' = Status(j)
    BY <1>0, <1>t DEF Status, Waiting, TypeOK
  <1>4. CASE link[conn].st # "up"
    <2>1. SameCopies
      BY <1>2, <1>4, SameRequestsSameCopies
    <2> QED
      BY <1>0, <1>3, <2>1, Stutter
  <1>5. CASE link[conn].st = "up"
    <2>1. link[conn].req = <<>>
      <3>1. DOMAIN link[conn].req = {}
        <4>1. mu = i /\ conn # NoConn
          BY <1>0, NoConnAssumption
        <4> QED
          BY <1>0, <4>1 DEF Accounted, Inductive, StreamInSync, Awaited
      <3> QED
        BY <1>t, <1>0, <3>1, OnTheWire, QueueFacts
    <2>2. /\ DOMAIN Append(<<>>, q) = 1 .. 1 /\ 1 \in 1 .. 1
          /\ \A n \in DOMAIN Append(<<>>, q) : Append(<<>>, q)[n] = q
          /\ q.call = i
      OBVIOUS
    <2>3. \A j \in Conns : link'[j].req = IF j = conn THEN Append(<<>>, q) ELSE link[j].req
      BY <1>2, <1>5, <2>1
    <2>4. conn \notin Copies(i)
      BY <2>1 DEF Copies
    <2>5. Copies(i)' = Copies(i) \cup {conn}
      <3>1. ASSUME NEW k \in Conns
            PROVE  k \in Copies(i)' <=> k \in Copies(i) \cup {conn}
        BY <1>0, <2>2, <2>3 DEF Copies
      <3> QED
        BY <1>0, <3>1 DEF Copies
    <2>6. ASSUME NEW j \in Calls, j # i PROVE Copies(j)' = Copies(j)
      <3>1. ASSUME NEW k \in Conns
            PROVE  k \in Copies(j)' <=> k \in Copies(j)
        <4>1. CASE k = conn
          BY <2>1, <2>2, <2>3, <2>6, <4>1 DEF Copies
        <4>2. CASE k # conn
          BY <2>3, <4>2 DEF Copies
        <4> QED
          BY <4>1, <4>2
      <3> QED
        BY <3>1 DEF Copies
    <2>7. [j \in Calls |-> Cardinality(Copies(j))]' =
             [[j \in Calls |-> Cardinality(Copies(j))] EXCEPT ![i] = @ + 1]
      <3>1. PICK k : k = conn
        OBVIOUS
      <3> QED
        BY <2>4, <2>5, <2>6, <3>1, InFlight
    <2>8. [j \in Calls |-> Status(j)]' = [j \in Calls |-> Status(j)]
      BY <1>3
    <2>9. Status(i) = "pending"
      BY <1>0, <1>t, StatusFacts DEF Waiting
    <2>10. Service!Send(i)
      BY <1>0, <2>7, <2>8, <2>9 DEF Service!Send, IsData
    <2> QED
      BY <2>10 DEF Service!Next
  <1> QED
    BY <1>4, <1>5

-----------------------------------------------------------------------------
\* Only reads carry a value: in their reply, and when they have returned.
Blank ==
    /\ \A i \in Calls : pc[i] = "new" \/ op[i].kind # "read" => val[i] = NoVal
    /\ \A k \in Conns : \A n \in DOMAIN link[k].rep :
          op[link[k].rep[n].call].kind # "read" => link[k].rep[n].val = NoVal

LEMMA BlankKept ==
    ASSUME TypeOK, Traced, Blank, UNCHANGED val,
           \A k \in Conns : \A n \in DOMAIN link'[k].rep :
               \E m \in DOMAIN link[k].rep : link'[k].rep[n] = link[k].rep[m],
           \A j \in Calls : pc[j] # "new" => pc'[j] # "new" /\ op'[j] = op[j]
    PROVE  Blank'
  <1>1. ASSUME NEW k \in Conns, NEW n \in DOMAIN link'[k].rep,
               op'[link'[k].rep[n].call].kind # "read"
        PROVE  link'[k].rep[n].val = NoVal
    <2>1. PICK m \in DOMAIN link[k].rep : link'[k].rep[n] = link[k].rep[m]
      OBVIOUS
    <2>2. link[k].rep[m].call \in Calls /\ pc[link[k].rep[m].call] # "new"
      BY OnTheWire DEF Traced
    <2> QED
      BY <1>1, <2>1, <2>2 DEF Blank
  <1>2. \A i \in Calls : pc'[i] = "new" \/ op'[i].kind # "read" => val'[i] = NoVal
    BY DEF Blank
  <1> QED
    BY <1>1, <1>2 DEF Blank

LEMMA BlankTaken ==
    ASSUME Accounted, Blank, NEW i \in Calls, TakeReply(i)
    PROVE  /\ Blank'
           /\ op[i].kind # "read" => val' = val
  <1> DEFINE r == Head(link[conn].rep)
  <1>t. TypeOK /\ Traced /\ conn \in Conns
    BY DEF Accounted, Inductive, LockHeld, TypeOK, TakeReply
  <1>1. /\ link[conn].rep \in Seq(Reply) /\ r = link[conn].rep[1]
        /\ 1 \in DOMAIN link[conn].rep /\ link[conn].rep # <<>>
    BY <1>t, OnTheWire, HeadFacts DEF TakeReply
  <1>2. /\ UNCHANGED op
        /\ pc[i] = "await" /\ \A j \in Calls : pc[j] # "new" => pc'[j] # "new"
        /\ \A j \in Calls : j # i => val'[j] = val[j]
        /\ val' = val \/ (val' = [val EXCEPT ![i] = r.val] /\ op[r.call].kind = op[i].kind)
    BY <1>t, TakeReplyReturns DEF TakeReply, Return, Fits, TypeOK
  <1>3. op[i].kind # "read" => val' = val
    <2> SUFFICES ASSUME op[i].kind # "read", val' # val PROVE FALSE
      OBVIOUS
    <2>1. r.val = NoVal
      BY <1>t, <1>1, <1>2 DEF Blank
    <2>2. val[i] = NoVal /\ val \in [Calls -> Vals \cup {InitVal, NoVal}]
      BY <1>t DEF Blank, TypeOK
    <2> QED
      BY <1>2, <2>1, <2>2
  <1>4. ASSUME NEW k \in Conns, NEW n \in DOMAIN link'[k].rep
        PROVE  \E m \in DOMAIN link[k].rep : link'[k].rep[n] = link[k].rep[m]
    <2>1. link'[k].rep = IF k = conn THEN Tail(link[k].rep) ELSE link[k].rep
      BY <1>t, ConsumedFields DEF TakeReply, TypeOK
    <2> QED
      BY <1>1, <1>4, <2>1, TailElements
  <1>5. ASSUME NEW k \in Conns, NEW n \in DOMAIN link'[k].rep,
               op'[link'[k].rep[n].call].kind # "read"
        PROVE  link'[k].rep[n].val = NoVal
    BY <1>2, <1>4, <1>5 DEF Blank
  <1>6. \A j \in Calls : pc'[j] = "new" \/ op'[j].kind # "read" => val'[j] = NoVal
    BY <1>2, <1>3, <1>t DEF Blank
  <1> QED
    BY <1>3, <1>5, <1>6 DEF Blank

LEMMA BlankServed ==
    ASSUME Accounted, Blank, NEW k \in Conns, NEW kind \in ReplyKinds, Serve(k, kind), TypeOK'
    PROVE  Blank'
  <1> DEFINE q == Head(link[k].req)
             a == ReplyTo(q, kind)
  <1>t. TypeOK /\ Traced
    BY DEF Accounted, Inductive
  <1>1. UNCHANGED <<pc, op, val>> /\ link' = Answered(k, a)
    BY DEF Serve, calls
  <1>2. a.call = q.call /\ (op[a.call].kind # "read" => a.val = NoVal)
    BY DEF ReplyTo
  <1>3. ASSUME NEW j \in Conns, NEW n \in DOMAIN link'[j].rep
        PROVE  \/ link'[j].rep[n] = a
               \/ \E m \in DOMAIN link[j].rep : link'[j].rep[n] = link[j].rep[m]
    <2>1. a \in Reply
      <3>1. q \in Request /\ q.call \in Calls /\ IsData(op[q.call])
        BY <1>t, OnTheWire, HeadFacts DEF Serve, Traced
      <3>2. op[q.call].addr \in Addrs
        BY <1>t, <3>1, DataOps DEF TypeOK
      <3> QED
        BY <1>t, <3>1, <3>2 DEF ReplyTo, Reply, Request, TypeOK
    <2>2. link'[j].rep = IF j = k /\ link[j].st = "up"
                         THEN Append(link[j].rep, a) ELSE link[j].rep
      BY <1>t, <1>1, <2>1, AnsweredFields DEF TypeOK
    <2>3. link[j].rep \in Seq(Reply)
      BY <1>t, OnTheWire
    <2>4. CASE link'[j].rep = link[j].rep
      BY <1>3, <2>4
    <2>5. CASE link'[j].rep = Append(link[j].rep, a)
      BY <1>3, <2>1, <2>3, <2>5, QueueFacts
    <2> QED
      BY <2>2, <2>4, <2>5
  <1>4. ASSUME NEW j \in Conns, NEW n \in DOMAIN link'[j].rep,
               op'[link'[j].rep[n].call].kind # "read"
        PROVE  link'[j].rep[n].val = NoVal
    <2>1. CASE link'[j].rep[n] = a
      BY <1>1, <1>2, <1>4, <2>1
    <2>2. CASE \E m \in DOMAIN link[j].rep : link'[j].rep[n] = link[j].rep[m]
      BY <1>1, <1>4, <2>2 DEF Blank
    <2> QED
      BY <1>3, <1>4, <2>1, <2>2
  <1> QED
    BY <1>1, <1>4 DEF Blank

-----------------------------------------------------------------------------
\* A call that returns from outside a transfer: its connection, if it closes
\* one, keeps what the device holds.
LEMMA ReturnStep ==
    ASSUME TypeOK, UNCHANGED <<store, op, val, seen, hits>>,
           \A k \in Conns : link'[k].req = link[k].req,
           NEW i \in Calls, pc[i] = "blocked", ~ IsData(op[i]),
           NEW outcome \in Returned, pc' = [pc EXCEPT ![i] = outcome]
    PROVE  Service!Next
  <1>1. SameCopies
    BY SameRequestsSameCopies
  <1>2. Others(i) /\ Status(i) = "pending"
    BY StatusFacts DEF Others, Status, TypeOK, Waiting
  <1>3. CASE outcome = "ok"
    <2>1. Status(i)' = "ok"
      BY <1>3 DEF Status, TypeOK, Waiting
    <2> QED
      BY <1>1, <1>2, <2>1, SucceedStep DEF IsData
  <1>4. CASE outcome # "ok"
    <2>1. Status(i)' = "failed"
      BY <1>4 DEF Status, TypeOK, Waiting, Returned
    <2> QED
      BY <1>1, <1>2, <2>1, FailStep
  <1> QED
    BY <1>3, <1>4

\* A failed attempt shows only when it was the last.
LEMMA FailureStep ==
    ASSUME Accounted, NEW i \in Calls, mu = i, AttemptFailed(i),
           UNCHANGED <<store, op, val, seen, hits>>
    PROVE  [Service!Next]_(Service!vars)
  <1>t. TypeOK
    BY DEF Accounted, Inductive
  <1>1. SameCopies
    <2>1. \A k \in Conns : link'[k].req = link[k].req
      BY HangUpFacts DEF Accounted, AttemptFailed, CloseLocked, MoreAttempts
    <2> QED
      BY <2>1, SameRequestsSameCopies
  <1>2. pc[i] \in {"attempt", "await"}
    BY DEF Accounted, Inductive, LockHeld
  <1>3. /\ Others(i) /\ Status(i) = "pending"
        /\ Status(i)' = "pending" \/ Status(i)' = "failed"
    BY <1>t, <1>2
    DEF AttemptFailed, CloseLocked, MoreAttempts, Return, TypeOK, Others, Status, Waiting
  <1>4. CASE Status(i)' = "pending"
    <2>1. \A j \in Calls : Status(j)' = Status(j)
      BY <1>3, <1>4 DEF Others
    <2> QED
      BY <1>1, <2>1, Stutter
  <1>5. CASE Status(i)' = "failed"
    BY <1>1, <1>3, <1>5, FailStep
  <1> QED
    BY <1>3, <1>4, <1>5

\* A reply that is taken ends the call, with what the device reported if it fits.
LEMMA TakeStep ==
    ASSUME Accounted, Accounted', Blank, NEW i \in Calls, TakeReply(i)
    PROVE  Service!Next
  <1>t. TypeOK /\ TypeOK' /\ conn \in Conns
    BY DEF Accounted, Inductive, LockHeld, TypeOK, TakeReply
  <1>1. SameCopies
    <2>1. \A k \in Conns : link'[k].req = link[k].req
      BY <1>t, ConsumedFields DEF TakeReply, TypeOK
    <2> QED
      BY <2>1, SameRequestsSameCopies
  <1>2. /\ UNCHANGED <<store, op, seen, hits>>
        /\ IsData(op[i])
    BY DEF TakeReply, history, Accounted, Inductive, LockHeld
  <1>3. /\ Others(i) /\ Status(i) = "pending"
        /\ \/ Status(i)' = "ok" /\ pc'[i] = "ok"
              /\ val' = [val EXCEPT ![i] = Head(link[conn].rep).val]
           \/ Status(i)' = "failed" /\ val' = val
    BY <1>t DEF TakeReply, Return, TypeOK, Others, Status, Waiting
  <1>4. CASE Status(i)' = "failed" /\ val' = val
    BY <1>1, <1>2, <1>3, <1>4, FailStep
  <1>5. CASE /\ Status(i)' = "ok" /\ pc'[i] = "ok"
             /\ val' = [val EXCEPT ![i] = Head(link[conn].rep).val]
    <2>1. op[i].kind = "write" => hits[i] > 0
      BY <1>2, <1>5, <1>t DEF Accounted, Inductive, WriteTookEffect, TypeOK
    <2>2. op[i].kind = "read" => \E v \in seen[i] : val' = [val EXCEPT ![i] = v]
      BY <1>2, <1>5, <1>t DEF Accounted, Inductive, ReadFresh, TypeOK
    <2>3. op[i].kind # "read" => val' = val
      BY BlankTaken
    <2> QED
      BY <1>1, <1>2, <1>3, <1>5, <2>1, <2>2, <2>3, SucceedStep
  <1> QED
    BY <1>3, <1>4, <1>5

\* What the device does with the request at the head of a connection.
LEMMA DeviceStep ==
    ASSUME Accounted, Accounted', NEW k \in Conns, Device(k)
    PROVE  [Service!Next]_(Service!vars)
  <1>t. TypeOK /\ TypeOK'
    BY DEF Accounted, Inductive
  <1>1. /\ UNCHANGED <<op, val, pc>>
        /\ \A j \in Calls : Status(j)' = Status(j)
    BY DEF Device, Serve, Ignore, Sever, client, calls, Status
  <1>2. ASSUME NEW kind \in ReplyKinds, Serve(k, kind) PROVE Service!Next
    <2> DEFINE q == Head(link[k].req)
    <2>1. link[k].req # <<>>
      BY <1>2 DEF Serve
    <2>2. \A j \in Conns : link'[j].req = IF j = k THEN Tail(link[j].req) ELSE link[j].req
      BY <1>2, <1>t DEF Serve, Answered, TypeOK, Links
    <2>3. CASE kind = "exception"
      <3>1. UNCHANGED <<store, seen, hits>>
        BY <1>2, <2>3 DEF Serve
      <3> QED
        BY <1>1, <2>1, <2>2, <3>1, LoseStep
    <2>4. CASE kind # "exception"
      <3>1. Execute(q)
        BY <1>2, <2>4 DEF Serve
      <3> QED
        BY <1>1, <2>1, <2>2, <3>1, ExecuteStep
    <2> QED
      BY <2>3, <2>4
  <1>3. ASSUME Ignore(k) PROVE Service!Next
    <2>1. link[k].req # <<>> /\ UNCHANGED <<store, seen, hits>>
      BY <1>3 DEF Ignore, history
    <2>2. \A j \in Conns : link'[j].req = IF j = k THEN Tail(link[j].req) ELSE link[j].req
      BY <1>3, <1>t, IgnoredFields DEF Ignore, TypeOK
    <2> QED
      BY <1>1, <2>1, <2>2, LoseStep
  <1>4. ASSUME Sever(k) PROVE [Service!Next]_(Service!vars)
    <2>1. UNCHANGED <<store, seen, hits>>
      BY <1>4 DEF Sever
    <2>2. \A j \in Conns : link'[j].req = IF j = k THEN <<>> ELSE link[j].req
      BY <1>4, <1>t, SeveredFields DEF Sever, TypeOK
    <2>3. CASE link[k].req = <<>>
      <3>1. SameCopies
        BY <2>2, <2>3, SameRequestsSameCopies
      <3> QED
        BY <1>1, <2>1, <3>1, Stutter
    <2>4. CASE link[k].req # <<>>
      <3>1. Tail(link[k].req) = <<>>
        <4>1. link[k].req \in Seq(Request) /\ Len(link[k].req) <= 1
          BY <1>t, OnTheWire DEF Accounted, OneRequest
        <4> QED
          BY <2>4, <4>1, QueueFacts
      <3>2. \A j \in Conns : link'[j].req = IF j = k THEN Tail(link[j].req) ELSE link[j].req
        BY <2>2, <3>1
      <3> QED
        BY <1>1, <2>1, <2>4, <3>2, LoseStep
    <2> QED
      BY <2>3, <2>4
  <1> QED
    BY <1>2, <1>3, <1>4 DEF Device

LEMMA ServiceInit == Init => Service!Init
  <1> SUFFICES ASSUME Init PROVE Service!Init
    OBVIOUS
  <1>1. \A i \in Calls : Copies(i) = {}
    <2>1. \A k \in Conns : DOMAIN link[k].req = {}
      BY DEF Init, Down
    <2> QED
      BY <2>1 DEF Copies
  <1>2. \A i \in Calls : Cardinality(Copies(i)) = 0
    <2>1. Cardinality({}) = 0
      BY FS_EmptySet
    <2> QED
      BY <1>1, <2>1
  <1>3. \A i \in Calls : Status(i) = "new"
    BY DEF Init, Status, Waiting
  <1> QED
    BY <1>2, <1>3 DEF Init, Service!Init

LEMMA BlankInit == Init => Blank
  <1> SUFFICES ASSUME Init PROVE Blank
    OBVIOUS
  <1>1. \A k \in Conns : DOMAIN link[k].rep = {}
    BY DEF Init, Down
  <1> QED
    BY <1>1 DEF Init, Blank

LEMMA BlankNext == Accounted /\ Accounted' /\ Blank /\ [Next]_vars => Blank'
  <1> SUFFICES ASSUME Accounted, Accounted', Blank, [Next]_vars PROVE Blank'
    OBVIOUS
  <1>t. TypeOK /\ TypeOK' /\ Traced
    BY DEF Accounted, Inductive
  <1>1. ASSUME NEW i \in Calls, TakeReply(i) PROVE Blank'
    BY <1>1, BlankTaken
  <1>2. ASSUME NEW k \in Conns, NEW kind \in ReplyKinds, Serve(k, kind) PROVE Blank'
    BY <1>2, <1>t, BlankServed
  <1>3. ASSUME UNCHANGED val,
               \A k \in Conns : link'[k].rep = link[k].rep \/ link'[k].rep = <<>>,
               \A j \in Calls : pc[j] # "new" => pc'[j] # "new" /\ op'[j] = op[j]
        PROVE  Blank'
    <2>1. DOMAIN <<>> = {}
      OBVIOUS
    <2> QED
      BY <1>t, <1>3, <2>1, BlankKept
  <1>4. ASSUME NEW i \in Calls,
               \/ \E o \in Ops : Invoke(i, o)
               \/ ReturnLocally(i) \/ Acquire(i)
        PROVE  Blank'
    BY <1>3, <1>4, <1>t DEF Invoke, ReturnLocally, Acquire, TypeOK
  <1>5. ASSUME NEW i \in Calls, NEW k \in Conns, Open(i, k) PROVE Blank'
    <2>1. \A j \in Conns : HungUp(conn)[j].rep = link[j].rep \/ HungUp(conn)[j].rep = <<>>
      BY <1>t, HungUpFields DEF TypeOK
    <2>2. HungUp(conn) \in [Conns -> Links(Request, Reply)]
      BY <1>t, WireTypes DEF TypeOK, HungUp
    <2>3. \A j \in Conns : link'[j].rep = HungUp(conn)[j].rep
      BY <1>5, <2>2 DEF Open, OldClosed, Links
    <2>4. UNCHANGED val /\ \A j \in Calls : pc[j] # "new" => pc'[j] # "new" /\ op'[j] = op[j]
      BY <1>5, <1>t DEF Open, TypeOK
    <2> QED
      BY <1>3, <2>1, <2>3, <2>4
  <1>6. ASSUME NEW i \in Calls, OpenFail(i) \/ Close(i) PROVE Blank'
    <2>1. \A j \in Conns : link'[j].rep = link[j].rep \/ link'[j].rep = <<>>
      <3>1. link' = HungUp(conn)
        BY <1>6 DEF OpenFail, OldClosed, Close
      <3> QED
        BY <1>t, <3>1, HungUpFields DEF TypeOK
    <2>2. UNCHANGED val /\ \A j \in Calls : pc[j] # "new" => pc'[j] # "new" /\ op'[j] = op[j]
      BY <1>6, <1>t DEF OpenFail, Close, TypeOK
    <2> QED
      BY <1>3, <2>1, <2>2
  <1>7. ASSUME NEW i \in Calls, NEW k \in Conns, Connect(i, k) PROVE Blank'
    <2>1. \A j \in Conns : link'[j].rep = link[j].rep
      BY <1>7, <1>t, DialledFields DEF Connect, TypeOK
    <2> QED
      BY <1>3, <1>7, <2>1 DEF Connect, calls
  <1>8. ASSUME NEW i \in Calls,
               ConnectFail(i) \/ TransmitFail(i) \/ RefuseReply(i) \/ ReceiveFail(i)
        PROVE  Blank'
    <2>1. AttemptFailed(i) /\ UNCHANGED <<op, val>>
      BY <1>8 DEF ConnectFail, TransmitFail, RefuseReply, ReceiveFail
    <2>2. \A j \in Conns : link'[j].rep = link[j].rep \/ link'[j].rep = <<>>
      BY <2>1, <1>t, HungUpFields DEF AttemptFailed, CloseLocked, MoreAttempts, TypeOK
    <2>3. \A j \in Calls : pc[j] # "new" => pc'[j] # "new"
      BY <2>1, <1>t DEF AttemptFailed, CloseLocked, MoreAttempts, Return, TypeOK
    <2> QED
      BY <1>3, <2>1, <2>2, <2>3
  <1>9. ASSUME NEW i \in Calls, Transmit(i) PROVE Blank'
    <2>1. UNCHANGED <<op, val>> /\ \A j \in Calls : pc[j] # "new" => pc'[j] # "new"
      BY <1>9, <1>t DEF Transmit, TypeOK
    <2>2. \A j \in Conns : link'[j].rep = link[j].rep
      <3>1. [call |-> i, tid |-> NextTransID] \in Request
        BY <1>t, NextTransIDType DEF Request, TypeOK
      <3> QED
        BY <1>9, <1>t, <3>1, WrittenFields DEF Transmit, SentTransID, TypeOK
    <2> QED
      BY <1>3, <2>1, <2>2
  <1>10. ASSUME NEW k \in Conns, Ignore(k) \/ Sever(k) PROVE Blank'
    <2>1. UNCHANGED <<op, pc, val>>
      BY <1>10 DEF Ignore, Sever, calls
    <2>2. \A j \in Conns : link'[j].rep = link[j].rep
      <3>1. CASE link' = Ignored(k)
        BY <1>t, <3>1, IgnoredFields DEF TypeOK
      <3>2. CASE link' = Severed(k)
        BY <1>t, <3>2, SeveredFields DEF TypeOK
      <3> QED
        BY <1>10, <3>1, <3>2 DEF Ignore, Sever
    <2> QED
      BY <1>3, <2>1, <2>2
  <1>11. CASE (\E n \in Policies : SetRetryPolicy(n)) \/ UNCHANGED vars
    BY <1>3, <1>11 DEF SetRetryPolicy, calls, vars
  <1> QED
    BY <1>1, <1>2, <1>4, <1>5, <1>6, <1>7, <1>8, <1>9, <1>10, <1>11
    DEF Next, Enter, Progress, Device

LEMMA ServiceNext ==
    Accounted /\ Accounted' /\ Blank /\ [Next]_vars => [Service!Next]_(Service!vars)
  <1> SUFFICES ASSUME Accounted, Accounted', Blank, [Next]_vars
               PROVE  [Service!Next]_(Service!vars)
    OBVIOUS
  <1>t. TypeOK /\ TypeOK'
    BY DEF Accounted, Inductive
  <1>1. ASSUME NEW i \in Calls, NEW o \in Ops, Invoke(i, o)
        PROVE  [Service!Next]_(Service!vars)
    <2>1. SameCopies
      BY <1>1, SameRequestsSameCopies DEF Invoke
    <2>2. /\ Status(i) = "new" /\ Status(i)' = "pending"
          /\ \A j \in Calls : j # i => Status(j)' = Status(j)
      BY <1>1, <1>t DEF Invoke, Status, Waiting, TypeOK
    <2>3. /\ [j \in Calls |-> Status(j)]' =
                [[j \in Calls |-> Status(j)] EXCEPT ![i] = "pending"]
          /\ [j \in Calls |-> Cardinality(Copies(j))]' =
                [j \in Calls |-> Cardinality(Copies(j))]
      BY <2>1, <2>2 DEF SameCopies
    <2>4. Service!Invoke(i, o)
      BY <1>1, <2>2, <2>3 DEF Service!Invoke, Invoke, history
    <2> QED
      BY <2>4 DEF Service!Next
  <1>2. ASSUME NEW i \in Calls, ReturnLocally(i) PROVE [Service!Next]_(Service!vars)
    <2>1. /\ UNCHANGED <<store, op, val, seen, hits>>
          /\ \A k \in Conns : link'[k].req = link[k].req
          /\ pc[i] = "blocked" /\ ~ IsData(op[i])
          /\ \E outcome \in Returned : pc' = [pc EXCEPT ![i] = outcome]
      BY <1>2 DEF ReturnLocally, history, IsData, Returned
    <2> QED
      BY <1>t, <2>1, ReturnStep
  <1>3. ASSUME NEW i \in Calls,
               OpenFail(i) \/ Close(i) \/ \E k \in Conns : Open(i, k)
        PROVE  [Service!Next]_(Service!vars)
    <2>1. /\ UNCHANGED <<store, op, val, seen, hits>>
          /\ pc[i] = "blocked" /\ ~ IsData(op[i])
          /\ \E outcome \in Returned : pc' = [pc EXCEPT ![i] = outcome]
      BY <1>3 DEF OpenFail, Close, Open, history, IsData, Returned
    <2>2. \A k \in Conns : link'[k].req = link[k].req
      <3>1. \A k \in Conns : HungUp(conn)[k].req = link[k].req
        BY <1>t, HungUpFields DEF TypeOK
      <3>2. HungUp(conn) \in [Conns -> Links(Request, Reply)]
        BY <1>t, WireTypes DEF TypeOK, HungUp
      <3>3. \A j, k \in Conns :
               [HungUp(conn) EXCEPT ![k].st = "up"][j].req = HungUp(conn)[j].req
        BY <3>2 DEF Links
      <3> QED
        BY <1>3, <3>1, <3>3 DEF OpenFail, Close, Open, OldClosed
    <2> QED
      BY <1>t, <2>1, <2>2, ReturnStep
  <1>4. ASSUME NEW i \in Calls, Acquire(i) \/ \E k \in Conns : Connect(i, k)
        PROVE  [Service!Next]_(Service!vars)
    <2>1. UNCHANGED <<store, op, val, seen, hits>>
      BY <1>4 DEF Acquire, Connect, calls, history
    <2>2. \A k \in Conns : link'[k].req = link[k].req
      BY <1>4, <1>t, DialledFields DEF Acquire, Connect, TypeOK
    <2>3. \A j \in Calls : Status(j)' = Status(j)
      BY <1>4, <1>t DEF Acquire, Connect, calls, Status, Waiting, TypeOK
    <2> QED
      BY <2>1, <2>2, <2>3, SameRequestsSameCopies, Stutter
  <1>5. ASSUME NEW i \in Calls,
               ConnectFail(i) \/ TransmitFail(i) \/ RefuseReply(i) \/ ReceiveFail(i)
        PROVE  [Service!Next]_(Service!vars)
    <2>1. mu = i /\ AttemptFailed(i) /\ UNCHANGED <<store, op, val, seen, hits>>
      BY <1>5 DEF ConnectFail, TransmitFail, RefuseReply, ReceiveFail, history,
                  Accounted, Inductive, LockHeld
    <2> QED
      BY <2>1, FailureStep
  <1>6. ASSUME NEW i \in Calls, Transmit(i) PROVE [Service!Next]_(Service!vars)
    BY <1>6, SendStep
  <1>7. ASSUME NEW i \in Calls, TakeReply(i) PROVE [Service!Next]_(Service!vars)
    BY <1>7, TakeStep
  <1>8. ASSUME NEW k \in Conns, Device(k) PROVE [Service!Next]_(Service!vars)
    BY <1>8, DeviceStep
  <1>9. CASE (\E n \in Policies : SetRetryPolicy(n)) \/ UNCHANGED vars
    <2>1. UNCHANGED <<link, pc, store, op, val, seen, hits>>
      BY <1>9 DEF SetRetryPolicy, calls, history, vars
    <2>2. \A j \in Calls : Status(j)' = Status(j)
      BY <2>1 DEF Status
    <2> QED
      BY <2>1, <2>2, SameRequestsSameCopies, Stutter
  <1> QED
    BY <1>1, <1>2, <1>3, <1>4, <1>5, <1>6, <1>7, <1>8, <1>9
    DEF Next, Enter, Progress

-----------------------------------------------------------------------------
\* The client, its connections and its device implement the service: whatever
\* the interleaving of calls, faults and executions, a caller sees no more than
\* at least once execution and the freshness DataService promises.
THEOREM Implementation == Spec => ImplementsService
  <1>1. Spec => [](Accounted /\ Blank)
    <2>1. Init => Blank
      BY BlankInit
    <2>2. Accounted /\ Accounted' /\ Blank /\ [Next]_vars => Blank'
      BY BlankNext
    <2>3. Spec => []Accounted
      BY AccountedInvariant
    <2> QED
      BY <2>1, <2>2, <2>3, PTL DEF Spec
  <1>2. Init => Service!Init
    BY ServiceInit
  <1>3. Accounted /\ Accounted' /\ Blank /\ [Next]_vars => [Service!Next]_(Service!vars)
    BY ServiceNext
  <1> QED
    BY <1>1, <1>2, <1>3, PTL DEF Spec, ImplementsService, Service!Spec

-----------------------------------------------------------------------------
\* The serial line.

\* A port that the client does not hold, or that is gone, has nothing to answer.
Quiet == \A k \in Conns : link[k].st # "up" => link[k].req = <<>>

SerialInductive == ~ disturbed => Inductive /\ Quiet

LEMMA QuietHangUp ==
    ASSUME Inductive, Quiet, link' = HungUp(conn), conn # NoConn => link[conn].req = <<>>
    PROVE  Quiet'
  <1>1. \A j \in Conns : /\ link'[j].st = IF j = conn THEN "down" ELSE link[j].st
                         /\ link'[j].req = link[j].req
    BY HungUpFields DEF Inductive, TypeOK
  <1> QED
    BY <1>1, NoConnAssumption DEF Quiet

\* An attempt is given up with nothing left to be answered.
LEMMA QuietFailure ==
    ASSUME Inductive, Quiet, NEW i \in Calls,
           ConnectFail(i) \/ TransmitFail(i) \/ RefuseReply(i) \/ ReadFail(i)
    PROVE  Quiet'
  <1>t. TypeOK /\ LockHeld /\ StreamInSync
    BY DEF Inductive
  <1>1. link' = HungUp(conn)
    BY DEF ConnectFail, TransmitFail, RefuseReply, ReadFail, ReceiveFail,
           AttemptFailed, CloseLocked
  <1>2. ASSUME conn # NoConn
        PROVE  link[conn].req = <<>>
    <2>1. conn \in Conns
      BY <1>t, <1>2 DEF TypeOK
    <2>2. link[conn].req \in Seq(Request) /\ link[conn].rep \in Seq(Reply)
      BY <1>t, <2>1, OnTheWire
    <2>3. CASE TransmitFail(i)
      <3>1. pc[i] = "attempt" /\ mu = i
        BY <1>t, <2>3 DEF TransmitFail, LockHeld
      <3>2. DOMAIN link[conn].req = {}
        BY <1>t, <1>2, <3>1 DEF StreamInSync, Awaited
      <3> QED
        BY <2>2, <3>2, QueueFacts
    <2>4. CASE RefuseReply(i)
      <3>1. link[conn].rep # <<>> /\ Len(link[conn].req) + Len(link[conn].rep) <= 1
        BY <1>t, <1>2, <2>4 DEF RefuseReply, StreamInSync
      <3> QED
        BY <2>2, <3>1, LastMessage
    <2>5. CASE ReadFail(i)
      BY <2>1, <2>5 DEF ReadFail, ReadEnds, Quiet
    <2> QED
      BY <1>2, <2>3, <2>4, <2>5 DEF ConnectFail
  <1> QED
    BY <1>1, <1>2, QuietHangUp

\* Whatever else happens, only a connection that is up gets requests, and one
\* that ends loses them.
LEMMA QuietKept ==
    ASSUME Inductive, Quiet,
           \/ link' = link
           \/ \E k \in Conns : link' = Dialled(k)
           \/ \E q \in Request : conn \in Conns /\ link' = Written(conn, q)
           \/ conn \in Conns /\ link' = Consumed(conn)
           \/ \E k \in Conns : link[k].req # <<>> /\ link' = Ignored(k)
           \/ \E k \in Conns, r \in Reply : link[k].req # <<>> /\ link' = Answered(k, r)
           \/ \E k \in Conns : link' = Severed(k)
    PROVE  Quiet'
  <1>t. link \in [Conns -> Links(Request, Reply)]
    BY DEF Inductive, TypeOK
  <1>1. CASE link' = link
    BY <1>1 DEF Quiet
  <1>2. ASSUME NEW k \in Conns, link' = Dialled(k)
        PROVE  Quiet'
    BY <1>t, <1>2, DialledFields DEF Quiet
  <1>3. ASSUME NEW q \in Request, conn \in Conns, link' = Written(conn, q)
        PROVE  Quiet'
    <2>1. \A j \in Conns : /\ link'[j].st = link[j].st
                           /\ link[j].st # "up" => link'[j].req = link[j].req
      BY <1>t, <1>3, WrittenFields
    <2> QED
      BY <2>1 DEF Quiet
  <1>4. ASSUME conn \in Conns, link' = Consumed(conn)
        PROVE  Quiet'
    BY <1>t, <1>4, ConsumedFields DEF Quiet
  <1>5. ASSUME NEW k \in Conns, link[k].req # <<>>, link' = Ignored(k)
        PROVE  Quiet'
    BY <1>t, <1>5, IgnoredFields DEF Quiet
  <1>6. ASSUME NEW k \in Conns, NEW r \in Reply, link[k].req # <<>>, link' = Answered(k, r)
        PROVE  Quiet'
    <2>1. \A j \in Conns : /\ link'[j].st = link[j].st
                           /\ j # k => link'[j].req = link[j].req
      BY <1>t, <1>6, AnsweredFields
    <2> QED
      BY <1>6, <2>1 DEF Quiet
  <1>7. ASSUME NEW k \in Conns, link' = Severed(k)
        PROVE  Quiet'
    BY <1>t, <1>7, SeveredFields DEF Quiet
  <1> QED
    BY <1>1, <1>2, <1>3, <1>4, <1>5, <1>6, <1>7

\* Opening the port again is a step of its own.
LEMMA OpenPortStep ==
    ASSUME Inductive, Quiet, NEW i \in Calls, NEW k \in Conns, OpenPort(i, k)
    PROVE  Inductive' /\ Quiet'
  <1>t. TypeOK /\ OneSocket /\ SocketHeld
    BY DEF Inductive
  <1>0. /\ UNCHANGED <<mu, attempt, transID, op, val, budget, seen, hits, faults>>
        /\ UNCHANGED <<maxRetries, store>>
        /\ mu = NoCall /\ conn' = k
        /\ link' = [HungUp(conn) EXCEPT ![k].st = "up"]
        /\ pc' = [pc EXCEPT ![i] = "ok"] /\ pc[i] = "blocked"
        /\ ~ IsData(op[i])
    BY DEF OpenPort, OldClosed, history, IsData
  <1>1. \A j \in Calls : pc'[j] = IF j = i THEN "ok" ELSE pc[j]
    BY <1>t, <1>0 DEF TypeOK
  <1>2. conn # NoConn => link[conn].req = <<>>
    BY <1>0, IdleConnection
  <1>3. \A j \in Conns : j # conn => link[j].st = "down" /\ link[j].req = <<>> /\ link[j].rep = <<>>
    BY <1>t DEF OneSocket, SocketHeld, Quiet
  <1>4. link[k].req = <<>> /\ (k # conn => link[k].rep = <<>>)
    BY <1>2, <1>3, NoConnAssumption
  <1>5. /\ HungUp(conn) \in [Conns -> Links(Request, Reply)]
        /\ \A j \in Conns : HungUp(conn)[j].req = link[j].req
    BY <1>t, WireTypes, HungUpFields DEF TypeOK, HungUp
  <1>6. /\ link' \in [Conns -> Links(Request, Reply)]
        /\ \A j \in Conns : link'[j].req = link[j].req
    BY <1>0, <1>5 DEF Links
  <1>7. TypeOK'
    BY <1>t, <1>0, <1>6 DEF TypeOK, Returned
  <1>8. Inductive'
    BY <1>0, <1>1, <1>4, <1>7, OpenSafe
  <1>9. Quiet'
    BY <1>2, <1>3, <1>6, NoConnAssumption DEF Quiet
  <1> QED
    BY <1>8, <1>9

\* A port lost while the device had nothing to answer is a connection that ended.
LEMMA LostBetweenRequests ==
    ASSUME Inductive, NEW k \in Conns, LosePort(k), ~ disturbed'
    PROVE  Sever(k)
  <1>1. link[k].req = <<>> /\ link' = [link EXCEPT ![k].st = "cut"]
    BY DEF LosePort
  <1>2. link \in [Conns -> Links(Request, Reply)]
    BY DEF Inductive, TypeOK
  <1>3. link' = Severed(k)
    BY <1>1, <1>2 DEF Severed, Links
  <1> QED
    BY <1>3 DEF LosePort, Sever

\* While the line is not disturbed a step of the serial client is, that one
\* aside, a step of the client over TCP.
LEMMA SerialAsTCP ==
    ASSUME Inductive, Quiet, [SerialNext]_serialVars, ~ disturbed'
    PROVE  [Next]_vars \/ \E i \in Calls, k \in Conns : OpenPort(i, k)
  <1>1. CASE UNCHANGED serialVars
    BY <1>1 DEF serialVars
  <1>2. ASSUME NEW i \in Calls, SerialProgress(i)
        PROVE  Next
    <2>1. ASSUME NEW k \in Conns, Reopen(i, k)
          PROVE  Connect(i, k)
      <3>1. conn = NoConn
        BY <2>1 DEF Reopen
      <3>2. link[k].st = "down" /\ link[k].req = <<>> /\ link[k].rep = <<>>
        BY <3>1, NoConnAssumption DEF Inductive, OneSocket, SocketHeld, Quiet
      <3>3. link[k] = Down
        BY <3>2 DEF Inductive, TypeOK, Links, Down
      <3> QED
        BY <2>1, <3>3 DEF Reopen, Connect, Free
    <2>2. Progress(i)
      BY <1>2, <2>1 DEF SerialProgress, Progress, ReadFail
    <2> QED
      BY <2>2 DEF Next
  <1>3. ASSUME NEW i \in Calls, SerialEnter(i)
        PROVE  Next \/ \E k \in Conns : OpenPort(i, k)
    BY <1>3 DEF SerialEnter, Enter, Next
  <1>4. ASSUME NEW k \in Conns, SerialDevice(k) \/ LosePort(k)
        PROVE  Next
    <2>1. Device(k)
      BY <1>4, LostBetweenRequests DEF SerialDevice, Device
    <2> QED
      BY <2>1 DEF Next
  <1>5. ASSUME NEW k \in Conns, Noise(k)
        PROVE  FALSE
    BY <1>5 DEF Noise
  <1> QED
    BY <1>1, <1>2, <1>3, <1>4, <1>5 DEF SerialNext, Next

\* What such a step does to the line.
LEMMA SerialWire ==
    ASSUME Inductive, Quiet, [SerialNext]_serialVars, ~ disturbed',
           \A i \in Calls, k \in Conns : ~ OpenPort(i, k)
    PROVE  Quiet'
  <1>t. TypeOK /\ LockHeld
    BY DEF Inductive
  <1>1. CASE UNCHANGED serialVars
    <2>1. link' = link
      BY <1>1 DEF serialVars, vars
    <2> QED
      BY <2>1, QuietKept
  <1>2. ASSUME NEW i \in Calls, SerialProgress(i)
        PROVE  Quiet'
    <2>1. CASE \E k \in Conns : Reopen(i, k)
      <3>1. \E k \in Conns : link' = Dialled(k)
        BY <2>1 DEF Reopen
      <3> QED
        BY <3>1, QuietKept
    <2>2. CASE Transmit(i)
      <3>1. conn \in Conns /\ [call |-> i, tid |-> NextTransID] \in Request
        BY <1>t, <2>2, NextTransIDType DEF Transmit, TypeOK, Request
      <3>2. \E q \in Request : link' = Written(conn, q)
        BY <2>2, <3>1 DEF Transmit, SentTransID
      <3> QED
        BY <3>1, <3>2, QuietKept
    <2>3. CASE TakeReply(i)
      <3>1. conn \in Conns /\ link' = Consumed(conn)
        BY <1>t, <2>3 DEF TakeReply, LockHeld, TypeOK
      <3> QED
        BY <3>1, QuietKept
    <2> QED
      BY <1>2, <2>1, <2>2, <2>3, QuietFailure DEF SerialProgress
  <1>3. ASSUME NEW i \in Calls, (\E o \in Ops : Invoke(i, o)) \/ SerialEnter(i)
        PROVE  Quiet'
    <2>1. CASE link' = link
      BY <2>1, QuietKept
    <2>2. CASE OpenFail(i) \/ Close(i)
      <3>1. link' = HungUp(conn) /\ mu = NoCall
        BY <2>2 DEF OpenFail, Close, OldClosed
      <3> QED
        BY <3>1, IdleConnection, QuietHangUp
    <2> QED
      BY <1>3, <2>1, <2>2 DEF SerialEnter, Invoke, ReturnLocally, Acquire
  <1>4. ASSUME NEW n \in Policies, SetRetryPolicy(n)
        PROVE  Quiet'
    BY <1>4, QuietKept DEF SetRetryPolicy
  <1>5. ASSUME NEW k \in Conns, SerialDevice(k) \/ LosePort(k)
        PROVE  Quiet'
    <2>1. ASSUME NEW kind \in ReplyKinds, Serve(k, kind)
          PROVE  Quiet'
      <3>1. link[k].req # <<>> /\ link' = Answered(k, ReplyTo(Head(link[k].req), kind))
        BY <2>1 DEF Serve
      <3>2. ReplyTo(Head(link[k].req), kind) \in Reply
        <4>1. Head(link[k].req) \in Request
          BY <1>t, <3>1, OnTheWire, HeadFacts
        <4>2. /\ Head(link[k].req).call \in Calls
              /\ Head(link[k].req).tid \in 0 .. TransMod - 1
          BY <4>1 DEF Request
        <4>3. IsData(op[Head(link[k].req).call])
          <5>1. 1 \in DOMAIN link[k].req /\ Head(link[k].req) = link[k].req[1]
            BY <1>t, <3>1, OnTheWire, HeadFacts
          <5> QED
            BY <5>1 DEF Inductive, Traced
        <4>4. op[Head(link[k].req).call].addr \in Addrs
          BY <1>t, <4>2, <4>3, DataOps DEF TypeOK
        <4> QED
          BY <1>t, <4>2, <4>4 DEF ReplyTo, Reply, TypeOK
      <3> QED
        BY <3>1, <3>2, QuietKept
    <2>2. CASE Ignore(k)
      BY <2>2, QuietKept DEF Ignore
    <2>3. CASE LosePort(k)
      BY <2>3, LostBetweenRequests, QuietKept DEF Sever
    <2> QED
      BY <1>5, <2>1, <2>2, <2>3 DEF SerialDevice
  <1>6. ASSUME NEW k \in Conns, Noise(k)
        PROVE  FALSE
    BY <1>6 DEF Noise
  <1> QED
    BY <1>1, <1>2, <1>3, <1>4, <1>5, <1>6 DEF SerialNext

LEMMA SerialInductiveNext ==
    SerialInductive /\ [SerialNext]_serialVars => SerialInductive'
  <1> SUFFICES ASSUME SerialInductive, [SerialNext]_serialVars, ~ disturbed'
               PROVE  Inductive' /\ Quiet'
    BY DEF SerialInductive
  <1>1. ~ disturbed
    BY DEF SerialNext, serialVars, SerialEnter, SerialProgress, SerialDevice, LosePort, Noise
  <1>2. Inductive /\ Quiet
    BY <1>1 DEF SerialInductive
  <1>3. CASE \E i \in Calls, k \in Conns : OpenPort(i, k)
    BY <1>2, <1>3, OpenPortStep
  <1>4. CASE \A i \in Calls, k \in Conns : ~ OpenPort(i, k)
    BY <1>2, <1>4, SerialAsTCP, SerialWire, InductiveNext
  <1> QED
    BY <1>3, <1>4

LEMMA SerialInductiveInit == SerialInit => SerialInductive
  <1> SUFFICES ASSUME SerialInit
               PROVE  Inductive /\ Quiet
    BY DEF SerialInductive
  <1>1. Inductive
    BY InductiveInit DEF SerialInit
  <1>2. Quiet
    BY DEF SerialInit, Init, Down, Quiet
  <1> QED
    BY <1>1, <1>2

\* Until noise, or a port lost while the device had a request, what the device
\* sends on the line is taken for the answer to the right call, although nothing
\* in it says so, and reopened ports and retries hide faults as over TCP.
THEOREM SerialInStep == SerialSpec => []InStepUntilDisturbed
  <1>1. SerialInit => SerialInductive
    BY SerialInductiveInit
  <1>2. SerialInductive /\ [SerialNext]_serialVars => SerialInductive'
    BY SerialInductiveNext
  <1>3. SerialInductive => InStepUntilDisturbed
    BY DEF SerialInductive, Inductive, InStepUntilDisturbed
  <1> QED
    BY <1>1, <1>2, <1>3, PTL DEF SerialSpec

-----------------------------------------------------------------------------
\* Frames: the exchange of ModbusFrames, for every set of calls and any checksums.

ThreeModes == {"modeTCP", "modeRTU", "modeASCII"}

Uint16Max == 65535

Uint16 == {n \in Nat : n <= Uint16Max}

\* The checksums are a uint16 and a byte, as in the code.
ChecksumsFit ==
    \A s \in Seq(Byte) : CRC(s) \in Uint16 /\ LRC(s) \in Byte

\* No more registers than the one byte of a reply can count the bytes of; the
\* protocol allows 125.
ShortReads == \A n \in ReadLengths : n > 0 => RegisterCount(n) <= 127

\* A set of positions has a first and a last one.
LEMMA FirstExists ==
    ASSUME NEW S \in SUBSET Nat, S # {}
    PROVE  \E m \in S : \A n \in S : m <= n
  <1>1. PICK m \in S : \A n \in S : <<n, m>> \notin OpToRel(<, Nat)
    BY NatLessThanWellFounded, WFMin
  <1>2. \A n \in S : ~ (n < m)
    BY <1>1 DEF OpToRel
  <1> QED
    BY <1>2

LEMMA MinMaxFacts ==
    ASSUME NEW N \in Nat, NEW S \in SUBSET (1 .. N), S # {}
    PROVE  /\ Min(S) \in S
           /\ \A n \in S : Min(S) <= n
           /\ Max(S) \in S
           /\ \A n \in S : n <= Max(S)
  <1>1. \E m \in S : \A n \in S : m <= n
    BY FirstExists
  <1> DEFINE T == {N - n : n \in S}
  <1>2. T \in SUBSET Nat /\ T # {}
    <2>1. \A n \in S : n \in 1 .. N /\ N - n \in Nat
      OBVIOUS
    <2>2. T \in SUBSET Nat
      BY <2>1
    <2>3. PICK n \in S : TRUE
      OBVIOUS
    <2>4. N - n \in T
      OBVIOUS
    <2> QED
      BY <2>2, <2>4
  <1>3. PICK m \in T : \A n \in T : m <= n
    BY <1>2, FirstExists
  <1>4. PICK x \in S : m = N - x
    BY <1>3
  <1>5. \A n \in S : x >= n
    <2> TAKE n \in S
    <2>1. N - x <= N - n
      BY <1>3, <1>4
    <2> QED
      BY <2>1
  <1>6. Min(S) \in S /\ \A n \in S : Min(S) <= n
    BY <1>1 DEF Min
  <1>7. Max(S) \in S /\ \A n \in S : Max(S) >= n
    BY <1>5 DEF Max
  <1> QED
    BY <1>6, <1>7

\* What an answer of the device looks like.
Shaped(q, p) ==
    /\ p \in Seq(Byte)
    /\ \/ p[1] >= 128 /\ Len(p) = 2
       \/ /\ q.fc = 3 /\ p[1] = 3
          /\ Len(p) = 2 * Registers(q) + 2
          /\ p[2] = (2 * Registers(q)) % 256
       \/ q.fc \in {5, 16} /\ p[1] = q.fc /\ Len(p) = 5

LEMMA Uint16Holds ==
    ASSUME NEW c
    PROVE  c \in Uint16 <=> c \in Nat /\ c <= Uint16Max
BY DEF Uint16

LEMMA Uint16Cut ==
    ASSUME NEW m \in Int, NEW c, c = m % 65536
    PROVE  /\ c \in Nat /\ c <= Uint16Max
           /\ m \in Nat /\ m <= Uint16Max => c = m
BY DEF Uint16Max

LEMMA Uint16Facts ==
    ASSUME NEW m \in Int, NEW c, c = m % 65536
    PROVE  c \in Uint16 /\ (m \in Uint16 => c = m)
BY Uint16Holds, Uint16Cut

LEMMA CountFacts ==
    ASSUME NEW n \in Int
    PROVE  /\ RegisterCount(n) \in Uint16
           /\ 0 < n /\ n <= StringLimit =>
                 2 * RegisterCount(n) >= n /\ RegisterCount(n) >= 1
  <1>1. PICK m \in Int : m = (n + 1) \div 2
    OBVIOUS
  <1>2. 2 * m >= n /\ 2 * m <= n + 1
    BY <1>1
  <1>3. PICK c : c = RegisterCount(n)
    OBVIOUS
  <1>4. c = m % 65536
    BY <1>1, <1>3 DEF RegisterCount
  <1>5. c \in Uint16 /\ (m \in Uint16 => c = m)
    BY <1>4, Uint16Facts
  <1>6. ASSUME 0 < n, n <= StringLimit
        PROVE  2 * c >= n /\ c >= 1
    <2>1. m \in Uint16 /\ m >= 1
      <3>1. n <= 131070
        BY <1>6 DEF StringLimit
      <3>2. m >= 1 /\ m \in Nat /\ m <= Uint16Max
        BY <1>2, <1>6, <3>1 DEF Uint16Max
      <3> QED
        BY <3>2, Zenon DEF Uint16
    <2> QED
      BY <1>2, <1>5, <2>1
  <1> QED
    BY <1>3, <1>5, <1>6

\* Sequences given as functions, and put behind each other.
LEMMA FunctionSeq ==
    ASSUME NEW S, NEW n \in Nat, NEW d \in [1 .. n -> S]
    PROVE  d \in Seq(S) /\ Len(d) = n
  <1>1. d \in Seq(S)
    BY SeqDef
  <1> QED
    BY <1>1, LenProperties

Joined(S, s, t) ==
    /\ s \o t \in Seq(S)
    /\ Len(s) \in Nat /\ Len(t) \in Nat
    /\ Len(s \o t) = Len(s) + Len(t)
    /\ \A i \in 1 .. Len(s) : (s \o t)[i] = s[i]
    /\ \A i \in 1 .. Len(t) : (s \o t)[Len(s) + i] = t[i]

LEMMA Behind ==
    ASSUME NEW S, NEW s \in Seq(S), NEW t \in Seq(S)
    PROVE  Joined(S, s, t)
  <1>1. Len(s) \in Nat /\ Len(t) \in Nat
    BY LenProperties
  <1>2. /\ s \o t \in Seq(S)
        /\ Len(s \o t) = Len(s) + Len(t)
        /\ \A i \in 1 .. Len(s) + Len(t) : (s \o t)[i] = IF i <= Len(s) THEN s[i] ELSE t[i - Len(s)]
    BY ConcatProperties, Zenon
  <1>3. \A i \in 1 .. Len(s) : (s \o t)[i] = s[i]
    BY <1>1, <1>2
  <1>4. ASSUME NEW i \in 1 .. Len(t)
        PROVE  (s \o t)[Len(s) + i] = t[i]
    <2>1. /\ Len(s) + i \in 1 .. Len(s) + Len(t)
          /\ ~ Len(s) + i <= Len(s)
          /\ Len(s) + i - Len(s) = i
      BY <1>1
    <2> QED
      BY <1>2, <2>1
  <1> QED
    BY <1>1, <1>2, <1>3, <1>4 DEF Joined

\* Short sequences written out.
LEMMA ShortSeqs ==
    ASSUME NEW S, NEW a \in S
    PROVE  /\ <<a>> \in Seq(S) /\ Len(<<a>>) = 1 /\ <<a>>[1] = a
           /\ \A b \in S : /\ <<a, b>> \in Seq(S) /\ Len(<<a, b>>) = 2
                           /\ <<a, b>>[1] = a /\ <<a, b>>[2] = b
OBVIOUS

LEMMA AskFacts ==
    ASSUME ConstantTypes, NEW q \in Asks
    PROVE  /\ q.fc \in {3, 5, 16} /\ q.n \in Int
           /\ q.fc = 16 => q.n \in Nat
           /\ q.addr \in Seq(Byte) /\ Len(q.addr) = 2
           /\ q.mode \in ThreeModes
  <1>1. <<0, 0>> \in [1 .. 2 -> Byte]
    BY DEF Byte
  <1>2. /\ q.fc \in {3, 5, 16} /\ q.n \in Int
        /\ q.fc = 16 => q.n \in Nat
        /\ q.addr \in [1 .. 2 -> Byte]
        /\ q.mode \in ThreeModes
    <2>0. /\ Modes \subseteq ThreeModes /\ ReadLengths \subseteq Int
          /\ WriteCounts \subseteq Nat /\ Addresses \subseteq [1 .. 2 -> Byte]
      BY DEF ConstantTypes, ThreeModes
    <2>1. CASE q \in [mode : Modes, fc : {3}, n : ReadLengths, addr : {<<0, 0>>}]
      <3>1. q.mode \in Modes /\ q.fc = 3 /\ q.n \in ReadLengths
        BY <2>1
      <3>2. q.addr = <<0, 0>>
        BY <2>1, Zenon
      <3>3. q.n \in Int
        BY <2>0, <3>1
      <3>4. q.fc # 16 /\ q.fc \in {3, 5, 16}
        BY <3>1
      <3> QED
        BY <1>1, <2>0, <3>1, <3>2, <3>3, <3>4, Zenon
    <2>2. CASE q \in [mode : Modes, fc : {5}, n : {1}, addr : Addresses]
      <3>1. q.mode \in Modes /\ q.fc = 5 /\ q.n = 1 /\ q.addr \in Addresses
        BY <2>2
      <3>2. q.n \in Int /\ q.fc # 16 /\ q.fc \in {3, 5, 16}
        BY <3>1
      <3> QED
        BY <2>0, <3>1, <3>2, Zenon
    <2>3. CASE q \in [mode : Modes, fc : {16}, n : WriteCounts, addr : Addresses]
      <3>1. q.mode \in Modes /\ q.fc = 16 /\ q.n \in WriteCounts /\ q.addr \in Addresses
        BY <2>3
      <3>0. q.n \in Nat
        BY <2>0, <3>1
      <3>2. q.n \in Int /\ q.n \in Nat
        BY <3>0
      <3>3. q.fc \in {3, 5, 16}
        BY <3>1
      <3> QED
        BY <2>0, <3>1, <3>2, <3>3, Zenon
    <2> QED
      BY <2>1, <2>2, <2>3 DEF Asks
  <1> QED
    BY <1>2, FunctionSeq

LEMMA AnswerFacts ==
    ASSUME ConstantTypes, NEW q \in Asks, ~ Local(q),
           NEW p \in Answers(q)
    PROVE  Shaped(q, p)
  <1>1. q.fc \in {3, 5, 16} /\ q.fc \in Byte /\ q.fc + 128 \in Byte
    <2>1. q.fc \in {3, 5, 16}
      BY AskFacts, Zenon
    <2> QED
      BY <2>1 DEF Byte
  <1>2. CASE p = <<q.fc + 128, 2>>
    <2>1. 2 \in Byte
      BY DEF Byte
    <2> QED
      BY <1>1, <1>2, <2>1, ShortSeqs DEF Shaped
  <1>3. CASE q.fc = 3 /\ p # <<q.fc + 128, 2>>
    <2> DEFINE R == Registers(q)
               h == <<3, (2 * R) % 256>>
    <2>1. R \in Uint16
      <3>1. PICK n \in Int : n = q.n
        BY AskFacts, Zenon
      <3>2. RegisterCount(n) \in Uint16
        BY CountFacts, Zenon
      <3>3. R = RegisterCount(n)
        BY <1>3, <3>1 DEF Registers
      <3> QED
        BY <3>2, <3>3, Zenon
    <2>2. PICK d \in [1 .. 2 * R -> Bytes] : p = h \o d
      BY <1>3 DEF Answers
    <2>3. d \in Seq(Byte) /\ Len(d) = 2 * R
      <3>1. 2 * R \in Nat
        <4> HIDE DEF R
        <4> QED
          BY <2>1 DEF Uint16
      <3>2. d \in [1 .. 2 * R -> Byte]
        <4>1. Bytes \subseteq Byte
          BY DEF ConstantTypes
        <4> HIDE DEF R
        <4> QED
          BY <4>1
      <3> QED
        BY <3>1, <3>2, FunctionSeq, Zenon
    <2>4. 3 \in Byte /\ (2 * R) % 256 \in Byte
      <3> HIDE DEF R
      <3> QED
        BY <2>1 DEF Byte, Uint16
    <2>5. h \in Seq(Byte) /\ Len(h) = 2 /\ h[1] = 3 /\ h[2] = (2 * R) % 256
      <3> HIDE DEF R
      <3> QED
        BY <2>4, ShortSeqs
    <2> HIDE DEF R, h
    <2>6. /\ p \in Seq(Byte) /\ Len(p) = 2 + 2 * R
          /\ \A i \in 1 .. 2 : p[i] = h[i]
      <3>1. Joined(Byte, h, d)
        BY <2>3, <2>5, Behind
      <3> QED
        BY <2>2, <2>3, <2>5, <3>1 DEF Joined
    <2>7. p[1] = 3 /\ p[2] = (2 * R) % 256 /\ Len(p) = 2 * R + 2
      <3>1. R \in Nat
        BY <2>1 DEF Uint16
      <3>2. 2 + 2 * R = 2 * R + 2
        BY <3>1
      <3> QED
        BY <2>5, <2>6, <3>2
    <2> QED
      BY <1>3, <2>6, <2>7 DEF Shaped, R
  <1>4. CASE q.fc # 3 /\ p # <<q.fc + 128, 2>>
    <2>1. PICK a \in Byte, b \in Byte : p = <<q.fc>> \o q.addr \o <<a, b>>
      <3>1. CASE q.fc = 5
        <4>1. 0 \in Byte /\ 255 \in Byte
          BY DEF Byte
        <4>2. p \in {<<5>> \o q.addr \o v : v \in {<<0, 0>>, <<255, 0>>}}
          BY <1>4, <3>1 DEF Answers
        <4>3. CASE p = <<5>> \o q.addr \o <<0, 0>>
          BY <3>1, <4>1, <4>3, Zenon
        <4>4. CASE p = <<5>> \o q.addr \o <<255, 0>>
          BY <3>1, <4>1, <4>4, Zenon
        <4> QED
          BY <4>2, <4>3, <4>4, Zenon
      <3>2. CASE q.fc = 16
        <4>1. 0 \in Byte /\ q.n \in Byte
          <5>1. q.n \in Nat
            BY <3>2, AskFacts, Zenon
          <5>2. ~ q.n > 123
            BY <3>2 DEF Local
          <5> QED
            BY <5>1, <5>2 DEF Byte
        <4>2. p = <<16>> \o q.addr \o <<0, q.n>>
          BY <1>4, <3>2 DEF Answers
        <4> QED
          BY <3>2, <4>1, <4>2, Zenon
      <3> QED
        BY <1>1, <1>4, <3>1, <3>2
    <2> DEFINE h == <<q.fc>>
               g == h \o q.addr
               e == <<a, b>>
    <2>2. /\ h \in Seq(Byte) /\ Len(h) = 1 /\ h[1] = q.fc
          /\ e \in Seq(Byte) /\ Len(e) = 2
      BY <1>1, ShortSeqs
    <2>3. p = g \o e
      BY <2>1
    <2> HIDE DEF h, e
    <2>4. q.addr \in Seq(Byte) /\ Len(q.addr) = 2
      BY AskFacts, Zenon
    <2>5. g \in Seq(Byte) /\ Len(g) = 3 /\ g[1] = q.fc
      <3>1. Joined(Byte, h, q.addr)
        BY <2>2, <2>4, Behind
      <3> QED
        BY <2>2, <2>4, <3>1 DEF Joined
    <2> HIDE DEF g
    <2>6. p \in Seq(Byte) /\ Len(p) = 5 /\ p[1] = q.fc
      <3>1. Joined(Byte, g, e)
        BY <2>2, <2>5, Behind
      <3> QED
        BY <2>2, <2>3, <2>5, <3>1 DEF Joined
    <2> QED
      BY <1>1, <1>4, <2>6 DEF Shaped
  <1> QED
    BY <1>2, <1>3, <1>4

-----------------------------------------------------------------------------
\* What goes on the line

Body(p) == <<Unit>> \o p

LEMMA BodyFacts ==
    ASSUME ConstantTypes, NEW p \in Seq(Byte)
    PROVE  /\ Body(p) \in Seq(Byte)
           /\ Len(p) \in Nat
           /\ Len(Body(p)) = 1 + Len(p)
           /\ Body(p)[1] = Unit
           /\ \A i \in 1 .. Len(p) : Body(p)[1 + i] = p[i]
  <1> DEFINE h == <<Unit>>
  <1>1. h \in Seq(Byte) /\ Len(h) = 1 /\ h[1] = Unit
    BY ShortSeqs DEF ConstantTypes
  <1>2. Body(p) = h \o p
    BY DEF Body
  <1> HIDE DEF h
  <1>3. Joined(Byte, h, p)
    BY <1>1, Behind
  <1> QED
    BY <1>1, <1>2, <1>3 DEF Joined

\* The header, the unit and an answer p.
TCPLine(s, p) ==
    /\ s \in Seq(Int) /\ Len(s) = 7 + Len(p)
    /\ s[1] = 0 /\ s[2] = 1 /\ 256 * s[5] + s[6] = Len(p) + 1 /\ s[7] = Unit
    /\ \A i \in 1 .. Len(p) : s[7 + i] = p[i]

LEMMA TCPFrame ==
    ASSUME ConstantTypes, NEW p \in Seq(Byte), NEW s,
           s = Framed("modeTCP", p)
    PROVE  TCPLine(s, p)
  <1> DEFINE n == Len(p) + 1
             high == n \div 256
             low  == n % 256
             h == <<0, 0, high, low>>
             b == Body(p)
             g == TransID \o h
  <1>1. /\ b \in Seq(Int) /\ Len(p) \in Nat /\ Len(b) = 1 + Len(p)
        /\ b[1] = Unit /\ \A i \in 1 .. Len(p) : b[1 + i] = p[i]
    <2>1. Body(p) \in Seq(Byte) /\ Byte \subseteq Int
      BY BodyFacts DEF Byte
    <2>2. Body(p) \in Seq(Int)
      BY <2>1, SeqMonotonic
    <2> QED
      BY <2>2, BodyFacts, Zenon
  <1>2. /\ n \in Int /\ n = Len(p) + 1 /\ high \in Int /\ low \in Int
        /\ 256 * high + low = n
    BY <1>1
  <1>3. s = g \o b
    BY Zenon DEF Framed, Body
  <1> HIDE DEF n, b, high, low
  <1>4. h \in Seq(Int) /\ Len(h) = 4 /\ h[3] = high /\ h[4] = low
    BY <1>2
  <1>5. /\ TransID \in Seq(Int) /\ Len(TransID) = 2
        /\ TransID[1] = 0 /\ TransID[2] = 1
    BY DEF TransID
  <1> HIDE DEF h
  <1>a. Joined(Int, TransID, h)
    BY <1>4, <1>5, Behind
  <1>6. /\ g \in Seq(Int)
        /\ Len(g) = Len(TransID) + Len(h)
        /\ \A i \in 1 .. Len(TransID) : g[i] = TransID[i]
        /\ \A i \in 1 .. Len(h) : g[Len(TransID) + i] = h[i]
    BY <1>a DEF Joined
  <1> HIDE DEF g
  <1>7. /\ Len(g) = 6 /\ g[1] = 0 /\ g[2] = 1 /\ g[5] = high /\ g[6] = low
    <2>1. Len(g) = 6 /\ g[1] = TransID[1] /\ g[2] = TransID[2]
      BY <1>4, <1>5, <1>6
    <2>2. g[2 + 3] = h[3] /\ g[2 + 4] = h[4]
      BY <1>4, <1>5, <1>6
    <2> QED
      BY <1>4, <1>5, <2>1, <2>2
  <1>g. Len(g) = 6
    BY <1>7, Zenon
  <1>8. /\ g \o b \in Seq(Int)
        /\ Len(g \o b) = Len(g) + Len(b)
        /\ \A i \in 1 .. Len(g) : (g \o b)[i] = g[i]
        /\ \A i \in 1 .. Len(b) : (g \o b)[Len(g) + i] = b[i]
    <2>1. Joined(Int, g, b)
      BY <1>1, <1>6, Behind
    <2> QED
      BY <2>1 DEF Joined
  <1>s. (\A i \in 1 .. 6 : s[i] = g[i]) /\ (\A i \in 1 .. Len(b) : s[6 + i] = b[i])
    BY <1>3, <1>8, <1>g, Zenon
  <1>9. ASSUME NEW i \in 1 .. Len(p)
        PROVE  s[7 + i] = p[i]
    <2>1. 1 + i \in 1 .. Len(b) /\ 6 + (1 + i) = 7 + i
      BY <1>1
    <2> QED
      BY <1>1, <1>s, <2>1
  <1>10. s[1] = g[1] /\ s[2] = g[2] /\ s[5] = g[5] /\ s[6] = g[6]
    BY <1>s
  <1>11. s[7] = Unit
    <2>1. 1 \in 1 .. Len(b) /\ 6 + 1 = 7
      BY <1>1
    <2> QED
      BY <1>1, <1>3, <1>7, <1>8, <2>1
  <1>12. s \in Seq(Int) /\ Len(s) = 7 + Len(p)
    <2>1. s \in Seq(Int) /\ Len(s) = Len(g) + Len(b)
      BY <1>3, <1>8, Zenon
    <2>2. Len(g) + Len(b) = 7 + Len(p)
      BY <1>1, <1>7
    <2> QED
      BY <2>1, <2>2, Zenon
  <1> QED
    BY <1>2, <1>7, <1>9, <1>10, <1>11, <1>12 DEF TCPLine

\* The body of an answer p and its checksum, the low byte first.
RTULine(s, p) ==
    /\ s \in Seq(Int) /\ Len(p) \in Nat /\ Len(s) = 3 + Len(p)
    /\ s[1] = Unit
    /\ \A i \in 1 .. Len(p) : s[1 + i] = p[i]
    /\ SubSeq(s, 1, 1 + Len(p)) = Body(p)
    /\ s[2 + Len(p)] + 256 * s[3 + Len(p)] = CRC(Body(p))

LEMMA RTUFrame ==
    ASSUME ConstantTypes, ChecksumsFit, NEW p \in Seq(Byte), NEW s,
           s = Framed("modeRTU", p)
    PROVE  RTULine(s, p)
  <1> DEFINE b == Body(p)
             c == CRC(b)
             lo == c % 256
             hi == c \div 256
             e == <<lo, hi>>
  <1>1. /\ b \in Seq(Byte) /\ Len(p) \in Nat /\ Len(b) = 1 + Len(p)
        /\ b[1] = Unit /\ \A i \in 1 .. Len(p) : b[1 + i] = p[i]
    BY BodyFacts
  <1>2. b \in Seq(Int)
    <2>1. Byte \subseteq Int
      BY DEF Byte
    <2> HIDE DEF b
    <2> QED
      BY <1>1, <2>1, SeqMonotonic
  <1>3. s = b \o e
    BY Zenon DEF Framed, Body
  <1>4. c \in Uint16
    BY <1>1 DEF ChecksumsFit
  <1> HIDE DEF b, c
  <1>5. lo \in Int /\ hi \in Int /\ lo + 256 * hi = c
    <2>1. c \in Nat
      BY <1>4 DEF Uint16
    <2> QED
      BY <2>1
  <1> HIDE DEF lo, hi
  <1>6. e \in Seq(Int) /\ Len(e) = 2 /\ e[1] = lo /\ e[2] = hi
    BY <1>5, ShortSeqs
  <1> HIDE DEF e
  <1>7. /\ b \o e \in Seq(Int)
        /\ Len(b \o e) = Len(b) + Len(e)
        /\ \A i \in 1 .. Len(b) : (b \o e)[i] = b[i]
        /\ \A i \in 1 .. Len(e) : (b \o e)[Len(b) + i] = e[i]
    <2>1. Joined(Int, b, e)
      BY <1>2, <1>6, Behind
    <2> QED
      BY <2>1 DEF Joined
  <1>8. s \in Seq(Int) /\ Len(s) = 3 + Len(p)
    <2>1. s \in Seq(Int) /\ Len(s) = Len(b) + Len(e)
      BY <1>3, <1>7, Zenon
    <2>2. Len(b) + Len(e) = 3 + Len(p)
      BY <1>1, <1>6
    <2> QED
      BY <2>1, <2>2, Zenon
  <1>9. s[1] = Unit
    BY <1>1, <1>3, <1>7
  <1>10. ASSUME NEW i \in 1 .. Len(p)
         PROVE  s[1 + i] = p[i]
    <2>1. 1 + i \in 1 .. Len(b)
      BY <1>1
    <2> QED
      BY <1>1, <1>3, <1>7, <2>1
  <1>11. SubSeq(s, 1, 1 + Len(p)) = b
    <2>1. /\ 1 \in Int /\ 1 + Len(p) \in Int /\ 1 <= 1 + Len(p)
          /\ \A i \in 1 .. 1 + Len(p) : s[i] \in Int
      BY <1>1, <1>8
    <2>2. /\ SubSeq(s, 1, 1 + Len(p)) \in Seq(Int)
          /\ Len(SubSeq(s, 1, 1 + Len(p))) = 1 + Len(p)
          /\ \A i \in 1 .. 1 + Len(p) : SubSeq(s, 1, 1 + Len(p))[i] = s[i]
      BY <1>1, <1>8
    <2>3. \A i \in 1 .. 1 + Len(p) : SubSeq(s, 1, 1 + Len(p))[i] = b[i]
      BY <1>1, <1>3, <1>7, <2>2
    <2> QED
      BY <1>1, <1>2, <2>2, <2>3, SeqEqual
  <1>12. s[2 + Len(p)] = lo /\ s[3 + Len(p)] = hi
    <2>1. Len(b) + 1 = 2 + Len(p) /\ Len(b) + 2 = 3 + Len(p)
      BY <1>1
    <2>2. s[Len(b) + 1] = e[1] /\ s[Len(b) + 2] = e[2]
      BY <1>3, <1>6, <1>7
    <2> QED
      BY <1>6, <2>1, <2>2
  <1>13. c = CRC(Body(p)) /\ b = Body(p)
    BY DEF b, c
  <1> QED
    BY <1>1, <1>5, <1>8, <1>9, <1>10, <1>11, <1>12, <1>13 DEF RTULine

\* A part of a sequence, given by its elements.
StandsAt(s, a, t) == \A i \in 1 .. Len(t) : s[a + i - 1] = t[i]

LEMMA PartIs ==
    ASSUME NEW s, NEW a \in Int, NEW b \in Int, NEW t \in Seq(Int),
           Len(t) = b - a + 1, StandsAt(s, a, t)
    PROVE  SubSeq(s, a, b) = t
  <1>0. \A i \in 1 .. Len(t) : s[a + i - 1] = t[i]
    BY DEF StandsAt
  <1>1. Len(t) \in Nat
    BY LenProperties
  <1>2. \A i \in a .. b : s[i] \in Int
    <2> TAKE i \in a .. b
    <2>1. PICK j \in Int : j = i - a + 1
      OBVIOUS
    <2>2. j \in 1 .. Len(t) /\ a + j - 1 = i
      BY <2>1
    <2>3. t[j] \in Int
      BY <2>2, ElementOfSeq
    <2> QED
      BY <1>0, <2>2, <2>3
  <1>3. /\ SubSeq(s, a, b) \in Seq(Int)
        /\ Len(SubSeq(s, a, b)) = IF a <= b THEN b - a + 1 ELSE 0
        /\ \A i \in 1 .. b - a + 1 : SubSeq(s, a, b)[i] = s[a + i - 1]
    BY <1>2, SubSeqProperties
  <1> DEFINE r == SubSeq(s, a, b)
  <1>4. r \in Seq(Int) /\ \A i \in 1 .. Len(t) : r[i] = t[i]
    BY <1>0, <1>3
  <1>5. Len(r) = Len(t)
    BY <1>1, <1>3
  <1> HIDE DEF r
  <1>6. r = t
    BY <1>4, <1>5, SeqEqual
  <1> QED
    BY <1>6 DEF r

LEMMA ByteSeq ==
    ASSUME NEW s \in Seq(Byte)
    PROVE  s \in Seq(Int)
  <1>1. Byte \subseteq Int
    BY DEF Byte
  <1> QED
    BY <1>1, SeqMonotonic

\* A digit is no space and no end of a line, and has its value.
LEMMA DigitFacts ==
    ASSUME NEW d \in 0 .. 15
    PROVE  /\ Digit(d) \in 48 .. 70
           /\ DigitValue(Digit(d)) = d
  <1>1. CASE d < 10
    <2>1. Digit(d) = 48 + d
      BY <1>1 DEF Digit
    <2>2. PICK c : c = 48 + d
      OBVIOUS
    <2>3. c \in 48 .. 57 /\ c \in 48 .. 70 /\ c - 48 = d
      BY <1>1, <2>2
    <2>4. DigitValue(c) = c - 48
      <3>1. c \notin 65 .. 70 /\ c \notin 97 .. 102
        BY <2>3
      <3> QED
        BY <2>3, <3>1, Zenon DEF DigitValue
    <2> QED
      BY <2>1, <2>2, <2>3, <2>4
  <1>2. CASE d >= 10
    <2>1. Digit(d) = 55 + d
      BY <1>2 DEF Digit
    <2>2. PICK c : c = 55 + d
      OBVIOUS
    <2>3. c \in 65 .. 70 /\ c \in 48 .. 70 /\ c - 55 = d
      BY <1>2, <2>2
    <2>4. DigitValue(c) = c - 55
      <3>1. c \notin 48 .. 57 /\ c \notin 97 .. 102
        BY <2>3
      <3> QED
        BY <2>3, <3>1, Zenon DEF DigitValue
    <2> QED
      BY <2>1, <2>2, <2>3, <2>4
  <1> QED
    BY <1>1, <1>2

LEMMA DigitValueType ==
    ASSUME NEW c \in Int
    PROVE  DigitValue(c) \in Int
  <1>1. CASE c \in 48 .. 57
    <2>1. c \notin 65 .. 70 /\ c \notin 97 .. 102 /\ c - 48 \in Int
      BY <1>1
    <2> QED
      BY <1>1, <2>1, Zenon DEF DigitValue
  <1>2. CASE c \in 65 .. 70
    <2>1. c \notin 48 .. 57 /\ c \notin 97 .. 102 /\ c - 55 \in Int
      BY <1>2
    <2> QED
      BY <1>2, <2>1, Zenon DEF DigitValue
  <1>3. CASE c \in 97 .. 102
    <2>1. c \notin 48 .. 57 /\ c \notin 65 .. 70 /\ c - 87 \in Int
      BY <1>3
    <2> QED
      BY <1>3, <2>1, Zenon DEF DigitValue
  <1>4. CASE c \notin 48 .. 57 /\ c \notin 65 .. 70 /\ c \notin 97 .. 102
    <2>1. 16 \in Int
      OBVIOUS
    <2> QED
      BY <1>4, <2>1, Zenon DEF DigitValue
  <1> QED
    BY <1>1, <1>2, <1>3, <1>4

\* The text of some bytes, and what its characters stand for.
LEMMA HexFacts ==
    ASSUME NEW data \in Seq(Byte), NEW h, h = HexOf(data)
    PROVE  /\ h \in Seq(Int) /\ Len(data) \in Nat /\ Len(h) = 2 * Len(data)
           /\ \A i \in 1 .. Len(h) : h[i] \in 48 .. 70 /\ DigitValue(h[i]) \in 0 .. 15
           /\ \A n \in 1 .. Len(data) :
                 16 * DigitValue(h[2 * n - 1]) + DigitValue(h[2 * n]) = data[n]
  <1> DEFINE k == Len(data)
             Half(i) == IF i % 2 = 1 THEN data[(i + 1) \div 2] \div 16
                        ELSE data[(i + 1) \div 2] % 16
  <1>1. k \in Nat
    BY LenProperties
  <1>2. h = [i \in 1 .. 2 * k |-> Digit(Half(i))]
    BY DEF HexOf
  <1>3. ASSUME NEW i \in 1 .. 2 * k
        PROVE  Half(i) \in 0 .. 15
    <2>1. PICK m : m = (i + 1) \div 2
      OBVIOUS
    <2>2. m \in 1 .. k
      BY <1>1, <2>1
    <2>3. PICK x : x = data[m]
      OBVIOUS
    <2>4. x \in Byte
      BY <2>2, <2>3, ElementOfSeq
    <2>5. x \div 16 \in 0 .. 15 /\ x % 16 \in 0 .. 15
      BY <2>4 DEF Byte
    <2>6. Half(i) = IF i % 2 = 1 THEN x \div 16 ELSE x % 16
      BY <2>1, <2>3
    <2> QED
      BY <2>5, <2>6
  <1>4. \A i \in 1 .. 2 * k : h[i] = Digit(Half(i))
    BY <1>2
  <1>5. ASSUME NEW i \in 1 .. 2 * k
        PROVE  /\ h[i] \in 48 .. 70 /\ h[i] \in Int
               /\ DigitValue(h[i]) = Half(i) /\ Half(i) \in 0 .. 15
    <2> HIDE DEF Half
    <2>1. Half(i) \in 0 .. 15
      BY <1>3
    <2>2. /\ Digit(Half(i)) \in 48 .. 70
          /\ DigitValue(Digit(Half(i))) = Half(i)
      BY <2>1, DigitFacts
    <2>3. h[i] = Digit(Half(i))
      BY <1>4
    <2>4. h[i] \in Int
      BY <2>2, <2>3
    <2> QED
      BY <2>1, <2>2, <2>3, <2>4
  <1>6. h \in Seq(Int) /\ Len(h) = 2 * k
    <2>1. 2 * k \in Nat
      BY <1>1
    <2>2. h \in [1 .. 2 * k -> Int]
      <3>1. \A i \in 1 .. 2 * k : Digit(Half(i)) \in Int
        BY <1>4, <1>5
      <3> HIDE DEF Half, k
      <3> QED
        BY <1>2, <3>1
    <2> HIDE DEF k
    <2> QED
      BY <2>1, <2>2, FunctionSeq
  <1>7. ASSUME NEW n \in 1 .. k
        PROVE  16 * DigitValue(h[2 * n - 1]) + DigitValue(h[2 * n]) = data[n]
    <2>1. PICK a, b : a = 2 * n - 1 /\ b = 2 * n
      OBVIOUS
    <2>2. /\ a \in 1 .. 2 * k /\ b \in 1 .. 2 * k
          /\ (a + 1) \div 2 = n /\ (b + 1) \div 2 = n
          /\ a % 2 = 1 /\ b % 2 = 0
      BY <1>1, <2>1
    <2>3. PICK x : x = data[n]
      OBVIOUS
    <2>4. x \in Nat
      <3>1. x \in Byte
        BY <2>3, ElementOfSeq
      <3> QED
        BY <3>1 DEF Byte
    <2>5. Half(a) = x \div 16 /\ Half(b) = x % 16
      BY <2>2, <2>3
    <2>6. 16 * (x \div 16) + (x % 16) = x
      BY <2>4
    <2>7. DigitValue(h[a]) = x \div 16 /\ DigitValue(h[b]) = x % 16
      <3> HIDE DEF Half
      <3> QED
        BY <1>5, <2>2, <2>5
    <2> QED
      BY <2>1, <2>3, <2>6, <2>7
  <1>8. \A i \in 1 .. Len(h) : h[i] \in 48 .. 70 /\ DigitValue(h[i]) \in 0 .. 15
    <2> HIDE DEF Half
    <2> QED
      BY <1>5, <1>6
  <1> QED
    BY <1>1, <1>6, <1>7, <1>8

\* A colon, the digits h of the bytes of an answer p and its checksum, CR LF.
TextLine(s, p, data, h) ==
    /\ data \in Seq(Byte) /\ Len(p) \in Nat /\ Len(data) = 2 + Len(p)
    /\ s \in Seq(Int) /\ Len(s) = 2 * Len(data) + 3
    /\ s[1] = 58
    /\ \A i \in 1 .. 2 * Len(data) : s[1 + i] = h[i]
    /\ s[2 * Len(data) + 2] = 13 /\ s[2 * Len(data) + 3] = 10

LEMMA ASCIIFrame ==
    ASSUME ConstantTypes, ChecksumsFit, NEW p \in Seq(Byte), NEW s,
           s = Framed("modeASCII", p),
           NEW data, data = Append(Body(p), LRC(Body(p))),
           NEW h, h = HexOf(data)
    PROVE  TextLine(s, p, data, h)
  <1> DEFINE b == Body(p)
             l == LRC(b)
             e == <<13, 10>>
             a == <<58>>
  <1>1. b \in Seq(Byte) /\ Len(p) \in Nat /\ Len(b) = 1 + Len(p)
    BY BodyFacts
  <1>2. l \in Byte
    BY <1>1 DEF ChecksumsFit
  <1>3. s = a \o h \o e
    BY Zenon DEF Framed, Body, LF
  <1>4. data = Append(b, l)
    OBVIOUS
  <1> HIDE DEF b, l
  <1>5. data \in Seq(Byte) /\ Len(data) = Len(b) + 1
    BY <1>1, <1>2, <1>4, AppendProperties
  <1>6. Len(data) = 2 + Len(p) /\ Len(data) \in Nat
    BY <1>1, <1>5
  <1>7. h \in Seq(Int) /\ Len(h) = 2 * Len(data)
    BY <1>5, HexFacts
  <1>8. a \in Seq(Int) /\ Len(a) = 1 /\ a[1] = 58
    OBVIOUS
  <1>9. e \in Seq(Int) /\ Len(e) = 2 /\ e[1] = 13 /\ e[2] = 10
    OBVIOUS
  <1> DEFINE g == a \o h
  <1> HIDE DEF a, e
  <1>10. Joined(Int, a, h)
    BY <1>7, <1>8, Behind
  <1>11. /\ g \in Seq(Int) /\ Len(g) = Len(a) + Len(h)
         /\ \A i \in 1 .. Len(a) : g[i] = a[i]
         /\ \A i \in 1 .. Len(h) : g[Len(a) + i] = h[i]
    BY <1>10 DEF Joined
  <1> HIDE DEF g
  <1>12. Len(g) = 1 + 2 * Len(data)
    BY <1>6, <1>7, <1>8, <1>11
  <1>13. Joined(Int, g, e)
    BY <1>9, <1>11, Behind
  <1>14. /\ s \in Seq(Int) /\ Len(s) = Len(g) + Len(e)
         /\ \A i \in 1 .. Len(g) : s[i] = g[i]
         /\ \A i \in 1 .. Len(e) : s[Len(g) + i] = e[i]
    <2>1. s = g \o e
      BY <1>3 DEF g
    <2> QED
      BY <1>13, <2>1 DEF Joined
  <1>15. Len(s) = 2 * Len(data) + 3
    BY <1>6, <1>9, <1>12, <1>14
  <1>16. s[1] = 58
    <2>1. 1 \in 1 .. Len(a) /\ 1 \in 1 .. Len(g)
      BY <1>6, <1>8, <1>12
    <2> QED
      BY <1>8, <1>11, <1>14, <2>1, Zenon
  <1>17. ASSUME NEW i \in 1 .. 2 * Len(data)
         PROVE  s[1 + i] = h[i]
    <2>1. 1 + i \in 1 .. Len(g) /\ i \in 1 .. Len(h)
      BY <1>6, <1>7, <1>12
    <2>2. s[1 + i] = g[1 + i]
      BY <1>14, <2>1, Zenon
    <2>3. g[Len(a) + i] = h[i]
      BY <1>11, <2>1, Zenon
    <2> QED
      BY <1>8, <2>2, <2>3, Zenon
  <1>18. s[2 * Len(data) + 2] = 13 /\ s[2 * Len(data) + 3] = 10
    <2>1. Len(g) + 1 = 2 * Len(data) + 2 /\ Len(g) + 2 = 2 * Len(data) + 3
      BY <1>6, <1>12
    <2>2. s[Len(g) + 1] = e[1] /\ s[Len(g) + 2] = e[2]
      BY <1>9, <1>14
    <2> QED
      BY <1>9, <2>1, <2>2
  <1> QED
    BY <1>1, <1>5, <1>6, <1>14, <1>15, <1>16, <1>17, <1>18 DEF TextLine

-----------------------------------------------------------------------------
\* What the readers make of any bytes.

LEMMA TrimmedType ==
    ASSUME NEW t \in Seq(Int)
    PROVE  Trimmed(t) \in Seq(Int)
  <1> DEFINE ink == {n \in DOMAIN t : t[n] \notin Spaces}
             from == Min(ink)
             upto == Max(ink)
  <1>1. Len(t) \in Nat /\ DOMAIN t = 1 .. Len(t)
    BY LenProperties
  <1>2. CASE ink = {}
    <2>1. <<>> \in Seq(Int)
      OBVIOUS
    <2> QED
      BY <1>2, <2>1 DEF Trimmed
  <1>3. CASE ink # {}
    <2>1. from \in 1 .. Len(t) /\ upto \in 1 .. Len(t)
      <3>1. ink \in SUBSET (1 .. Len(t))
        BY <1>1
      <3> HIDE DEF ink
      <3> QED
        BY <1>1, <1>3, <3>1, MinMaxFacts
    <2>2. Trimmed(t) = SubSeq(t, from, upto)
      BY <1>3 DEF Trimmed
    <2> HIDE DEF from, upto
    <2>3. \A i \in from .. upto : t[i] \in Int
      <3> TAKE i \in from .. upto
      <3>1. i \in 1 .. Len(t)
        BY <1>1, <2>1
      <3> QED
        BY <3>1, ElementOfSeq
    <2>4. SubSeq(t, from, upto) \in Seq(Int)
      BY <2>1, <2>3, SubSeqProperties
    <2> QED
      BY <2>2, <2>4
  <1> QED
    BY <1>2, <1>3

LEMMA DecodedType ==
    ASSUME NEW t \in Seq(Int)
    PROVE  /\ Decoded(t) \in Seq(Int)
           /\ Len(Decoded(t)) \in Nat
           /\ Len(Decoded(t)) = Len(t) \div 2
           /\ \A n \in 1 .. Len(t) \div 2 :
                 Decoded(t)[n] =
                    16 * DigitValue(t[2 * n - 1]) + DigitValue(t[2 * n])
  <1> DEFINE k == Len(t) \div 2
             Pair(n) == 16 * DigitValue(t[2 * n - 1]) + DigitValue(t[2 * n])
             r == [n \in 1 .. k |-> Pair(n)]
  <1>1. Len(t) \in Nat
    BY LenProperties
  <1>2. k \in Nat /\ 2 * k <= Len(t)
    BY <1>1
  <1>3. Decoded(t) = r
    BY DEF Decoded
  <1>4. ASSUME NEW n \in 1 .. k
        PROVE  Pair(n) \in Int
    <2>1. PICK a, b : a = 2 * n - 1 /\ b = 2 * n
      OBVIOUS
    <2>2. a \in 1 .. Len(t) /\ b \in 1 .. Len(t)
      <3> HIDE DEF k
      <3> QED
        BY <1>1, <1>2, <2>1
    <2>3. t[a] \in Int /\ t[b] \in Int
      BY <2>2, ElementOfSeq
    <2>4. DigitValue(t[a]) \in Int /\ DigitValue(t[b]) \in Int
      BY <2>3, DigitValueType
    <2> QED
      BY <2>1, <2>4
  <1> HIDE DEF k, Pair
  <1>5. r \in [1 .. k -> Int]
    BY <1>4
  <1>6. \A n \in 1 .. k : r[n] = Pair(n)
    OBVIOUS
  <1> HIDE DEF r
  <1>7. r \in Seq(Int) /\ Len(r) = k
    BY <1>2, <1>5, FunctionSeq
  <1> QED
    BY <1>2, <1>3, <1>6, <1>7 DEF k, Pair

LEMMA RTUSizeFacts ==
    ASSUME NEW s \in Seq(Int), Len(s) >= 2
    PROVE  /\ s[2] >= 128 => RTUSize(s) = 5
           /\ s[2] \in 1 .. 4 /\ Len(s) >= 3 => RTUSize(s) = s[3] + 5
           /\ s[2] \in {5, 6, 15, 16} => RTUSize(s) = 8
           /\ RTUSize(s) \in Int
  <1>0. PICK c : c = s[2]
    OBVIOUS
  <1>1. c \in Int /\ Len(s) \in Nat
    <2>1. Len(s) \in Nat
      BY LenProperties
    <2>2. 2 \in 1 .. Len(s)
      BY <2>1
    <2> QED
      BY <1>0, <2>1, <2>2, ElementOfSeq
  <1>2. CASE c >= 128
    <2>1. c \notin 1 .. 4 /\ c \notin {5, 6, 15, 16}
      BY <1>1, <1>2
    <2>2. RTUSize(s) = 5
      BY <1>0, <1>2, <2>1, Zenon DEF RTUSize
    <2> QED
      BY <1>0, <2>1, <2>2
  <1>3. CASE c \in 1 .. 4
    <2>1. ~ (c >= 128) /\ c \notin {5, 6, 15, 16}
      BY <1>1, <1>3
    <2>2. RTUSize(s) = IF Len(s) < 3 THEN 3 ELSE s[3] + 5
      BY <1>0, <1>3, <2>1, Zenon DEF RTUSize
    <2>3. RTUSize(s) \in Int
      <3>1. CASE Len(s) < 3
        BY <2>2, <3>1
      <3>2. CASE ~ (Len(s) < 3)
        <4>1. 3 \in 1 .. Len(s)
          BY <1>1, <3>2
        <4>2. s[3] \in Int
          BY <4>1, ElementOfSeq
        <4> QED
          BY <2>2, <3>2, <4>2
      <3> QED
        BY <3>1, <3>2
    <2>4. Len(s) >= 3 => RTUSize(s) = s[3] + 5
      BY <1>1, <2>2
    <2> QED
      BY <1>0, <2>1, <2>3, <2>4
  <1>4. CASE c \in {5, 6, 15, 16}
    <2>1. ~ (c >= 128) /\ c \notin 1 .. 4
      BY <1>4
    <2>2. RTUSize(s) = 8
      BY <1>0, <1>4, <2>1, Zenon DEF RTUSize
    <2> QED
      BY <1>0, <2>1, <2>2
  <1>5. CASE ~ (c >= 128) /\ c \notin 1 .. 4 /\ c \notin {5, 6, 15, 16}
    <2>1. RTUSize(s) = 2
      BY <1>0, <1>5, Zenon DEF RTUSize
    <2> QED
      BY <1>0, <1>5, <2>1
  <1> QED
    BY <1>2, <1>3, <1>4, <1>5

\* Whatever a reader takes for a PDU is a sequence of numbers.
LEMMA TakenType ==
    ASSUME NEW mode \in ThreeModes, NEW s \in Seq(Int),
           NEW f, f = ReadFrame(mode, s), f.end = "pdu"
    PROVE  f.pdu \in Seq(Int)
  <1>1. ASSUME NEW p, NEW used, f = Sound(p, s, used)
        PROVE  f.pdu = p
    BY <1>1 DEF Sound, Bad, Got
  <1>2. f # Waits /\ \A used : f # Bad(s, used)
    BY DEF Waits, Bad
  <1>3. Len(s) \in Nat
    BY LenProperties
  <1>4. CASE mode = "modeTCP"
    <2>0. f = ReadTCP(s)
      BY <1>4, Zenon DEF ReadFrame
    <2> DEFINE body == 256 * s[5] + s[6] - 1
    <2>1. /\ ~ (Len(s) < 7) /\ ~ (Len(s) < 7 + body)
          /\ f = Sound(SubSeq(s, 8, 7 + body), s, 7 + body)
      BY <1>2, <2>0, Zenon DEF ReadTCP
    <2>2. s[5] \in Int /\ s[6] \in Int
      <3>1. 5 \in 1 .. Len(s) /\ 6 \in 1 .. Len(s)
        BY <1>3, <2>1
      <3> QED
        BY <3>1, ElementOfSeq
    <2>3. body \in Int
      BY <2>2
    <2> HIDE DEF body
    <2>4. \A i \in 8 .. 7 + body : s[i] \in Int
      <3> TAKE i \in 8 .. 7 + body
      <3>1. i \in 1 .. Len(s)
        BY <1>3, <2>1, <2>3
      <3> QED
        BY <3>1, ElementOfSeq
    <2>5. SubSeq(s, 8, 7 + body) \in Seq(Int)
      <3>1. 8 \in Int /\ 7 + body \in Int
        BY <2>3
      <3> QED
        BY <2>4, <3>1, SubSeqProperties
    <2> QED
      BY <1>1, <2>1, <2>5
  <1>5. CASE mode = "modeRTU"
    <2>0. f = ReadRTU(s)
      BY <1>5, Zenon DEF ReadFrame
    <2> DEFINE size == RTUSize(s)
    <2>1. /\ ~ (Len(s) < 2) /\ ~ (Len(s) < size)
          /\ f = Sound(SubSeq(s, 2, size - 2), s, size)
      BY <1>2, <2>0, Zenon DEF ReadRTU
    <2>2. size \in Int
      BY <1>3, <2>1, RTUSizeFacts
    <2> HIDE DEF size
    <2>3. \A i \in 2 .. size - 2 : s[i] \in Int
      <3> TAKE i \in 2 .. size - 2
      <3>1. i \in 1 .. Len(s)
        BY <1>3, <2>1, <2>2
      <3> QED
        BY <3>1, ElementOfSeq
    <2>4. SubSeq(s, 2, size - 2) \in Seq(Int)
      <3>1. 2 \in Int /\ size - 2 \in Int
        BY <2>2
      <3> QED
        BY <2>3, <3>1, SubSeqProperties
    <2> QED
      BY <1>1, <2>1, <2>4
  <1>6. CASE mode = "modeASCII"
    <2>0. f = ReadASCII(s)
      BY <1>6, Zenon DEF ReadFrame
    <2> DEFINE ends == {n \in DOMAIN s : s[n] = LF}
               used == Min(ends)
               line1 == SubSeq(s, 2, used)
               text == Trimmed(line1)
               raw == Decoded(text)
               last == Len(raw)
    <2>1. /\ LF \in ToSet(s)
          /\ f = Sound(SubSeq(raw, 2, last - 1), s, used)
      BY <1>2, <2>0, Zenon DEF ReadASCII
    <2>2. used \in 1 .. Len(s)
      <3>1. DOMAIN s = 1 .. Len(s)
        BY LenProperties
      <3>2. ends \in SUBSET (1 .. Len(s))
        BY <3>1
      <3>3. ends # {}
        BY <2>1 DEF ToSet
      <3> HIDE DEF ends
      <3> QED
        BY <1>3, <3>2, <3>3, MinMaxFacts
    <2> HIDE DEF used
    <2>3. line1 \in Seq(Int)
      <3>1. \A i \in 2 .. used : s[i] \in Int
        <4> TAKE i \in 2 .. used
        <4>1. i \in 1 .. Len(s)
          BY <1>3, <2>2
        <4> QED
          BY <4>1, ElementOfSeq
      <3>2. 2 \in Int /\ used \in Int
        BY <2>2
      <3> QED
        BY <3>1, <3>2, SubSeqProperties
    <2> HIDE DEF line1
    <2>4. text \in Seq(Int)
      BY <2>3, TrimmedType
    <2> HIDE DEF text
    <2>5. raw \in Seq(Int) /\ last \in Nat
      BY <2>4, DecodedType
    <2>6. SubSeq(raw, 2, last - 1) \in Seq(Int)
      <3> HIDE DEF raw
      <3>1. \A i \in 2 .. last - 1 : raw[i] \in Int
        <4> TAKE i \in 2 .. last - 1
        <4>1. i \in 1 .. Len(raw)
          BY <2>5
        <4> QED
          BY <2>5, <4>1, ElementOfSeq
      <3>2. 2 \in Int /\ last - 1 \in Int
        BY <2>5
      <3> QED
        BY <3>1, <3>2, SubSeqProperties
    <2> QED
      BY <1>1, <2>1, <2>6
  <1> QED
    BY <1>4, <1>5, <1>6 DEF ThreeModes

-----------------------------------------------------------------------------
\* What the readers make of the frame of an answer.

LEMMA WholeTCP ==
    ASSUME ConstantTypes, NEW p \in Seq(Byte), Len(p) >= 1,
           NEW s, s = Framed("modeTCP", p)
    PROVE  ReadTCP(s) = Sound(p, s, Len(s))
  <1> DEFINE body == 256 * s[5] + s[6] - 1
  <1>1. /\ s \in Seq(Int) /\ Len(s) = 7 + Len(p)
        /\ s[1] = 0 /\ s[2] = 1 /\ 256 * s[5] + s[6] = Len(p) + 1 /\ s[7] = Unit
        /\ \A i \in 1 .. Len(p) : s[7 + i] = p[i]
    <2>1. TCPLine(s, p)
      BY TCPFrame
    <2> QED
      BY <2>1 DEF TCPLine
  <1>2. p \in Seq(Int) /\ Len(p) \in Nat
    BY ByteSeq, LenProperties
  <1>n. Len(p) \in Nat
    BY <1>2, Zenon
  <1>3. body = Len(p)
    <2>1. PICK high \in Int, low \in Int : high = s[5] /\ low = s[6]
      <3>1. Len(s) = 7 + Len(p)
        BY <1>1, Zenon
      <3>2. 5 \in 1 .. Len(s) /\ 6 \in 1 .. Len(s)
        BY <1>n, <3>1
      <3> QED
        BY <1>1, <3>2, ElementOfSeq
    <2>2. 256 * high + low = Len(p) + 1 /\ body = 256 * high + low - 1
      BY <1>1, <2>1, Zenon
    <2> QED
      BY <1>n, <2>2
  <1>4. SubSeq(s, 1, 2) = TransID
    <2> DEFINE t == TransID
    <2>1. t \in Seq(Int) /\ Len(t) = 2 /\ t[1] = 0 /\ t[2] = 1
      BY DEF TransID
    <2> HIDE DEF t
    <2>2. PICK a, m : a = 1 /\ m = 2
      OBVIOUS
    <2>3. StandsAt(s, a, t)
      <3> SUFFICES ASSUME NEW i \in 1 .. Len(t)
                   PROVE  s[a + i - 1] = t[i]
        BY DEF StandsAt
      <3>1. i = 1 \/ i = 2
        BY <2>1
      <3>2. a + i - 1 = i
        BY <2>2
      <3> QED
        BY <1>1, <2>1, <3>1, <3>2
    <2>4. t \in Seq(Int) /\ a \in Int /\ m \in Int /\ Len(t) = m - a + 1
      BY <2>1, <2>2
    <2>5. SubSeq(s, a, m) = t
      BY <2>3, <2>4, PartIs, Zenon
    <2> QED
      BY <2>2, <2>5, Zenon DEF t
  <1> HIDE DEF body
  <1>5. SubSeq(s, 8, 7 + body) = p
    <2>1. PICK a, m : a = 8 /\ m = 7 + body
      OBVIOUS
    <2>2. StandsAt(s, a, p)
      <3> SUFFICES ASSUME NEW i \in 1 .. Len(p)
                   PROVE  s[a + i - 1] = p[i]
        BY DEF StandsAt
      <3>1. a + i - 1 = 7 + i
        BY <2>1
      <3> QED
        BY <1>1, <3>1, Zenon
    <2>3. Len(p) = m - a + 1 /\ a \in Int /\ m \in Int
      BY <1>n, <1>3, <2>1
    <2>4. p \in Seq(Int)
      BY <1>2, Zenon
    <2>5. SubSeq(s, a, m) = p
      BY <2>2, <2>3, <2>4, PartIs, Zenon
    <2> QED
      BY <2>1, <2>5, Zenon
  <1>6. ~ (Len(s) < 7) /\ ~ (body <= 0) /\ ~ (Len(s) < 7 + body) /\ 7 + body = Len(s)
    <2>1. Len(s) = 7 + Len(p)
      BY <1>1, Zenon
    <2> QED
      BY <1>n, <1>3, <2>1
  <1>7. ReadTCP(s) = Sound(SubSeq(s, 8, 7 + body), s, 7 + body)
    BY <1>1, <1>4, <1>6, Zenon DEF ReadTCP, body
  <1> QED
    BY <1>5, <1>6, <1>7, Zenon

LEMMA WholeRTU ==
    ASSUME ConstantTypes, ChecksumsFit, NEW p \in Seq(Byte), Len(p) >= 1,
           NEW s, s = Framed("modeRTU", p), RTUSize(s) = Len(s)
    PROVE  ReadRTU(s) = Sound(p, s, Len(s))
  <1> DEFINE n == Len(p)
             size == Len(s)
  <1>1. /\ s \in Seq(Int) /\ n \in Nat /\ size = 3 + n
        /\ s[1] = Unit
        /\ \A i \in 1 .. n : s[1 + i] = p[i]
        /\ SubSeq(s, 1, 1 + n) = Body(p)
        /\ s[2 + n] + 256 * s[3 + n] = CRC(Body(p))
    <2>1. RTULine(s, p)
      BY RTUFrame
    <2> QED
      BY <2>1 DEF RTULine
  <1>2. p \in Seq(Int)
    BY ByteSeq, Zenon
  <1>3. SubSeq(s, 2, 1 + n) = p
    <2>1. PICK a, m : a = 2 /\ m = 1 + n
      OBVIOUS
    <2>2. StandsAt(s, a, p)
      <3> SUFFICES ASSUME NEW i \in 1 .. Len(p)
                   PROVE  s[a + i - 1] = p[i]
        BY DEF StandsAt
      <3>1. a + i - 1 = 1 + i
        BY <2>1
      <3> QED
        BY <1>1, <3>1, Zenon
    <2>3. n \in Nat
      BY <1>1, Zenon
    <2>4. Len(p) = m - a + 1 /\ a \in Int /\ m \in Int
      BY <2>1, <2>3
    <2>5. SubSeq(s, a, m) = p
      BY <1>2, <2>2, <2>4, PartIs, Zenon
    <2> QED
      BY <2>1, <2>5, Zenon
  <1>4. /\ ~ (size < 2) /\ ~ (size < size) /\ ~ (size < 4)
        /\ size - 2 = 1 + n /\ size - 1 = 2 + n
    <2> HIDE DEF size
    <2> QED
      BY <1>1
  <1>5. CRC(SubSeq(s, 1, size - 2)) = s[size - 1] + 256 * s[size]
    BY <1>1, <1>4, Zenon
  <1>6. ReadRTU(s) = Sound(SubSeq(s, 2, size - 2), s, size)
    BY <1>1, <1>4, <1>5, Zenon DEF ReadRTU
  <1> QED
    BY <1>3, <1>4, <1>6, Zenon

\* The carriage return and the line feed are cut off, and no digit.
LEMMA RangeEnds ==
    ASSUME NEW n \in Nat, n >= 1
    PROVE  1 \in 1 .. n /\ n \in 1 .. n
OBVIOUS

LEMMA NoSpace ==
    ASSUME NEW c \in 48 .. 70
    PROVE  c \notin Spaces /\ c # LF /\ c # 10
BY DEF Spaces, LF

LEMMA TrimmedWhole ==
    ASSUME NEW t \in Seq(Int), NEW n \in Nat, n >= 1, Len(t) = n + 2,
           \A i \in 1 .. n : t[i] \in 48 .. 70,
           t[n + 1] = 13, t[n + 2] = 10
    PROVE  Trimmed(t) = SubSeq(t, 1, n)
  <1> DEFINE ink == {i \in DOMAIN t : t[i] \notin Spaces}
  <1>1. DOMAIN t = 1 .. n + 2
    BY LenProperties
  <1>2. ink = 1 .. n
    <2>1. ASSUME NEW i \in 1 .. n
          PROVE  i \in ink
      <3>1. t[i] \notin Spaces
        BY NoSpace, Zenon
      <3>2. i \in DOMAIN t
        BY <1>1
      <3> QED
        BY <3>1, <3>2, Zenon
    <2>2. ASSUME NEW i \in ink
          PROVE  i \in 1 .. n
      <3>1. i \in 1 .. n + 2 /\ t[i] \notin Spaces
        BY <1>1
      <3>2. i # n + 1 /\ i # n + 2
        BY <3>1 DEF Spaces
      <3> QED
        BY <3>1, <3>2
    <2> HIDE DEF ink
    <2> QED
      BY <2>1, <2>2
  <1> HIDE DEF ink
  <1>3. ink # {} /\ 1 \in ink /\ n \in ink
    BY <1>2, RangeEnds, Zenon
  <1>4. /\ Min(ink) \in ink
        /\ \A i \in ink : Min(ink) <= i
        /\ Max(ink) \in ink
        /\ \A i \in ink : i <= Max(ink)
    BY <1>2, <1>3, MinMaxFacts
  <1>5. Min(ink) = 1 /\ Max(ink) = n
    BY <1>2, <1>3, <1>4
  <1> QED
    BY <1>3, <1>5, Zenon DEF Trimmed, ink

LEMMA WholeASCII ==
    ASSUME ConstantTypes, ChecksumsFit, NEW p \in Seq(Byte), Len(p) >= 1,
           NEW s, s = Framed("modeASCII", p)
    PROVE  ReadASCII(s) = Sound(p, s, Len(s))
  <1>d. PICK data : data = Append(Body(p), LRC(Body(p)))
    OBVIOUS
  <1>h. PICK h : h = HexOf(data)
    OBVIOUS
  <1> DEFINE D == Len(data)
             ends == {n \in DOMAIN s : s[n] = LF}
             used == Min(ends)
             line1 == SubSeq(s, 2, used)
             text == Trimmed(line1)
             raw == Decoded(text)
             last == Len(raw)
  <1>1. /\ data \in Seq(Byte) /\ Len(p) \in Nat /\ D = 2 + Len(p)
        /\ s \in Seq(Int) /\ Len(s) = 2 * D + 3
        /\ s[1] = 58
        /\ \A i \in 1 .. 2 * D : s[1 + i] = h[i]
        /\ s[2 * D + 2] = 13 /\ s[2 * D + 3] = 10
    <2>1. TextLine(s, p, data, h)
      BY <1>d, <1>h, ASCIIFrame
    <2> QED
      BY <2>1 DEF TextLine
  <1>a. D \in Nat /\ Len(s) = 2 * D + 3
    <2>1. Len(p) \in Nat /\ D = 2 + Len(p)
      BY <1>1, Zenon
    <2>2. D \in Nat
      BY <2>1
    <2> QED
      BY <1>1, <2>2, Zenon
  <1>2. /\ h \in Seq(Int) /\ Len(h) = 2 * D
        /\ \A i \in 1 .. Len(h) : h[i] \in 48 .. 70 /\ DigitValue(h[i]) \in 0 .. 15
        /\ \A n \in 1 .. D :
              16 * DigitValue(h[2 * n - 1]) + DigitValue(h[2 * n]) = data[n]
    <2>1. data \in Seq(Byte)
      BY <1>1
    <2> QED
      BY <1>h, <2>1, HexFacts
  <1>3. /\ Len(Body(p)) = 1 + Len(p) /\ Body(p) \in Seq(Byte) /\ Body(p)[1] = Unit
        /\ \A i \in 1 .. Len(p) : Body(p)[1 + i] = p[i]
    BY BodyFacts
  <1>4. /\ \A i \in 1 .. Len(Body(p)) : data[i] = Body(p)[i]
        /\ data[Len(Body(p)) + 1] = LRC(Body(p))
    <2>1. LRC(Body(p)) \in Byte
      BY <1>3 DEF ChecksumsFit
    <2> QED
      BY <1>3, <1>d, <2>1, AppendProperties
  <1>5. DOMAIN s = 1 .. Len(s)
    BY <1>1, LenProperties
  <1>6. used = Len(s)
    <2>1. Len(s) \in ends
      BY <1>1, <1>5 DEF LF
    <2>2. ASSUME NEW i \in ends
          PROVE  i = Len(s)
      <3>1. i \in 1 .. 2 * D + 3 /\ s[i] = 10
        BY <1>1, <1>5 DEF LF
      <3>2. ASSUME i \in 2 .. 2 * D + 1
            PROVE  FALSE
        <4>1. PICK j \in Int : j = i - 1
          BY <3>2
        <4>2. j \in 1 .. 2 * D /\ i = 1 + j
          BY <3>2, <4>1
        <4>3. s[i] = h[j] /\ h[j] \in 48 .. 70
          BY <1>1, <1>2, <4>2
        <4> QED
          BY <3>1, <4>3, NoSpace, Zenon
      <3>3. i # 1 /\ i # 2 * D + 2
        BY <1>1, <3>1
      <3>4. i \in 1 .. 2 * D + 3
        BY <3>1, Zenon
      <3>5. i = 2 * D + 3
        BY <1>a, <3>2, <3>3, <3>4
      <3> QED
        BY <1>a, <3>5, Zenon
    <2>3. ends \in SUBSET (1 .. Len(s)) /\ ends # {}
      BY <1>5, <2>1
    <2> HIDE DEF ends
    <2>4. Min(ends) \in ends
      <3>1. Len(s) \in Nat
        BY <1>1
      <3> QED
        BY <2>3, <3>1, MinMaxFacts
    <2> QED
      BY <2>2, <2>4
  <1>7. LF \in ToSet(s)
    <2>1. 2 * D + 3 \in DOMAIN s
      BY <1>1, <1>5
    <2>2. s[2 * D + 3] = LF
      BY <1>1 DEF LF
    <2> QED
      BY <2>1, <2>2, Zenon DEF ToSet
  <1> HIDE DEF used
  <1>8. /\ line1 \in Seq(Int) /\ Len(line1) = 2 * D + 2
        /\ \A i \in 1 .. 2 * D + 2 : line1[i] = s[2 + i - 1]
    <2>1. \A i \in 2 .. used : s[i] \in Int
      BY <1>1, <1>6, ElementOfSeq
    <2>2. 2 \in Int /\ used \in Int /\ used = 2 * D + 3 /\ D \in Nat
      BY <1>1, <1>6
    <2>3. /\ line1 \in Seq(Int)
          /\ Len(line1) = IF 2 <= used THEN used - 2 + 1 ELSE 0
          /\ \A i \in 1 .. used - 2 + 1 : line1[i] = s[2 + i - 1]
      BY <2>1, <2>2, SubSeqProperties
    <2>4. used - 2 + 1 = 2 * D + 2 /\ 2 <= used
      BY <2>2
    <2> QED
      BY <2>3, <2>4
  <1> HIDE DEF line1
  <1>9. /\ \A i \in 1 .. 2 * D : line1[i] = h[i]
        /\ line1[2 * D + 1] = 13 /\ line1[2 * D + 2] = 10
    <2>1. ASSUME NEW i \in 1 .. 2 * D
          PROVE  line1[i] = h[i]
      <3>1. i \in 1 .. 2 * D + 2
        BY <1>a
      <3>2. 2 + i - 1 = 1 + i
        OBVIOUS
      <3>3. line1[i] = s[2 + i - 1]
        BY <1>8, <3>1, Zenon
      <3>4. s[1 + i] = h[i]
        BY <1>1, Zenon
      <3> QED
        BY <3>2, <3>3, <3>4, Zenon
    <2>2. /\ 2 * D + 1 \in 1 .. 2 * D + 2 /\ 2 + (2 * D + 1) - 1 = 2 * D + 2
          /\ 2 * D + 2 \in 1 .. 2 * D + 2 /\ 2 + (2 * D + 2) - 1 = 2 * D + 3
      BY <1>1
    <2>3. line1[2 * D + 1] = s[2 * D + 2] /\ line1[2 * D + 2] = s[2 * D + 3]
      BY <1>8, <2>2
    <2> QED
      BY <1>1, <2>1, <2>3
  <1>10. text = h
    <2> DEFINE k == 2 * D
    <2>1. k \in Nat /\ k >= 1 /\ Len(line1) = k + 2
      <3>1. Len(p) \in Nat /\ D = 2 + Len(p)
        BY <1>1, Zenon
      <3>2. k \in Nat /\ k >= 1
        BY <3>1
      <3> QED
        BY <1>8, <3>2, Zenon
    <2>2. \A i \in 1 .. k : line1[i] \in 48 .. 70
      BY <1>2, <1>9
    <2>3. line1[k + 1] = 13 /\ line1[k + 2] = 10
      BY <1>9
    <2>4. \A i \in 1 .. k : line1[i] = h[i]
      BY <1>9
    <2>5. Len(h) = k
      BY <1>2
    <2> HIDE DEF k
    <2>6. text = SubSeq(line1, 1, k)
      BY <1>8, <2>1, <2>2, <2>3, TrimmedWhole
    <2>7. SubSeq(line1, 1, k) = h
      <3>1. PICK a : a = 1
        OBVIOUS
      <3>2. StandsAt(line1, a, h)
        <4> SUFFICES ASSUME NEW i \in 1 .. Len(h)
                     PROVE  line1[a + i - 1] = h[i]
          BY DEF StandsAt
        <4>1. a + i - 1 = i
          BY <3>1
        <4> QED
          BY <2>4, <2>5, <4>1, Zenon
      <3>3. Len(h) = k - a + 1 /\ a \in Int /\ k \in Int
        BY <2>1, <2>5, <3>1
      <3>4. h \in Seq(Int)
        BY <1>2, Zenon
      <3>5. SubSeq(line1, a, k) = h
        BY <3>2, <3>3, <3>4, PartIs, Zenon
      <3> QED
        BY <3>1, <3>5, Zenon
    <2> QED
      BY <2>6, <2>7
  <1> HIDE DEF text
  <1>11. raw = data
    <2> DEFINE e == Len(h) \div 2
    <2>1. /\ raw \in Seq(Int) /\ Len(raw) = e
          /\ \A n \in 1 .. e :
                raw[n] = 16 * DigitValue(h[2 * n - 1]) + DigitValue(h[2 * n])
      BY <1>2, <1>10, DecodedType
    <2>2. e = D
      BY <1>1, <1>2
    <2> HIDE DEF raw, e
    <2>3. \A n \in 1 .. D : raw[n] = data[n]
      BY <1>2, <2>1, <2>2
    <2>4. data \in Seq(Int)
      BY <1>1, ByteSeq
    <2>5. Len(raw) = D
      BY <2>1, <2>2
    <2> QED
      BY <2>1, <2>3, <2>4, <2>5, SeqEqual
  <1> HIDE DEF raw
  <1>12. last = 2 + Len(p)
    BY <1>1, <1>11
  <1>13. SubSeq(raw, 1, last - 1) = Body(p)
    <2> DEFINE t == Body(p)
    <2>1. t \in Seq(Int)
      BY <1>3, ByteSeq, Zenon
    <2>2. PICK a, m : a = 1 /\ m = last - 1
      OBVIOUS
    <2>3. StandsAt(raw, a, t)
      <3> SUFFICES ASSUME NEW i \in 1 .. Len(t)
                   PROVE  raw[a + i - 1] = t[i]
        BY DEF StandsAt
      <3>1. a + i - 1 = i
        BY <2>2
      <3> QED
        BY <1>4, <1>11, <3>1, Zenon
    <2>4. Len(t) = m - a + 1 /\ a \in Int /\ m \in Int
      <3>1. Len(p) \in Nat /\ Len(t) = 1 + Len(p)
        BY <1>1, <1>3, Zenon
      <3>2. m = 2 + Len(p) - 1 /\ a = 1
        <4>1. PICK e : e = last
          OBVIOUS
        <4>2. e = 2 + Len(p)
          BY <1>12, <4>1
        <4>3. m = e - 1 /\ a = 1
          BY <2>2, <4>1
        <4> QED
          BY <4>2, <4>3
      <3>3. PICK k \in Nat : k = Len(p)
        BY <3>1
      <3> HIDE DEF t
      <3>4. m = 2 + k - 1 /\ Len(t) = 1 + k
        BY <3>1, <3>2, <3>3, Zenon
      <3>5. 1 + k = (2 + k - 1) - 1 + 1 /\ 2 + k - 1 \in Int
        OBVIOUS
      <3>6. a \in Int
        BY <3>2
      <3> QED
        BY <3>2, <3>4, <3>5, <3>6, Zenon
    <2> HIDE DEF t, last
    <2>5. SubSeq(raw, a, m) = t
      BY <2>1, <2>3, <2>4, PartIs, Zenon
    <2> QED
      BY <2>2, <2>5, Zenon DEF t
  <1>14. SubSeq(raw, 2, last - 1) = p
    <2>1. p \in Seq(Int)
      BY ByteSeq, Zenon
    <2>2. PICK a, m : a = 2 /\ m = last - 1
      OBVIOUS
    <2>3. StandsAt(raw, a, p)
      <3> SUFFICES ASSUME NEW i \in 1 .. Len(p)
                   PROVE  raw[a + i - 1] = p[i]
        BY DEF StandsAt
      <3>0. Len(p) \in Nat /\ Len(Body(p)) = 1 + Len(p)
        BY <1>1, <1>3, Zenon
      <3>1. a + i - 1 = 1 + i /\ 1 + i \in 1 .. Len(Body(p))
        BY <2>2, <3>0
      <3> QED
        BY <1>3, <1>4, <1>11, <3>1, Zenon
    <2>4. Len(p) = m - a + 1 /\ a \in Int /\ m \in Int
      <3>1. Len(p) \in Nat
        BY <1>1, Zenon
      <3>2. m = 2 + Len(p) - 1 /\ a = 2
        <4>1. PICK e : e = last
          OBVIOUS
        <4>2. e = 2 + Len(p)
          BY <1>12, <4>1
        <4>3. m = e - 1 /\ a = 2
          BY <2>2, <4>1
        <4> QED
          BY <4>2, <4>3
      <3>3. PICK k \in Nat : k = Len(p)
        BY <3>1
      <3>4. m = 2 + k - 1 /\ Len(p) = k
        BY <3>2, <3>3, Zenon
      <3>5. k = (2 + k - 1) - 2 + 1 /\ 2 + k - 1 \in Int
        OBVIOUS
      <3>6. a \in Int
        BY <3>2
      <3> QED
        BY <3>2, <3>4, <3>5, <3>6, Zenon
    <2> HIDE DEF last
    <2>5. SubSeq(raw, a, m) = p
      BY <2>1, <2>3, <2>4, PartIs, Zenon
    <2> QED
      BY <2>2, <2>5, Zenon
  <1>15. raw[1] = Unit /\ raw[last] = LRC(Body(p))
    <2>1. 1 \in 1 .. Len(Body(p)) /\ last = Len(Body(p)) + 1
      BY <1>1, <1>3, <1>12
    <2> QED
      BY <1>3, <1>4, <1>11, <2>1
  <1>16. ~ (last < 3)
    BY <1>1, <1>12
  <1>17. Len(text) % 2 = 0
    <2>1. Len(text) = 2 * D
      BY <1>2, <1>10, Zenon
    <2>2. (2 * D) % 2 = 0
      BY <1>a
    <2> QED
      BY <2>1, <2>2, Zenon
  <1>18. ~ \E n \in DOMAIN text : DigitValue(text[n]) > 15
    <2>1. DOMAIN text = 1 .. Len(h)
      BY <1>2, <1>10, LenProperties
    <2>2. \A n \in 1 .. Len(h) : ~ (DigitValue(h[n]) > 15)
      <3>1. \A d \in 0 .. 15 : ~ (d > 15)
        OBVIOUS
      <3> QED
        BY <1>2, <3>1, Zenon
    <2> QED
      BY <1>10, <2>1, <2>2
  <1> HIDE DEF last
  <1>19. ReadASCII(s) = Sound(SubSeq(raw, 2, last - 1), s, used)
    BY <1>1, <1>7, <1>13, <1>15, <1>16, <1>17, <1>18, Zenon
       DEF ReadASCII, used, line1, text, raw, last
  <1> QED
    BY <1>6, <1>14, <1>19, Zenon

LEMMA FramedType ==
    ASSUME ConstantTypes, ChecksumsFit, NEW mode \in ThreeModes,
           NEW p \in Seq(Byte)
    PROVE  Framed(mode, p) \in Seq(Int)
  <1>1. PICK s : s = Framed(mode, p)
    OBVIOUS
  <1>2. CASE mode = "modeTCP"
    <2>1. TCPLine(s, p)
      BY <1>1, <1>2, TCPFrame
    <2> QED
      BY <1>1, <2>1 DEF TCPLine
  <1>3. CASE mode = "modeRTU"
    <2>1. RTULine(s, p)
      BY <1>1, <1>3, RTUFrame
    <2> QED
      BY <1>1, <2>1 DEF RTULine
  <1>4. CASE mode = "modeASCII"
    <2>1. PICK data, h : data = Append(Body(p), LRC(Body(p))) /\ h = HexOf(data)
      OBVIOUS
    <2>2. TextLine(s, p, data, h)
      BY <1>1, <1>4, <2>1, ASCIIFrame
    <2> QED
      BY <1>1, <2>2 DEF TextLine
  <1> QED
    BY <1>2, <1>3, <1>4 DEF ThreeModes

\* A read within the limit of the protocol: its byte count is the true one.
LEMMA ShortCount ==
    ASSUME ConstantTypes, ShortReads, NEW q \in Asks, ~ Local(q), q.fc = 3
    PROVE  /\ Registers(q) \in 0 .. 127
           /\ (2 * Registers(q)) % 256 = 2 * Registers(q)
  <1>1. q.n \in ReadLengths
    <2>1. ASSUME q \in [mode : Modes, fc : {3}, n : ReadLengths, addr : {<<0, 0>>}]
          PROVE  q.n \in ReadLengths
      BY <2>1
    <2>2. ASSUME q \in [mode : Modes, fc : {5}, n : {1}, addr : Addresses]
          PROVE  FALSE
      BY <2>2
    <2>3. ASSUME q \in [mode : Modes, fc : {16}, n : WriteCounts, addr : Addresses]
          PROVE  FALSE
      BY <2>3
    <2> QED
      BY <2>1, <2>2, <2>3, Zenon DEF Asks
  <1>2. PICK n \in Int : n = q.n
    BY AskFacts, Zenon
  <1>3. n > 0
    <2>1. ~ (n <= 0)
      BY <1>2, Zenon DEF Local
    <2> QED
      BY <2>1
  <1>4. PICK c : c = RegisterCount(n)
    OBVIOUS
  <1>5. c <= 127 /\ c \in Uint16
    BY <1>1, <1>2, <1>3, <1>4, CountFacts, Zenon DEF ShortReads
  <1>6. c \in 0 .. 127 /\ (2 * c) % 256 = 2 * c
    <2>1. c \in Int /\ 0 <= c
      BY <1>5 DEF Uint16
    <2>2. c <= 127
      BY <1>5, Zenon
    <2> QED
      BY <2>1, <2>2
  <1>7. Registers(q) = c
    BY <1>2, <1>4, Zenon DEF Registers
  <1> QED
    BY <1>6, <1>7, Zenon

\* What an answer looks like when its byte count is the true one.
Regular(q, p) ==
    \/ p[1] >= 128 /\ Len(p) = 2
    \/ /\ q.fc = 3 /\ p[1] = 3 /\ Len(p) >= 2
       /\ p[2] = 2 * Registers(q) /\ Len(p) = p[2] + 2
    \/ q.fc \in {5, 16} /\ p[1] = q.fc /\ Len(p) = 5

LEMMA AnswerRegular ==
    ASSUME ConstantTypes, ShortReads, NEW q \in Asks, ~ Local(q),
           NEW p \in Answers(q)
    PROVE  p \in Seq(Byte) /\ Regular(q, p)
  <1>1. Shaped(q, p)
    BY AnswerFacts
  <1>2. CASE p[1] >= 128 /\ Len(p) = 2
    BY <1>1, <1>2, Zenon DEF Shaped, Regular
  <1>3. CASE q.fc \in {5, 16} /\ p[1] = q.fc /\ Len(p) = 5
    BY <1>1, <1>3, Zenon DEF Shaped, Regular
  <1>4. CASE /\ q.fc = 3 /\ p[1] = 3
             /\ Len(p) = 2 * Registers(q) + 2
             /\ p[2] = (2 * Registers(q)) % 256
    <2>1. PICK R : R = Registers(q)
      OBVIOUS
    <2>2. R \in 0 .. 127 /\ (2 * R) % 256 = 2 * R
      BY <1>4, <2>1, ShortCount
    <2>3. p[2] = 2 * R /\ Len(p) = p[2] + 2
      BY <1>4, <2>1, <2>2, Zenon
    <2>4. 2 * R + 2 >= 2
      BY <2>2
    <2>5. Len(p) >= 2
      BY <2>3, <2>4
    <2> QED
      BY <1>1, <1>4, <2>1, <2>3, <2>5, Zenon DEF Shaped, Regular
  <1> QED
    BY <1>1, <1>2, <1>3, <1>4, Zenon DEF Shaped

\* The RTU reader takes the length of the frame from its second and third byte.
LEMMA RTUSizeWhole ==
    ASSUME ConstantTypes, ChecksumsFit, NEW q, NEW p \in Seq(Byte),
           Regular(q, p), NEW s, s = Framed("modeRTU", p)
    PROVE  RTUSize(s) = Len(s)
  <1>1. /\ s \in Seq(Int) /\ Len(p) \in Nat /\ Len(s) = 3 + Len(p)
        /\ \A i \in 1 .. Len(p) : s[1 + i] = p[i]
    <2>1. RTULine(s, p)
      BY RTUFrame
    <2> QED
      BY <2>1 DEF RTULine
  <1>2. PICK k \in Nat : k = Len(p)
    BY <1>1, Zenon
  <1>3. Len(s) = 3 + k
    BY <1>1, <1>2, Zenon
  <1>4. k >= 1 => s[2] = p[1]
    <2> SUFFICES ASSUME k >= 1
                 PROVE  s[2] = p[1]
      OBVIOUS
    <2>1. 1 \in 1 .. k /\ 1 + 1 = 2
      OBVIOUS
    <2> QED
      BY <1>1, <1>2, <2>1, Zenon
  <1>5. k >= 2 => s[3] = p[2]
    <2> SUFFICES ASSUME k >= 2
                 PROVE  s[3] = p[2]
      OBVIOUS
    <2>1. 2 \in 1 .. k /\ 1 + 2 = 3
      OBVIOUS
    <2> QED
      BY <1>1, <1>2, <2>1, Zenon
  <1>7. CASE p[1] >= 128 /\ Len(p) = 2
    <2>1. k = 2 /\ s[2] >= 128 /\ Len(s) = 5
      BY <1>2, <1>3, <1>4, <1>7
    <2>2. s \in Seq(Int) /\ Len(s) >= 2
      BY <1>1, <2>1
    <2> QED
      BY <2>1, <2>2, RTUSizeFacts, Zenon
  <1>8. CASE /\ q.fc = 3 /\ p[1] = 3 /\ Len(p) >= 2
             /\ p[2] = 2 * Registers(q) /\ Len(p) = p[2] + 2
    <2>0. k >= 2
      BY <1>2, <1>8, Zenon
    <2>1. s[2] = 3 /\ s[3] = p[2]
      BY <1>4, <1>5, <1>8, <2>0
    <2>2. Len(s) >= 2 /\ Len(s) >= 3
      BY <1>3, <2>0
    <2>3. s[2] \in 1 .. 4
      BY <2>1
    <2>4. s \in Seq(Int)
      BY <1>1, Zenon
    <2>5. RTUSize(s) = s[3] + 5
      BY <2>2, <2>3, <2>4, RTUSizeFacts, Zenon
    <2>6. PICK x : x = p[2]
      OBVIOUS
    <2>7. x \in Int
      <3>1. p \in Seq(Int)
        BY ByteSeq, Zenon
      <3>2. 2 \in 1 .. k
        BY <2>0
      <3> QED
        BY <1>2, <2>6, <3>1, <3>2, ElementOfSeq
    <2>8. k = x + 2
      BY <1>2, <1>8, <2>6, Zenon
    <2>9. x + 5 = 3 + k
      BY <2>7, <2>8
    <2> QED
      BY <1>3, <2>1, <2>5, <2>6, <2>9, Zenon
  <1>9. CASE q.fc \in {5, 16} /\ p[1] = q.fc /\ Len(p) = 5
    <2>1. k = 5 /\ s[2] = q.fc
      BY <1>2, <1>4, <1>9
    <2>2. Len(s) = 8 /\ Len(s) >= 2
      BY <1>3, <2>1
    <2>3. s[2] \in {5, 6, 15, 16}
      BY <1>9, <2>1
    <2>4. s \in Seq(Int)
      BY <1>1, Zenon
    <2> QED
      BY <2>2, <2>3, <2>4, RTUSizeFacts, Zenon
  <1> QED
    BY <1>7, <1>8, <1>9, Zenon DEF Regular

\* The frame of an answer is read to its last byte, and the answer is in it.
LEMMA WholeTaken ==
    ASSUME ConstantTypes, ChecksumsFit, NEW mode \in ThreeModes, NEW q,
           NEW p \in Seq(Byte), Regular(q, p),
           NEW s, s = Framed(mode, p)
    PROVE  ReadFrame(mode, s) = Sound(p, s, Len(s))
  <1>1. Len(p) >= 1
    <2>1. PICK k : k = Len(p)
      OBVIOUS
    <2>2. k = 2 \/ k >= 2 \/ k = 5
      BY <2>1, Zenon DEF Regular
    <2>3. k \in Nat
      BY <2>1, LenProperties
    <2>4. k >= 1
      BY <2>2, <2>3
    <2> QED
      BY <2>1, <2>4, Zenon
  <1>2. CASE mode = "modeTCP"
    <2>1. ReadTCP(s) = Sound(p, s, Len(s))
      BY <1>1, <1>2, WholeTCP
    <2> QED
      BY <1>2, <2>1, Zenon DEF ReadFrame
  <1>3. CASE mode = "modeRTU"
    <2>1. RTUSize(s) = Len(s)
      BY <1>3, RTUSizeWhole
    <2>2. ReadRTU(s) = Sound(p, s, Len(s))
      BY <1>1, <1>3, <2>1, WholeRTU
    <2> QED
      BY <1>3, <2>2, Zenon DEF ReadFrame
  <1>4. CASE mode = "modeASCII"
    <2>1. ReadASCII(s) = Sound(p, s, Len(s))
      BY <1>1, <1>4, WholeASCII
    <2> QED
      BY <1>4, <2>1, Zenon DEF ReadFrame
  <1> QED
    BY <1>2, <1>3, <1>4 DEF ThreeModes

\* An answer that is no exception fits the request.
LEMMA RegularFits ==
    ASSUME NEW q, NEW p, Regular(q, p)
    PROVE  Exceptional(p) \/ AnswersAsk(q, p)
  <1>1. CASE p[1] >= 128 /\ Len(p) = 2
    BY <1>1 DEF Exceptional
  <1>2. CASE /\ q.fc = 3 /\ p[1] = 3 /\ Len(p) >= 2
             /\ p[2] = 2 * Registers(q) /\ Len(p) = p[2] + 2
    BY <1>2, Zenon DEF AnswersAsk
  <1>3. CASE q.fc \in {5, 16} /\ p[1] = q.fc /\ Len(p) = 5
    <2>1. q.fc # 3
      BY <1>3
    <2> QED
      BY <1>3, <2>1, Zenon DEF AnswersAsk
  <1> QED
    BY <1>1, <1>2, <1>3, Zenon DEF Regular

\* The string of a PDU that fits has the length asked for.
LEMMA StringTaken ==
    ASSUME ConstantTypes, NEW q \in Asks, ~ Local(q), q.fc = 3,
           q.n <= StringLimit, NEW p \in Seq(Int), AnswersAsk(q, p)
    PROVE  Len(StringOf(q, p)) = q.n
  <1>1. PICK n \in Int : n = q.n
    BY AskFacts, Zenon
  <1>2. n > 0 /\ n >= 1
    <2>1. ~ (n <= 0)
      BY <1>1, Zenon DEF Local
    <2> QED
      BY <2>1
  <1>3. PICK c : c = RegisterCount(n)
    OBVIOUS
  <1>4. c \in Uint16 /\ 2 * c >= n
    <2>1. 0 < n
      BY <1>2
    <2>2. n <= StringLimit
      BY <1>1, Zenon
    <2> QED
      BY <1>3, <2>1, <2>2, CountFacts, Zenon
  <1>5. c \in Nat
    BY <1>4 DEF Uint16
  <1>6. PICK k : k = Len(p)
    OBVIOUS
  <1>7. k = 2 * c + 2
    <2>1. Registers(q) = c
      BY <1>1, <1>3, Zenon DEF Registers
    <2> QED
      BY <1>6, <2>1, Zenon DEF AnswersAsk
  <1>8. k \in Nat /\ n + 2 <= k /\ 3 <= n + 2
    BY <1>2, <1>4, <1>5, <1>7
  <1> DEFINE S == {k, n + 2}
             m == Min(S)
  <1>9. m = n + 2
    <2>1. S \in SUBSET (1 .. k) /\ S # {}
      BY <1>8
    <2>2. k \in S /\ n + 2 \in S
      OBVIOUS
    <2>3. \A i \in S : i = k \/ i = n + 2
      OBVIOUS
    <2> HIDE DEF S
    <2>4. m \in S /\ \A i \in S : m <= i
      BY <1>8, <2>1, MinMaxFacts
    <2> HIDE DEF m
    <2> QED
      BY <1>8, <2>2, <2>3, <2>4
  <1>10. StringOf(q, p) = SubSeq(p, 3, n + 2)
    BY <1>1, <1>6, <1>9, Zenon DEF StringOf
  <1>11. \A i \in 3 .. n + 2 : p[i] \in Int
    <2> TAKE i \in 3 .. n + 2
    <2>1. i \in 1 .. Len(p)
      BY <1>6, <1>8
    <2> QED
      BY <2>1, ElementOfSeq
  <1>12. Len(SubSeq(p, 3, n + 2)) = IF 3 <= n + 2 THEN n + 2 - 3 + 1 ELSE 0
    <2>1. 3 \in Int /\ n + 2 \in Int
      OBVIOUS
    <2> QED
      BY <1>11, <2>1, SubSeqProperties
  <1>13. n + 2 - 3 + 1 = n
    OBVIOUS
  <1> QED
    BY <1>1, <1>8, <1>10, <1>12, <1>13, Zenon

-----------------------------------------------------------------------------
\* Where the call, the answer and the line stand.
ExchangeInv ==
    /\ ask \in Asks
    /\ line \in Seq(Int)
    /\ stage \in {"idle", "asked", "answered", "done"}
    /\ stage \in {"idle", "asked"} => pdu = <<>> /\ ~ harmed
    /\ stage \in {"asked", "answered"} => ~ Local(ask)
    /\ stage = "answered" =>
          /\ pdu \in Answers(ask)
          /\ ~ harmed => line = Framed(ask.mode, pdu)

LEMMA ExchangeBegins ==
    ASSUME ExchangeInit
    PROVE  ExchangeInv
  <1>1. <<>> \in Seq(Int)
    OBVIOUS
  <1> QED
    BY <1>1, Zenon DEF ExchangeInit, ExchangeInv

LEMMA ExchangeStep ==
    ASSUME ConstantTypes, ChecksumsFit, ExchangeInv, [ExchangeNext]_exchangeVars
    PROVE  ExchangeInv'
  <1> USE DEF ExchangeInv
  <1>1. CASE EndLocally
    BY <1>1 DEF EndLocally
  <1>2. CASE Send
    BY <1>2 DEF Send
  <1>3. ASSUME NEW p \in Answers(ask), Answer(p)
        PROVE  ExchangeInv'
    <2>1. Framed(ask.mode, p) \in Seq(Int)
      <3>1. ~ Local(ask)
        BY <1>3 DEF Answer
      <3>2. p \in Seq(Byte)
        BY <1>3, <3>1, AnswerFacts DEF Shaped
      <3>3. ask.mode \in ThreeModes
        BY AskFacts, Zenon
      <3> QED
        BY <3>2, <3>3, FramedType
    <2> QED
      BY <1>3, <2>1 DEF Answer
  <1>4. ASSUME NEW n \in DOMAIN line, Lose(n)
        PROVE  ExchangeInv'
    <2>1. RemoveAt(line, n) \in Seq(Int)
      <3>1. Len(line) \in Nat /\ DOMAIN line = 1 .. Len(line)
        BY LenProperties
      <3>2. \A i \in 1 .. Len(line) : line[i] \in Int
        BY ElementOfSeq
      <3>3. SubSeq(line, 1, n - 1) \in Seq(Int)
        <4>1. \A i \in 1 .. n - 1 : line[i] \in Int
          BY <3>1, <3>2
        <4>2. n - 1 \in Int
          BY <3>1
        <4> QED
          BY <4>1, <4>2, SubSeqProperties
      <3>4. SubSeq(line, n + 1, Len(line)) \in Seq(Int)
        <4>1. \A i \in n + 1 .. Len(line) : line[i] \in Int
          BY <3>1, <3>2
        <4>2. n + 1 \in Int /\ Len(line) \in Int
          BY <3>1
        <4> QED
          BY <4>1, <4>2, SubSeqProperties
      <3>5. SubSeq(line, 1, n - 1) \o SubSeq(line, n + 1, Len(line)) \in Seq(Int)
        BY <3>3, <3>4, ConcatProperties
      <3> QED
        BY <3>5, Zenon DEF RemoveAt
    <2> QED
      BY <1>4, <2>1 DEF Lose
  <1>5. ASSUME NEW n \in DOMAIN line, NEW b \in Bits, Flip(n, b)
        PROVE  ExchangeInv'
    <2>1. line' \in Seq(Int)
      <3>1. n \in 1 .. Len(line)
        BY LenProperties
      <3>2. PICK e : e = IF (line[n] \div b) % 2 = 0 THEN line[n] + b ELSE line[n] - b
        OBVIOUS
      <3>3. e \in Int
        <4>1. line[n] \in Int
          BY <3>1, ElementOfSeq
        <4>2. b \in Int
          BY DEF Bits
        <4> QED
          BY <3>2, <4>1, <4>2
      <3>4. line' = [line EXCEPT ![n] = e]
        BY <1>5, <3>2, Zenon DEF Flip
      <3> QED
        BY <3>1, <3>3, <3>4, ExceptSeq
    <2> QED
      BY <1>5, <2>1 DEF Flip
  <1>6. CASE Take
    BY <1>6 DEF Take
  <1>7. CASE Done \/ UNCHANGED exchangeVars
    BY <1>7 DEF Done, exchangeVars
  <1> QED
    BY <1>1, <1>2, <1>3, <1>4, <1>5, <1>6, <1>7 DEF ExchangeNext

LEMMA ExchangeAlways ==
    ASSUME ConstantTypes, ChecksumsFit
    PROVE  ExchangeSpec => []ExchangeInv
  <1>1. ExchangeInit => ExchangeInv
    BY ExchangeBegins
  <1>2. ExchangeInv /\ [ExchangeNext]_exchangeVars => ExchangeInv'
    BY ExchangeStep
  <1> QED
    BY <1>1, <1>2, PTL DEF ExchangeSpec

\* The string of a read that succeeds is as long as was asked for, up to the
\* bytes of 65535 registers and whatever happened to the reply on its way: no
\* damage that the checksums miss makes readRegisters give a shorter value.
THEOREM StringsWhole ==
    ASSUME ChecksumsFit
    PROVE  ExchangeSpec => []StringWhole
  <1> ConstantTypes
    BY ConstantAssumption
  <1>1. ExchangeInit => StringWhole
    BY DEF ExchangeInit, StringWhole
  <1>2. ASSUME ExchangeInv, StringWhole, [ExchangeNext]_exchangeVars
        PROVE  StringWhole'
    <2>1. CASE Take
      <3> SUFFICES ASSUME out'.verdict = "ok", ask.fc = 3, ask.n <= StringLimit
                   PROVE  Len(out'.bytes) = ask.n
        BY <2>1 DEF StringWhole, Take
      <3>1. PICK f : f = ReadFrame(ask.mode, line)
        OBVIOUS
      <3>2. /\ f.end = "pdu" /\ AnswersAsk(ask, f.pdu)
            /\ out'.bytes = StringOf(ask, f.pdu)
        <4> DEFINE ok == f.end = "pdu" /\ AnswersAsk(ask, f.pdu)
        <4>1. out' = [verdict |-> CASE ok -> "ok" [] f.end = "waits" -> "waits" [] OTHER -> "failed",
                      bytes   |-> IF ok THEN StringOf(ask, f.pdu) ELSE <<>>,
                      rest    |-> f.rest]
          BY <2>1, <3>1, Zenon DEF Take
        <4>2. out'.verdict = CASE ok -> "ok" [] f.end = "waits" -> "waits" [] OTHER -> "failed"
          BY <4>1, Zenon
        <4>3. out'.bytes = IF ok THEN StringOf(ask, f.pdu) ELSE <<>>
          BY <4>1, Zenon
        <4>4. ok
          BY <4>2, Zenon
        <4> QED
          BY <4>3, <4>4, Zenon
      <3>3. ask \in Asks /\ ~ Local(ask) /\ line \in Seq(Int)
        BY <1>2, <2>1 DEF ExchangeInv, Take
      <3>4. ask.mode \in ThreeModes
        BY <3>3, AskFacts, Zenon
      <3>5. f.pdu \in Seq(Int)
        BY <3>1, <3>2, <3>3, <3>4, TakenType
      <3> QED
        BY <3>2, <3>3, <3>5, StringTaken
    <2>2. CASE EndLocally
      <3>1. ask.fc = 3 => out'.verdict = "failed"
        <4>1. ask.fc = 3 => ~ (ask.fc = 16)
          OBVIOUS
        <4> QED
          BY <2>2, <4>1 DEF EndLocally, Pending
      <3> QED
        BY <2>2, <3>1 DEF StringWhole, EndLocally
    <2>3. CASE Send
      BY <2>3 DEF StringWhole, Send
    <2>4. ASSUME NEW p, Answer(p)
          PROVE  StringWhole'
      BY <2>4 DEF StringWhole, Answer
    <2>5. ASSUME NEW n, NEW b, Lose(n) \/ Flip(n, b)
          PROVE  StringWhole'
      BY <2>5 DEF StringWhole, Lose, Flip
    <2>6. CASE Done \/ UNCHANGED exchangeVars
      BY <1>2, <2>6 DEF StringWhole, Done, exchangeVars
    <2> QED
      BY <1>2, <2>1, <2>2, <2>3, <2>4, <2>5, <2>6 DEF ExchangeNext
  <1>3. ExchangeSpec => []ExchangeInv
    BY ExchangeAlways
  <1> QED
    BY <1>1, <1>2, <1>3, PTL DEF ExchangeSpec

\* A reply that arrives whole is read to its last byte and no further by each of
\* the three readers, and is a success exactly when it is no exception, for any
\* unit, any values, and reads of up to the 127 registers that readRegisters can
\* accept.
THEOREM WholeReplies ==
    ASSUME ChecksumsFit, ShortReads
    PROVE  ExchangeSpec => []WholeReplyTaken
  <1> ConstantTypes
    BY ConstantAssumption
  <1>1. ExchangeInit => WholeReplyTaken
    BY DEF ExchangeInit, WholeReplyTaken, AnswerCame
  <1>2. ASSUME ExchangeInv, WholeReplyTaken, [ExchangeNext]_exchangeVars
        PROVE  WholeReplyTaken'
    <2>1. CASE Take
      <3> SUFFICES ASSUME ~ harmed
                   PROVE  /\ out'.rest = <<>>
                          /\ out'.verdict = IF Exceptional(pdu) THEN "failed" ELSE "ok"
        BY <2>1, Zenon DEF WholeReplyTaken, Take, AnswerCame, Exceptional
      <3>1. /\ ask \in Asks /\ ~ Local(ask) /\ pdu \in Answers(ask)
            /\ line = Framed(ask.mode, pdu)
        BY <1>2, <2>1 DEF ExchangeInv, Take
      <3>2. ask.mode \in ThreeModes
        BY <3>1, AskFacts, Zenon
      <3>3. pdu \in Seq(Byte) /\ Regular(ask, pdu)
        BY <3>1, AnswerRegular
      <3>4. PICK f : f = ReadFrame(ask.mode, line)
        OBVIOUS
      <3>5. f = Sound(pdu, line, Len(line))
        BY <3>1, <3>2, <3>3, <3>4, WholeTaken
      <3> DEFINE ok == f.end = "pdu" /\ AnswersAsk(ask, f.pdu)
      <3>6. out' = [verdict |-> CASE ok -> "ok" [] f.end = "waits" -> "waits" [] OTHER -> "failed",
                    bytes   |-> IF ok THEN StringOf(ask, f.pdu) ELSE <<>>,
                    rest    |-> f.rest]
        BY <2>1, <3>4, Zenon DEF Take
      <3>7. out'.verdict = CASE ok -> "ok" [] f.end = "waits" -> "waits" [] OTHER -> "failed"
        BY <3>6, Zenon
      <3>8. out'.rest = f.rest
        BY <3>6, Zenon
      <3>9. f.rest = <<>>
        <4>1. f.rest = SubSeq(line, Len(line) + 1, Len(line))
          BY <3>5 DEF Sound, Bad, Got
        <4>2. Len(line) \in Nat
          BY <1>2, LenProperties DEF ExchangeInv
        <4>3. Len(line) \in Int /\ Len(line) + 1 \in Int /\ Len(line) < Len(line) + 1
          BY <4>2
        <4>4. SubSeq(line, Len(line) + 1, Len(line)) = <<>>
          BY <4>3, SubSeqEmpty
        <4> QED
          BY <4>1, <4>4, Zenon
      <3>10. CASE Exceptional(pdu)
        <4>1. f.end = "error"
          BY <3>5, <3>10 DEF Sound, Bad
        <4>2. ~ ok /\ f.end # "waits"
          BY <4>1
        <4>3. out'.verdict = "failed"
          BY <3>7, <4>2, Zenon
        <4> QED
          BY <3>8, <3>9, <3>10, <4>3, Zenon
      <3>11. CASE ~ Exceptional(pdu)
        <4>1. f.end = "pdu" /\ f.pdu = pdu
          BY <3>5, <3>11 DEF Sound, Got
        <4>2. AnswersAsk(ask, pdu)
          BY <3>3, <3>11, RegularFits
        <4>3. ok /\ f.end # "waits"
          BY <4>1, <4>2
        <4>4. out'.verdict = "ok"
          BY <3>7, <4>3, Zenon
        <4> QED
          BY <3>8, <3>9, <3>11, <4>4, Zenon
      <3> QED
        BY <3>10, <3>11
    <2>2. CASE EndLocally
      BY <1>2, <2>2 DEF ExchangeInv, WholeReplyTaken, AnswerCame, EndLocally
    <2>3. CASE Send
      BY <2>3 DEF WholeReplyTaken, AnswerCame, Send
    <2>4. ASSUME NEW p, Answer(p)
          PROVE  WholeReplyTaken'
      BY <2>4 DEF WholeReplyTaken, AnswerCame, Answer
    <2>5. ASSUME NEW n, NEW b, Lose(n) \/ Flip(n, b)
          PROVE  WholeReplyTaken'
      BY <2>5 DEF WholeReplyTaken, AnswerCame, Lose, Flip
    <2>6. CASE Done \/ UNCHANGED exchangeVars
      BY <1>2, <2>6 DEF WholeReplyTaken, AnswerCame, Exceptional, Done, exchangeVars
    <2> QED
      BY <1>2, <2>1, <2>2, <2>3, <2>4, <2>5, <2>6 DEF ExchangeNext
  <1>3. ExchangeSpec => []ExchangeInv
    BY ExchangeAlways
  <1> QED
    BY <1>1, <1>2, <1>3, PTL DEF ExchangeSpec

=============================================================================
