-------------------------- MODULE OmronFinsProofs --------------------------
(***************************************************************************)
(* Theorems about OmronFinsClient, for every set of calls, connections,    *)
(* addresses, nodes and policies, and for both kinds of device: handshakes *)
(* and replies stay in step with the connection, and only a stale node     *)
(* defeats the retries.                                                    *)
(***************************************************************************)
EXTENDS OmronFinsClient, WireProofs, FiniteSetTheorems

\* The states of a call that holds the mutex.
Busy == {"greeting", "attempt", "await"}

LockHeld ==
    /\ \A i \in Calls : call[i].pc \in Busy <=> mu = i
    /\ \A i \in Calls : call[i].pc \in Busy =>
          IsData(call[i].op) \/ (At(i, "greeting") /\ call[i].op.kind = "open")
    /\ \A i \in Calls : call[i].pc \in {"greeting", "await"} => conn # NoConn
    /\ mu = NoCall => attempt = 0

SocketHeld ==
    /\ conn # NoConn => link[conn].st # "down"
    /\ \A k \in Conns : link[k].st # "down" => k = conn

\* Request q belongs to the exchange going on: a handshake, or the command of
\* the call with the mutex, with the node it was built for.
Exchanged(q) ==
    /\ mu = q.call
    /\ At(q.call, IF q.cmd = "handshake" THEN "greeting" ELSE "await")
    /\ q.cmd = "send" => q.node = call[q.call].node

\* Reply r belongs to the exchange going on.
ForHolder(r) == mu = r.call /\ call[r.call].pc \in {"greeting", "await"}

\* The connection in use carries that exchange only, and no request once the
\* device has ended it.
StreamInSync ==
    conn # NoConn =>
        /\ Len(link[conn].req) + Len(link[conn].rep) <= 1
        /\ \A n \in DOMAIN link[conn].req : Exchanged(link[conn].req[n])
        /\ \A n \in DOMAIN link[conn].rep : ForHolder(link[conn].rep[n])
        /\ link[conn].st # "up" => link[conn].req = <<>>

\* Once the handshake is answered the device has seen it.
HandshakeFirst ==
    conn # NoConn /\ (link[conn].rep # <<>> \/ \A i \in Calls : ~ At(i, "greeting"))
        => greeted[conn]

\* What is on the wire was sent by a call that had been made, commands by reads
\* and writes.
RequestTraced(q) ==
    ~ At(q.call, "new") /\ (q.cmd = "send" => IsData(call[q.call].op))

Traced ==
    \A k \in Conns : \A n \in DOMAIN link[k].req : RequestTraced(link[k].req[n])

\* The command of call i is for another node, and the device minds.
Stale(i) == checks /\ call[i].node # Node

\* The attempt going on cannot succeed any more.
Doomed ==
    /\ conn # NoConn
    /\ link[conn].st # "up" \/ \E n \in DOMAIN link[conn].rep : link[conn].rep[n].kind = "bad"

\* Every attempt that failed, or has to, has been charged to its call.
FaultsCharged ==
    \A i \in Calls : call[i].pc \in Busy /\ IsData(call[i].op) =>
        \/ Stale(i)
        \/ faults[i] > call[i].budget
        \/ faults[i] >= attempt + (IF Doomed THEN 1 ELSE 0)

Inductive ==
    /\ TypeOK
    /\ LockHeld
    /\ SocketHeld
    /\ StreamInSync
    /\ HandshakeFirst
    /\ Traced
    /\ FaultsCharged
    /\ RetryMasksFaultsUnlessStale

CallType == [pc : {"new"} \cup Waiting \cup Returned, op : Ops \cup {NoOp},
             node : Nodes, val : Vals \cup {InitVal, NoVal}, budget : Nat]

-----------------------------------------------------------------------------
LEMMA OnTheWire ==
    ASSUME TypeOK, NEW k \in Conns
    PROVE  /\ link[k].req \in Seq(Request)
           /\ link[k].rep \in Seq(Reply)
           /\ \A n \in DOMAIN link[k].req :
                 link[k].req[n] \in Request /\ link[k].req[n].call \in Calls
           /\ \A n \in DOMAIN link[k].rep :
                 link[k].rep[n] \in Reply /\ link[k].rep[n].call \in Calls
  <1>1. link \in [Conns -> Links(Request, Reply)]
    BY DEF TypeOK
  <1>2. /\ link[k].req \in Seq(Request)
        /\ link[k].rep \in Seq(Reply)
        /\ \A n \in DOMAIN link[k].req : link[k].req[n] \in Request
        /\ \A n \in DOMAIN link[k].rep : link[k].rep[n] \in Reply
    BY <1>1, WireElements
  <1>3. /\ \A q \in Request : q.call \in Calls
        /\ \A r \in Reply : r.call \in Calls
    BY DEF Request, Reply
  <1> QED
    BY <1>2, <1>3

LEMMA DataOps ==
    ASSUME NEW o \in Ops \cup {NoOp}, IsData(o)
    PROVE  o.addr \in Addrs /\ (o.kind = "write" => o.val \in Vals)
  BY DEF Ops, NoOp, IsData

LEMMA CallFields ==
    ASSUME TypeOK, NEW i \in Calls
    PROVE  /\ call[i] \in CallType
           /\ call[i].pc \in {"new"} \cup Waiting \cup Returned
           /\ call[i].op \in Ops \cup {NoOp}
           /\ call[i].node \in Nodes
           /\ call[i].val \in Vals \cup {InitVal, NoVal}
           /\ call[i].budget \in Nat
  BY DEF TypeOK, CallType

\* What Goto leaves alone.
LEMMA GotoFacts ==
    ASSUME TypeOK, NEW i \in Calls, NEW q \in {"new"} \cup Waiting \cup Returned, Goto(i, q)
    PROVE  /\ call' \in [Calls -> CallType]
           /\ call'[i].pc = q /\ call'[i].op = call[i].op
           /\ call'[i].node = call[i].node /\ call'[i].val = call[i].val
           /\ call'[i].budget = call[i].budget
           /\ \A j \in Calls : j # i => call'[j] = call[j]
  <1>1. call \in [Calls -> CallType]
    BY DEF TypeOK, CallType
  <1>2. call' = [call EXCEPT ![i] = [call[i] EXCEPT !.pc = q]]
    BY <1>1 DEF Goto
  <1> QED
    BY <1>1, <1>2 DEF CallType

LEMMA MoreFaultsFacts ==
    ASSUME TypeOK, NEW i \in Calls, faults' = MoreFaults(i)
    PROVE  /\ faults' \in [Calls -> Nat]
           /\ \A j \in Calls : faults'[j] >= faults[j]
           /\ faults'[i] > call[i].budget \/ faults'[i] = faults[i] + 1
  <1>1. faults \in [Calls -> Nat] /\ call[i].budget \in Nat
    BY CallFields DEF TypeOK
  <1> QED
    BY <1>1 DEF MoreFaults

LEMMA InitType == Init => TypeOK
  <1> SUFFICES ASSUME Init PROVE TypeOK
    OBVIOUS
  <1>1. Down \in Links(Request, Reply)
    BY DEF Down, Links
  <1>2. link \in [Conns -> Links(Request, Reply)]
    BY <1>1 DEF Init
  <1>3. call \in [Calls -> CallType]
    BY DEF Init, CallType, Nodes
  <1> QED
    BY <1>2, <1>3, PolicyAssumption DEF Init, TypeOK, CallType, Nodes

\* A dial: the new connection carries the handshake, what was left of the old
\* one is closed.
LEMMA DialFacts ==
    ASSUME TypeOK, NEW i \in Calls, NEW k \in Conns, Connect(i, k) \/ Open(i, k)
    PROVE  /\ link' \in [Conns -> Links(Request, Reply)]
           /\ conn' = k
           /\ link'[k].st = "up"
           /\ link'[k].req = <<Handshake(i)>>
           /\ link'[k].rep = <<>>
           /\ \A j \in Conns : j # k =>
                 /\ link'[j].st = IF j = conn THEN "down" ELSE link[j].st
                 /\ link'[j].req = link[j].req
  <1>0. /\ Handshake(i) \in Request
        /\ link \in [Conns -> Links(Request, Reply)]
        /\ link[k].rep = <<>> /\ conn' = k
    <2>1. Handshake(i) \in Request
      BY DEF Handshake, Request, Nodes
    <2>2. link[k] = Down /\ conn' = k
      BY DEF Connect, Open, Free
    <2> QED
      BY <2>1, <2>2 DEF TypeOK, Down
  <1>1. <<Handshake(i)>> \in Seq(Request)
    BY <1>0
  <1>2. \A l \in Links(Request, Reply) :
            /\ l.st \in {"down", "up", "cut"} /\ l.req \in Seq(Request) /\ l.rep \in Seq(Reply)
            /\ [l EXCEPT !.st = "up", !.req = <<Handshake(i)>>] \in Links(Request, Reply)
            /\ [l EXCEPT !.st = "up", !.req = <<Handshake(i)>>].st = "up"
            /\ [l EXCEPT !.st = "up", !.req = <<Handshake(i)>>].req = <<Handshake(i)>>
            /\ [l EXCEPT !.st = "up", !.req = <<Handshake(i)>>].rep = l.rep
    BY <1>0, <1>1 DEF Links
  <1>3. PICK h \in [Conns -> Links(Request, Reply)] :
            /\ link' = [h EXCEPT ![k] = [h[k] EXCEPT !.st = "up", !.req = <<Handshake(i)>>]]
            /\ h[k].rep = <<>>
            /\ \A j \in Conns :
                  /\ h[j].st = IF j = conn THEN "down" ELSE link[j].st
                  /\ h[j].req = link[j].req
    <2>1. CASE Connect(i, k)
      <3>1. /\ conn = NoConn
            /\ link' = [link EXCEPT ![k] = [link[k] EXCEPT !.st = "up", !.req = <<Handshake(i)>>]]
        BY <1>0, <2>1 DEF Connect
      <3> QED
        BY <1>0, <3>1, NoConnAssumption
    <2>2. CASE Open(i, k)
      <3> DEFINE h == HungUp(conn)
      <3>1. /\ h \in [Conns -> Links(Request, Reply)]
            /\ \A j \in Conns :
                  /\ h[j].st = IF j = conn THEN "down" ELSE link[j].st
                  /\ h[j].req = link[j].req
                  /\ h[j].rep = IF j = conn THEN <<>> ELSE link[j].rep
        BY <1>0, WireTypes, HungUpFields DEF TypeOK, HungUp
      <3>2. link' = [h EXCEPT ![k].st = "up", ![k].req = <<Handshake(i)>>]
        BY <2>2 DEF Open, OldClosed
      <3> HIDE DEF h
      <3>3. link' = [h EXCEPT ![k] = [h[k] EXCEPT !.st = "up", !.req = <<Handshake(i)>>]]
        BY <3>1, <3>2
      <3> QED
        BY <1>0, <3>1, <3>3
    <2> QED
      BY <2>1, <2>2
  <1>4. /\ h[k] \in Links(Request, Reply)
        /\ link'[k] = [h[k] EXCEPT !.st = "up", !.req = <<Handshake(i)>>]
        /\ \A j \in Conns : j # k => link'[j] = h[j]
    BY <1>3
  <1>5. link' \in [Conns -> Links(Request, Reply)]
    BY <1>2, <1>3, <1>4
  <1>6. /\ link'[k].st = "up" /\ link'[k].req = <<Handshake(i)>>
        /\ link'[k].rep = h[k].rep
    BY <1>2, <1>4
  <1>7. ASSUME NEW j \in Conns, j # k
        PROVE  /\ link'[j].st = IF j = conn THEN "down" ELSE link[j].st
               /\ link'[j].req = link[j].req
    BY <1>3, <1>4, <1>7
  <1>8. conn' = k /\ link'[k].rep = <<>>
    BY <1>0, <1>3, <1>6
  <1> QED
    BY <1>5, <1>6, <1>7, <1>8

\* A hang-up: a failed attempt, and Close.
LEMMA HangUpFacts ==
    ASSUME TypeOK, SocketHeld, CloseLocked
    PROVE  /\ link' \in [Conns -> Links(Request, Reply)]
           /\ conn' = NoConn
           /\ \A k \in Conns : link'[k].st = "down" /\ link'[k].req = link[k].req
  <1>1. \A k \in Conns :
           /\ link'[k].st = IF k = conn THEN "down" ELSE link[k].st
           /\ link'[k].req = link[k].req
    BY HungUpFields DEF TypeOK, CloseLocked
  <1>2. link' \in [Conns -> Links(Request, Reply)] /\ conn' = NoConn
    BY WireTypes DEF TypeOK, CloseLocked, HungUp
  <1> QED
    BY <1>1, <1>2 DEF SocketHeld

\* The steps that give an attempt up: each is charged to the call, now or when
\* the attempt was doomed.
LEMMA FailureFacts ==
    ASSUME TypeOK, LockHeld, NEW i \in Calls, Fail(i) \/ RefuseReply(i)
    PROVE  /\ CloseLocked
           /\ UNCHANGED <<device, da1, maxRetries, seen, hits>>
           /\ mu = i /\ call[i].pc \in Busy
           /\ \/ /\ mu' = mu /\ Goto(i, "attempt")
                 /\ attempt' = attempt + 1 /\ IsData(call[i].op)
              \/ /\ mu' = NoCall /\ Goto(i, "failed")
                 /\ attempt' = 0 /\ (IsData(call[i].op) => ~ MoreAttempts(i))
           /\ faults' = faults \/ faults' = MoreFaults(i)
           /\ Doomed \/ faults' = MoreFaults(i)
  <1>1. mu = i /\ call[i].pc \in Busy /\ AttemptFailed(i)
    BY DEF Fail, RefuseReply, LockHeld, Busy
  <1>2. /\ faults' = faults \/ faults' = MoreFaults(i)
        /\ Doomed \/ faults' = MoreFaults(i)
    <2>1. CASE Fail(i)
      BY <2>1 DEF Fail, Live, Doomed
    <2>2. CASE RefuseReply(i)
      <3>1. /\ conn # NoConn /\ conn \in Conns /\ link[conn].rep # <<>>
            /\ Head(link[conn].rep).kind = "bad" /\ faults' = faults
        BY <2>2 DEF RefuseReply, Answer, LockHeld, TypeOK
      <3>2. 1 \in DOMAIN link[conn].rep /\ link[conn].rep[1].kind = "bad"
        BY <3>1, OnTheWire, HeadFacts
      <3> QED
        BY <3>1, <3>2 DEF Doomed
    <2> QED
      BY <2>1, <2>2
  <1> QED
    BY <1>1, <1>2 DEF AttemptFailed, Return

\* The steps that read a good reply.
LEMMA TakeFacts ==
    ASSUME TypeOK, LockHeld, NEW i \in Calls, Greeted(i) \/ TakeReply(i)
    PROVE  /\ conn \in Conns /\ link[conn].rep # <<>> /\ link' = Consumed(conn)
           /\ Head(link[conn].rep) \in Reply
           /\ mu = i /\ call[i].pc \in {"greeting", "await"}
           /\ UNCHANGED <<device, conn, maxRetries, history>>
           /\ da1' \in Nodes
           /\ call' \in [Calls -> CallType]
           /\ call'[i].op = call[i].op /\ call'[i].node = call[i].node
           /\ call'[i].budget = call[i].budget
           /\ \A j \in Calls : j # i => call'[j] = call[j]
           /\ \/ /\ call'[i].pc \in {"ok", "rejected"} /\ mu' = NoCall /\ attempt' = 0
              \/ /\ call[i].op.kind # "open" /\ call'[i].pc = "attempt"
                 /\ UNCHANGED <<mu, attempt>>
  <1>1. /\ conn \in Conns /\ link[conn].rep # <<>> /\ link' = Consumed(conn)
        /\ mu = i /\ call[i].pc \in {"greeting", "await"}
    BY DEF Greeted, TakeReply, At, Answer, LockHeld, Busy, TypeOK
  <1>2. Head(link[conn].rep) \in Reply
    BY <1>1, OnTheWire, HeadFacts
  <1>3. CASE Greeted(i)
    <2>1. da1' \in Nodes
      BY <1>3 DEF Greeted, TypeOK, Nodes
    <2>2. "ok" \in {"new"} \cup Waiting \cup Returned
          /\ "attempt" \in {"new"} \cup Waiting \cup Returned
      BY DEF Waiting, Returned
    <2>3. CASE call[i].op.kind = "open"
      <3>1. Goto(i, "ok") /\ mu' = NoCall /\ attempt' = 0
        BY <1>3, <2>3 DEF Greeted, Return
      <3> QED
        BY <1>1, <1>2, <1>3, <2>1, <2>2, <3>1, GotoFacts DEF Greeted
    <2>4. CASE call[i].op.kind # "open"
      <3>1. Goto(i, "attempt") /\ UNCHANGED <<mu, attempt>>
        BY <1>3, <2>4 DEF Greeted
      <3> QED
        BY <1>1, <1>2, <1>3, <2>1, <2>2, <2>4, <3>1, GotoFacts DEF Greeted
    <2> QED
      BY <2>3, <2>4
  <1>4. CASE TakeReply(i)
    <2>1. call \in [Calls -> CallType]
      BY DEF TypeOK, CallType
    <2>2. Head(link[conn].rep).val \in Vals \cup {InitVal, NoVal}
      BY <1>2 DEF Reply
    <2>3. PICK p \in {"ok", "rejected"}, v \in Vals \cup {InitVal, NoVal} :
              call' = [call EXCEPT ![i] = [call[i] EXCEPT !.pc = p, !.val = v]]
      <3>1. call[i].val \in Vals \cup {InitVal, NoVal}
        BY CallFields
      <3>2. \E p \in {"ok", "rejected"}, v \in {Head(link[conn].rep).val, call[i].val} :
                call' = [call EXCEPT ![i].pc = p, ![i].val = v]
        BY <1>4, <2>1 DEF TakeReply
      <3> QED
        BY <2>1, <2>2, <3>1, <3>2
    <2>4. /\ call' \in [Calls -> CallType] /\ call'[i].pc = p
          /\ call'[i].op = call[i].op /\ call'[i].node = call[i].node
          /\ call'[i].budget = call[i].budget
          /\ \A j \in Calls : j # i => call'[j] = call[j]
      BY <2>1, <2>3 DEF CallType, Returned
    <2> QED
      BY <1>1, <1>2, <1>4, <2>4 DEF TakeReply, TypeOK
  <1> QED
    BY <1>3, <1>4

\* What the device puts on the wire is well formed, and a bad answer to the
\* client's request is charged, unless it is for a stale node.
LEMMA AnswerFacts ==
    ASSUME TypeOK, Traced, NEW k \in Conns, NEW kind \in {"normal", "bad", "short"},
           Greet(k, kind) \/ Execute(k, kind) \/ Refuse(k)
    PROVE  \E q \in Request, r \in Reply :
               /\ link[k].req # <<>> /\ q = Head(link[k].req) /\ q = link[k].req[1]
               /\ 1 \in DOMAIN link[k].req /\ q.call \in Calls /\ ~ At(q.call, "new")
               /\ link' = Answered(k, r) /\ r.call = q.call
               /\ UNCHANGED <<checks, fields, call>>
               /\ \/ q.cmd = "handshake" /\ greeted' = [greeted EXCEPT ![k] = TRUE]
                  \/ q.cmd = "send" /\ greeted' = greeted
               /\ store' \in [Addrs -> Vals \cup {InitVal}]
               /\ seen' \in [Calls -> SUBSET (Vals \cup {InitVal})]
               /\ hits' \in [Calls -> Nat]
               /\ faults' = faults \/ faults' = MoreFaults(q.call)
               /\ k = conn /\ r.kind = "bad" =>
                     \/ faults' = MoreFaults(q.call)
                     \/ q.cmd = "send" /\ ~ Admits(q)
  <1>0. link[k].req # <<>>
    BY DEF Greet, Execute, Refuse
  <1>1. PICK q \in Request :
            /\ q = Head(link[k].req) /\ q = link[k].req[1] /\ 1 \in DOMAIN link[k].req
            /\ q.call \in Calls /\ RequestTraced(q)
    <2>1. /\ Head(link[k].req) = link[k].req[1] /\ 1 \in DOMAIN link[k].req
          /\ Head(link[k].req) \in Request /\ Head(link[k].req).call \in Calls
      BY <1>0, OnTheWire, HeadFacts
    <2> QED
      BY <2>1 DEF Traced
  <1>t. /\ store \in [Addrs -> Vals \cup {InitVal}]
        /\ seen \in [Calls -> SUBSET (Vals \cup {InitVal})]
        /\ hits \in [Calls -> Nat]
    BY DEF TypeOK
  <1>2. CASE Greet(k, kind)
    <2>1. PICK r \in Reply : r = [call |-> q.call, kind |-> kind, val |-> NoVal]
      BY <1>1 DEF Reply
    <2>2. /\ q.cmd = "handshake" /\ link' = Answered(k, r)
          /\ faults' = IF k = conn /\ r.kind = "bad" THEN MoreFaults(q.call) ELSE faults
          /\ greeted' = [greeted EXCEPT ![k] = TRUE]
          /\ UNCHANGED <<checks, fields, call, store, seen, hits>>
      BY <1>1, <1>2, <2>1 DEF Greet
    <2> QED
      BY <1>0, <1>1, <1>t, <2>1, <2>2 DEF RequestTraced
  <1>3. CASE Refuse(k)
    <2>1. PICK r \in Reply : r = [call |-> q.call, kind |-> "bad", val |-> NoVal]
      BY <1>1 DEF Reply
    <2>2. /\ q.cmd = "send" /\ link' = Answered(k, r)
          /\ faults' = IF k = conn /\ Admits(q) THEN MoreFaults(q.call) ELSE faults
          /\ UNCHANGED <<checks, greeted, fields, call, store, seen, hits>>
      BY <1>1, <1>3, <2>1 DEF Refuse, device
    <2> QED
      BY <1>0, <1>1, <1>t, <2>1, <2>2 DEF RequestTraced
  <1>4. CASE Execute(k, kind)
    <2>1. q.cmd = "send" /\ IsData(call[q.call].op)
      BY <1>1, <1>4 DEF Execute, RequestTraced
    <2>2. PICK o \in Ops \cup {NoOp} :
              o = call[q.call].op /\ IsData(o) /\ o.addr \in Addrs
              /\ (o.kind = "write" => o.val \in Vals)
      BY <1>1, <2>1, CallFields, DataOps
    <2>3. store[o.addr] \in Vals \cup {InitVal}
      BY <1>t, <2>2
    <2>4. PICK r \in Reply :
              r = [call |-> q.call, kind |-> kind,
                   val |-> IF kind = "normal" /\ o.kind = "read" THEN store[o.addr] ELSE NoVal]
      <3>1. PICK v \in Vals \cup {InitVal, NoVal} :
                v = IF kind = "normal" /\ o.kind = "read" THEN store[o.addr] ELSE NoVal
        BY <2>3
      <3>2. [call |-> q.call, kind |-> kind, val |-> v] \in Reply
        BY <1>1 DEF Reply
      <3> QED
        BY <3>1, <3>2
    <2>5. /\ link' = Answered(k, r)
          /\ hits' = [hits EXCEPT ![q.call] = @ + 1]
          /\ store' = IF o.kind = "write" THEN [store EXCEPT ![o.addr] = o.val] ELSE store
          /\ seen' = IF o.kind = "read"
                     THEN [seen EXCEPT ![q.call] = @ \cup {store[o.addr]}] ELSE seen
          /\ faults' = IF k = conn /\ r.kind = "bad" THEN MoreFaults(q.call) ELSE faults
          /\ UNCHANGED <<checks, greeted, fields, call>>
      BY <1>1, <1>4, <2>2, <2>4 DEF Execute
    <2>6. /\ store' \in [Addrs -> Vals \cup {InitVal}]
          /\ seen' \in [Calls -> SUBSET (Vals \cup {InitVal})]
          /\ hits' \in [Calls -> Nat]
      <3>1. store' \in [Addrs -> Vals \cup {InitVal}]
        BY <1>t, <2>2, <2>5
      <3>2. seen' \in [Calls -> SUBSET (Vals \cup {InitVal})]
        BY <1>t, <2>3, <2>5
      <3>3. hits' \in [Calls -> Nat]
        <4>1. hits' = [hits EXCEPT ![q.call] = @ + 1] /\ hits \in [Calls -> Nat]
          BY <1>t, <2>5
        <4>2. hits[q.call] + 1 \in Nat
          BY <1>1, <1>t
        <4> QED
          BY <4>1, <4>2
      <3> QED
        BY <3>1, <3>2, <3>3
    <2> QED
      BY <1>0, <1>1, <2>1, <2>4, <2>5, <2>6 DEF RequestTraced
  <1> QED
    BY <1>2, <1>3, <1>4

LEMMA NextType == TypeOK /\ LockHeld /\ SocketHeld /\ Traced /\ [Next]_vars => TypeOK'
  <1> SUFFICES ASSUME TypeOK, LockHeld, SocketHeld, Traced, [Next]_vars PROVE TypeOK'
    OBVIOUS
  <1>p. {"new"} \cup Waiting \cup Returned =
           {"new", "build", "blocked", "greeting", "attempt", "await",
            "ok", "failed", "rejected"}
    BY DEF Waiting, Returned
  <1>c. call \in [Calls -> CallType]
    BY DEF TypeOK, CallType
  <1>1. ASSUME NEW i \in Calls, NEW o \in Ops, Invoke(i, o) PROVE TypeOK'
    <2>1. call' \in [Calls -> CallType]
      <3>1. PICK p \in {"blocked", "build"} :
                call' = [call EXCEPT ![i] = [call[i] EXCEPT !.op = o, !.pc = p]]
        BY <1>1, <1>c DEF Invoke
      <3>2. call[i] \in CallType
        BY <1>c
      <3>3. [call[i] EXCEPT !.op = o, !.pc = p] \in CallType
        BY <1>p, <3>2 DEF CallType
      <3> QED
        BY <1>c, <3>1, <3>3
    <2> QED
      BY <1>1, <2>1 DEF TypeOK, CallType, Invoke, device, fields, history
  <1>2. ASSUME NEW i \in Calls, ReturnLocally(i) \/ Build(i) PROVE TypeOK'
    <2>1. call' \in [Calls -> CallType]
      BY <1>2, <1>p, <1>c DEF ReturnLocally, Build, Goto, CallType, TypeOK
    <2> QED
      BY <1>2, <2>1 DEF TypeOK, CallType, ReturnLocally, Build, device, fields, history
  <1>3. ASSUME NEW i \in Calls, Acquire(i) PROVE TypeOK'
    <2>1. call' \in [Calls -> CallType]
      <3>1. maxRetries \in Nat
        BY DEF TypeOK
      <3>2. call' = [call EXCEPT ![i] = [call[i] EXCEPT !.budget = maxRetries, !.pc = "attempt"]]
        BY <1>3, <1>c DEF Acquire
      <3>3. call[i] \in CallType
        BY <1>c
      <3>4. [call[i] EXCEPT !.budget = maxRetries, !.pc = "attempt"] \in CallType
        BY <1>p, <3>1, <3>3 DEF CallType
      <3> QED
        BY <1>c, <3>2, <3>4
    <2> QED
      BY <1>3, <2>1 DEF TypeOK, CallType, Acquire, device
  <1>4. ASSUME NEW i \in Calls, NEW k \in Conns, Connect(i, k) \/ Open(i, k) PROVE TypeOK'
    <2>1. link' \in [Conns -> Links(Request, Reply)] /\ conn' = k
      BY <1>4, DialFacts
    <2>2. call' \in [Calls -> CallType]
      BY <1>4, <1>p, GotoFacts DEF Connect, Open
    <2> QED
      BY <1>4, <2>1, <2>2 DEF TypeOK, CallType, Connect, Open, history
  <1>5. ASSUME NEW i \in Calls, Fail(i) \/ RefuseReply(i) PROVE TypeOK'
    <2>1. /\ CloseLocked
          /\ UNCHANGED <<device, da1, maxRetries, seen, hits>>
          /\ mu' = mu \/ mu' = NoCall
          /\ attempt' = attempt + 1 \/ attempt' = 0
          /\ Goto(i, "attempt") \/ Goto(i, "failed")
          /\ faults' = faults \/ faults' = MoreFaults(i)
      BY <1>5, FailureFacts
    <2>2. link' \in [Conns -> Links(Request, Reply)] /\ conn' = NoConn
      BY <2>1, HangUpFacts
    <2>3. call' \in [Calls -> CallType]
      BY <1>p, <2>1, GotoFacts
    <2>4. faults' \in [Calls -> Nat]
      BY <2>1, MoreFaultsFacts DEF TypeOK
    <2> QED
      BY <2>1, <2>2, <2>3, <2>4 DEF TypeOK, CallType, device
  <1>6. ASSUME NEW i \in Calls, Greeted(i) \/ TakeReply(i) PROVE TypeOK'
    <2>1. /\ conn \in Conns /\ link[conn].rep # <<>> /\ link' = Consumed(conn)
          /\ UNCHANGED <<device, conn, maxRetries, history>>
          /\ da1' \in Nodes
          /\ call' \in [Calls -> CallType]
          /\ mu' = mu \/ mu' = NoCall
          /\ attempt' = attempt \/ attempt' = 0
      BY <1>6, TakeFacts
    <2>2. link' \in [Conns -> Links(Request, Reply)]
      BY <2>1, WireTypes DEF TypeOK
    <2> QED
      BY <2>1, <2>2 DEF TypeOK, CallType, device, history
  <1>7. ASSUME NEW i \in Calls, Transmit(i) PROVE TypeOK'
    <2>1. [call |-> i, cmd |-> "send", node |-> call[i].node] \in Request
      BY CallFields DEF Request
    <2>2. link' \in [Conns -> Links(Request, Reply)]
      BY <1>7, <2>1, WireTypes DEF Transmit, TypeOK
    <2>3. call' \in [Calls -> CallType]
      BY <1>7, <1>p, GotoFacts DEF Transmit
    <2> QED
      BY <1>7, <2>2, <2>3 DEF TypeOK, CallType, Transmit, device, fields, history
  <1>8. ASSUME NEW i \in Calls, CloseOrFail(i) PROVE TypeOK'
    <2>1. link' \in [Conns -> Links(Request, Reply)] /\ conn' = NoConn
      BY <1>8, HangUpFacts DEF CloseOrFail
    <2>2. call' \in [Calls -> CallType]
      BY <1>8, <1>p, GotoFacts DEF CloseOrFail
    <2> QED
      BY <1>8, <2>1, <2>2 DEF TypeOK, CallType, CloseOrFail, device, history
  <1>9. ASSUME NEW n, (n \in Policies /\ SetRetryPolicy(n)) \/ (n \in Routes /\ SetRouting(n))
        PROVE  TypeOK'
    <2>1. CASE n \in Policies /\ SetRetryPolicy(n)
      <3>1. Normalize(n) \in Nat
        BY <2>1, PolicyAssumption DEF Normalize
      <3> QED
        BY <2>1, <3>1 DEF TypeOK, SetRetryPolicy, device, history
    <2>2. CASE n \in Routes /\ SetRouting(n)
      <3>1. n \in Nodes
        BY <2>2 DEF Nodes
      <3> QED
        BY <2>2, <3>1 DEF TypeOK, SetRouting, device, history
    <2> QED
      BY <1>9, <2>1, <2>2
  <1>10. ASSUME NEW k \in Conns, NEW kind \in {"normal", "bad", "short"},
                Greet(k, kind) \/ Execute(k, kind) \/ Refuse(k)
         PROVE  TypeOK'
    <2>1. PICK q \in Request, r \in Reply :
              /\ link[k].req # <<>> /\ q.call \in Calls
              /\ link' = Answered(k, r)
              /\ UNCHANGED <<checks, fields, call>>
              /\ greeted' = [greeted EXCEPT ![k] = TRUE] \/ greeted' = greeted
              /\ store' \in [Addrs -> Vals \cup {InitVal}]
              /\ seen' \in [Calls -> SUBSET (Vals \cup {InitVal})]
              /\ hits' \in [Calls -> Nat]
              /\ faults' = faults \/ faults' = MoreFaults(q.call)
      BY <1>10, AnswerFacts
    <2>2. link' \in [Conns -> Links(Request, Reply)]
      BY <2>1, WireTypes DEF TypeOK
    <2>3. faults' \in [Calls -> Nat]
      BY <2>1, MoreFaultsFacts DEF TypeOK
    <2> QED
      BY <2>1, <2>2, <2>3 DEF TypeOK, fields
  <1>11. ASSUME NEW k \in Conns, Ignore(k) PROVE TypeOK'
    BY <1>11, WireTypes DEF TypeOK, Ignore, device, fields, history
  <1>12. ASSUME NEW k \in Conns, Sever(k) PROVE TypeOK'
    <2>1. link' \in [Conns -> Links(Request, Reply)]
      BY <1>12, WireTypes DEF Sever, TypeOK
    <2>2. faults' \in [Calls -> Nat]
      BY <1>12, MoreFaultsFacts DEF Sever, TypeOK
    <2> QED
      BY <1>12, <2>1, <2>2 DEF TypeOK, Sever, device, fields
  <1>13. CASE UNCHANGED vars
    BY <1>13 DEF TypeOK, vars, device, fields, history
  <1> QED
    BY <1>1, <1>2, <1>3, <1>4, <1>5, <1>6, <1>7, <1>8, <1>9, <1>10, <1>11, <1>12, <1>13
    DEF Next, Enter, Progress, Device

\* The mutex is held by the one call that has a connection to itself.
LEMMA LockNext == TypeOK /\ LockHeld /\ Traced /\ [Next]_vars => LockHeld'
  <1> SUFFICES ASSUME TypeOK, LockHeld, Traced, [Next]_vars PROVE LockHeld'
    OBVIOUS
  <1>c. /\ call \in [Calls -> CallType] /\ mu \in Calls \cup {NoCall}
        /\ \A i \in Calls : call[i].pc \in {"new"} \cup Waiting \cup Returned
    BY DEF TypeOK, CallType
  <1>p. {"new"} \cup Waiting \cup Returned =
           {"new", "build", "blocked", "greeting", "attempt", "await",
            "ok", "failed", "rejected"}
    BY DEF Waiting, Returned
  <1>1. ASSUME NEW i \in Calls, NEW o \in Ops, Invoke(i, o) PROVE LockHeld'
    <2>1. /\ UNCHANGED <<mu, conn, attempt>> /\ call[i].pc = "new"
          /\ call'[i].pc \in {"blocked", "build"}
          /\ \A j \in Calls : j # i => call'[j] = call[j]
      BY <1>1, <1>c DEF Invoke, At, fields, CallType
    <2> QED
      BY <1>c, <2>1 DEF LockHeld, Busy, At
  <1>2. ASSUME NEW i \in Calls, ReturnLocally(i) \/ Build(i) PROVE LockHeld'
    <2>1. /\ UNCHANGED <<mu, conn, attempt>> /\ call[i].pc = "build"
          /\ call'[i].pc \in {"blocked", "rejected"}
          /\ \A j \in Calls : j # i => call'[j] = call[j]
      BY <1>2, <1>c DEF ReturnLocally, Build, Goto, At, fields, CallType
    <2> QED
      BY <1>c, <2>1 DEF LockHeld, Busy, At
  <1>3. ASSUME NEW i \in Calls, Acquire(i) PROVE LockHeld'
    <2>1. /\ UNCHANGED <<conn, attempt>> /\ call[i].pc = "blocked"
          /\ mu = NoCall /\ mu' = i /\ IsData(call[i].op)
          /\ call'[i].pc = "attempt" /\ call'[i].op = call[i].op
          /\ \A j \in Calls : j # i => call'[j] = call[j]
      BY <1>3, <1>c DEF Acquire, At, CallType
    <2> QED
      BY <1>c, <2>1, CallAssumption DEF LockHeld, Busy, At
  <1>4. ASSUME NEW i \in Calls, NEW k \in Conns, Connect(i, k) \/ Open(i, k) PROVE LockHeld'
    <2>1. /\ conn' = k /\ Goto(i, "greeting") /\ mu' = i /\ UNCHANGED attempt
          /\ mu \in {i, NoCall}
          /\ IsData(call[i].op) \/ call[i].op.kind = "open"
      BY <1>4 DEF Connect, Open, At, LockHeld, Busy
    <2>2. /\ call'[i].pc = "greeting" /\ call'[i].op = call[i].op
          /\ \A j \in Calls : j # i => call'[j] = call[j]
      BY <1>p, <2>1, GotoFacts
    <2> QED
      BY <1>c, <2>1, <2>2, NoConnAssumption, CallAssumption DEF LockHeld, Busy, At
  <1>5. ASSUME NEW i \in Calls, Fail(i) \/ RefuseReply(i) PROVE LockHeld'
    <2>1. /\ mu = i /\ call[i].pc \in Busy
          /\ \/ mu' = mu /\ Goto(i, "attempt") /\ IsData(call[i].op)
             \/ mu' = NoCall /\ Goto(i, "failed") /\ attempt' = 0
      BY <1>5, FailureFacts
    <2>2. /\ \/ mu' = mu /\ call'[i].pc = "attempt" /\ IsData(call[i].op)
             \/ mu' = NoCall /\ call'[i].pc = "failed" /\ attempt' = 0
          /\ call'[i].op = call[i].op
          /\ \A j \in Calls : j # i => call'[j] = call[j]
      BY <1>p, <2>1, GotoFacts
    <2> QED
      BY <1>c, <2>1, <2>2, CallAssumption DEF LockHeld, Busy, At
  <1>6. ASSUME NEW i \in Calls, Greeted(i) \/ TakeReply(i) PROVE LockHeld'
    <2>1. /\ mu = i /\ call[i].pc \in Busy /\ conn' = conn
          /\ call'[i].op = call[i].op
          /\ \A j \in Calls : j # i => call'[j] = call[j]
          /\ \/ /\ call'[i].pc \in {"ok", "rejected"} /\ mu' = NoCall /\ attempt' = 0
             \/ /\ call[i].op.kind # "open" /\ call'[i].pc = "attempt"
                /\ UNCHANGED <<mu, attempt>>
      BY <1>6, TakeFacts DEF Busy
    <2> QED
      BY <1>c, <2>1, CallAssumption DEF LockHeld, Busy, At
  <1>7. ASSUME NEW i \in Calls, Transmit(i) PROVE LockHeld'
    <2>1. /\ UNCHANGED <<mu, conn, attempt>> /\ call[i].pc = "attempt" /\ conn # NoConn
          /\ Goto(i, "await")
      BY <1>7 DEF Transmit, At, fields
    <2>2. /\ call'[i].pc = "await" /\ call'[i].op = call[i].op
          /\ \A j \in Calls : j # i => call'[j] = call[j]
      BY <1>p, <2>1, GotoFacts
    <2> QED
      BY <1>c, <2>1, <2>2 DEF LockHeld, Busy, At
  <1>8. ASSUME NEW i \in Calls, CloseOrFail(i) PROVE LockHeld'
    <2>1. /\ UNCHANGED <<mu, attempt>> /\ call[i].pc = "blocked" /\ mu = NoCall
          /\ Goto(i, "failed") \/ Goto(i, "ok")
      BY <1>8 DEF CloseOrFail, At
    <2>2. /\ call'[i].pc \in {"failed", "ok"}
          /\ \A j \in Calls : j # i => call'[j] = call[j]
      BY <1>p, <2>1, GotoFacts
    <2> QED
      BY <1>c, <2>1, <2>2, CallAssumption DEF LockHeld, Busy, At
  <1>9. ASSUME NEW n, SetRetryPolicy(n) \/ SetRouting(n) PROVE LockHeld'
    BY <1>9 DEF SetRetryPolicy, SetRouting, LockHeld, At
  <1>10. ASSUME NEW k \in Conns, Device(k) PROVE LockHeld'
    BY <1>10 DEF Device, Greet, Execute, Refuse, Ignore, Sever, fields, LockHeld, At
  <1>11. CASE UNCHANGED vars
    BY <1>11 DEF vars, fields, LockHeld, At
  <1> QED
    BY <1>1, <1>2, <1>3, <1>4, <1>5, <1>6, <1>7, <1>8, <1>9, <1>10, <1>11
    DEF Next, Enter, Progress

-----------------------------------------------------------------------------
\* The connection carries nothing while no exchange is going on.
LEMMA IdleConnection ==
    ASSUME Inductive, conn # NoConn,
           \A i \in Calls : call[i].pc \notin {"greeting", "await"}
    PROVE  link[conn].req = <<>> /\ link[conn].rep = <<>>
  <1>1. conn \in Conns
    BY DEF Inductive, TypeOK
  <1>2. DOMAIN link[conn].req = {} /\ DOMAIN link[conn].rep = {}
    BY <1>1, OnTheWire DEF Inductive, StreamInSync, Exchanged, ForHolder, At
  <1> QED
    BY <1>1, <1>2, OnTheWire, QueueFacts DEF Inductive

\* A connection that carries nothing is in step.
LEMMA StreamEmpty ==
    ASSUME conn' # NoConn => link'[conn'].req = <<>> /\ link'[conn'].rep = <<>>
    PROVE  StreamInSync'
  <1>1. \A s, t : s = <<>> /\ t = <<>> =>
            Len(s) + Len(t) <= 1 /\ DOMAIN s = {} /\ DOMAIN t = {}
    OBVIOUS
  <1>2. ASSUME conn' # NoConn
        PROVE  /\ Len(link'[conn'].req) + Len(link'[conn'].rep) <= 1
               /\ DOMAIN link'[conn'].req = {}
               /\ DOMAIN link'[conn'].rep = {}
    BY <1>1, <1>2, Zenon
  <1> QED
    BY <1>2, Zenon DEF StreamInSync

\* What comes on the wire has to be traced to a call, what was there stays so.
LEMMA TracedKept ==
    ASSUME Traced, TypeOK,
           \A k \in Conns : \A n \in DOMAIN link'[k].req :
               \/ \E m \in DOMAIN link[k].req : link'[k].req[n] = link[k].req[m]
               \/ RequestTraced(link[k].req[n])',
           \A j \in Calls : call[j].pc # "new" =>
               call'[j].pc # "new" /\ call'[j].op = call[j].op
    PROVE  Traced'
  <1>1. ASSUME NEW k \in Conns, NEW n \in DOMAIN link'[k].req
        PROVE  RequestTraced(link[k].req[n])'
    <2>1. CASE \E m \in DOMAIN link[k].req : link'[k].req[n] = link[k].req[m]
      <3>1. PICK m \in DOMAIN link[k].req : link'[k].req[n] = link[k].req[m]
        BY <2>1
      <3>2. link[k].req[m].call \in Calls /\ RequestTraced(link[k].req[m])
        BY OnTheWire DEF Traced
      <3> QED
        BY <3>1, <3>2 DEF RequestTraced, At
    <2> QED
      BY <1>1, <2>1
  <1> QED
    BY <1>1 DEF Traced

\* Calls inside the loop stay charged, calls that failed stay accounted for.
LEMMA AccountKept ==
    ASSUME TypeOK, TypeOK', FaultsCharged, RetryMasksFaultsUnlessStale, checks' = checks,
           \A j \in Calls : faults'[j] >= faults[j],
           \A j \in Calls : call'[j].pc \in Busy /\ IsData(call'[j].op) =>
               /\ call[j].pc \in Busy /\ call'[j].op = call[j].op
               /\ call'[j].node = call[j].node /\ call'[j].budget = call[j].budget
               /\ attempt' = attempt
               /\ Doomed' =>
                     \/ Doomed \/ Stale(j) \/ faults'[j] > call[j].budget
                     \/ faults'[j] >= faults[j] + 1,
           \A j \in Calls : call'[j].pc = "failed" /\ IsData(call'[j].op) =>
               /\ call[j].pc = "failed" /\ call'[j].op = call[j].op
               /\ call'[j].node = call[j].node /\ call'[j].budget = call[j].budget
    PROVE  FaultsCharged' /\ RetryMasksFaultsUnlessStale'
  <1>t. /\ \A j \in Calls : faults[j] \in Nat /\ faults'[j] \in Nat
        /\ \A j \in Calls : call[j].budget \in Nat
        /\ attempt \in Nat
    BY CallFields DEF TypeOK
  <1>1. FaultsCharged'
    <2> SUFFICES ASSUME NEW j \in Calls, call'[j].pc \in Busy, IsData(call'[j].op)
                 PROVE  \/ Stale(j)'
                        \/ faults'[j] > call'[j].budget
                        \/ faults'[j] >= attempt' + (IF Doomed' THEN 1 ELSE 0)
      BY DEF FaultsCharged
    <2>1. /\ call[j].pc \in Busy /\ IsData(call[j].op) /\ call'[j].budget = call[j].budget
          /\ attempt' = attempt
          /\ Stale(j)' <=> Stale(j)
      BY DEF Stale
    <2>2. \/ Stale(j) \/ faults[j] > call[j].budget
          \/ faults[j] >= attempt + (IF Doomed THEN 1 ELSE 0)
      BY <2>1 DEF FaultsCharged
    <2>3. /\ Doomed' => \/ Doomed \/ Stale(j) \/ faults'[j] > call[j].budget
                        \/ faults'[j] >= faults[j] + 1
          /\ faults'[j] >= faults[j]
      OBVIOUS
    <2> QED
      BY <1>t, <2>1, <2>2, <2>3
  <1>2. RetryMasksFaultsUnlessStale'
    <2> SUFFICES ASSUME NEW j \in Calls, call'[j].pc = "failed", IsData(call'[j].op)
                 PROVE  faults'[j] > call'[j].budget \/ (checks' /\ call'[j].node # Node)
      BY DEF RetryMasksFaultsUnlessStale, At
    <2>1. faults[j] > call[j].budget \/ (checks /\ call[j].node # Node)
      BY DEF RetryMasksFaultsUnlessStale, At
    <2> QED
      BY <1>t, <2>1
  <1> QED
    BY <1>1, <1>2

\* A step outside the exchange: nothing happens on the wire.
LEMMA QuietStep ==
    ASSUME Inductive, TypeOK', LockHeld',
           UNCHANGED <<link, greeted, conn, mu, attempt, checks, faults>>,
           \A j \in Calls : call[j].pc \in Busy => call'[j] = call[j],
           \A j \in Calls : call'[j].pc \in Busy => call[j].pc \in Busy,
           \A j \in Calls : call[j].pc # "new" =>
               call'[j].pc # "new" /\ call'[j].op = call[j].op,
           \A j \in Calls : call'[j].pc = "failed" => call'[j] = call[j]
    PROVE  Inductive'
  <1>t. /\ TypeOK /\ LockHeld /\ SocketHeld /\ StreamInSync /\ HandshakeFirst
        /\ Traced /\ FaultsCharged /\ RetryMasksFaultsUnlessStale
    BY DEF Inductive
  <1>1. SocketHeld'
    BY <1>t DEF SocketHeld
  <1>2. StreamInSync'
    <2> SUFFICES ASSUME conn # NoConn PROVE StreamInSync'
      BY DEF StreamInSync
    <2>1. conn \in Conns
      BY <1>t DEF TypeOK
    <2>2. /\ \A n \in DOMAIN link[conn].req :
                link[conn].req[n].call \in Calls /\ Exchanged(link[conn].req[n])
          /\ \A n \in DOMAIN link[conn].rep :
                link[conn].rep[n].call \in Calls /\ ForHolder(link[conn].rep[n])
      BY <1>t, <2>1, OnTheWire DEF StreamInSync
    <2>3. ASSUME NEW m, m.call \in Calls, Exchanged(m) PROVE Exchanged(m)'
      BY <2>3 DEF Exchanged, At, Busy
    <2>4. ASSUME NEW m, m.call \in Calls, ForHolder(m) PROVE ForHolder(m)'
      BY <2>4 DEF ForHolder, Busy
    <2> QED
      BY <1>t, <2>2, <2>3, <2>4 DEF StreamInSync
  <1>3. HandshakeFirst'
    BY <1>t DEF HandshakeFirst, At, Busy
  <1>4. Traced'
    BY <1>t, TracedKept
  <1>5. FaultsCharged' /\ RetryMasksFaultsUnlessStale'
    <2>1. Doomed' <=> Doomed
      BY DEF Doomed
    <2>2. \A j \in Calls : faults'[j] >= faults[j]
      BY <1>t DEF TypeOK
    <2> QED
      BY <1>t, <2>1, <2>2, AccountKept
  <1> QED
    BY <1>1, <1>2, <1>3, <1>4, <1>5 DEF Inductive

\* The mutex is taken while the connection is idle; a dead one is a fault.
LEMMA AcquireStep ==
    ASSUME Inductive, TypeOK', LockHeld', NEW i \in Calls, Acquire(i)
    PROVE  Inductive'
  <1>t. /\ TypeOK /\ LockHeld /\ SocketHeld /\ HandshakeFirst
        /\ Traced /\ FaultsCharged /\ RetryMasksFaultsUnlessStale
    BY DEF Inductive
  <1>1. /\ UNCHANGED <<link, greeted, conn, checks, attempt>> /\ mu = NoCall /\ mu' = i
        /\ call[i].pc = "blocked" /\ call'[i].pc = "attempt"
        /\ call'[i].op = call[i].op
        /\ \A j \in Calls : j # i => call'[j] = call[j] /\ faults'[j] = faults[j]
        /\ faults'[i] = IF conn = NoConn \/ Live THEN 0 ELSE 1
    BY <1>t DEF Acquire, At, device, TypeOK
  <1>2. \A j \in Calls : call[j].pc \notin Busy
    BY <1>1, <1>t, CallAssumption DEF LockHeld
  <1>3. conn # NoConn => link[conn].req = <<>> /\ link[conn].rep = <<>>
    BY <1>2, IdleConnection DEF Busy
  <1>4. SocketHeld'
    BY <1>1, <1>t DEF SocketHeld
  <1>5. StreamInSync'
    BY <1>1, <1>3, StreamEmpty
  <1>6. HandshakeFirst'
    BY <1>1, <1>2, <1>t DEF HandshakeFirst, At, Busy
  <1>7. Traced'
    BY <1>1, <1>t, TracedKept
  <1>8. FaultsCharged'
    <2> SUFFICES ASSUME NEW j \in Calls, call'[j].pc \in Busy
                 PROVE  faults'[j] >= attempt' + (IF Doomed' THEN 1 ELSE 0)
      BY DEF FaultsCharged
    <2>1. j = i /\ attempt' = 0
      BY <1>1, <1>2, <1>t DEF LockHeld
    <2>2. Doomed' => conn # NoConn /\ ~ Live
      <3>1. conn # NoConn => DOMAIN link[conn].rep = {}
        BY <1>3
      <3> QED
        BY <1>1, <3>1 DEF Doomed, Live
    <2> QED
      BY <1>1, <2>1, <2>2
  <1>9. RetryMasksFaultsUnlessStale'
    BY <1>1, <1>t DEF RetryMasksFaultsUnlessStale, At
  <1> QED
    BY <1>4, <1>5, <1>6, <1>7, <1>8, <1>9 DEF Inductive

\* A step that hangs up leaves no connection to be out of step.
LEMMA HangUpStep ==
    ASSUME Inductive, TypeOK', CloseLocked, FaultsCharged', RetryMasksFaultsUnlessStale',
           LockHeld',
           \A j \in Calls : call[j].pc # "new" =>
               call'[j].pc # "new" /\ call'[j].op = call[j].op
    PROVE  Inductive'
  <1>1. /\ conn' = NoConn
        /\ \A k \in Conns : link'[k].st = "down" /\ link'[k].req = link[k].req
    BY HangUpFacts DEF Inductive
  <1>2. SocketHeld' /\ StreamInSync' /\ HandshakeFirst'
    BY <1>1 DEF SocketHeld, StreamInSync, HandshakeFirst
  <1>3. Traced'
    BY <1>1, TracedKept DEF Inductive
  <1> QED
    BY <1>2, <1>3 DEF Inductive

LEMMA FailureStep ==
    ASSUME Inductive, TypeOK', LockHeld', NEW i \in Calls, Fail(i) \/ RefuseReply(i)
    PROVE  Inductive'
  <1>t. /\ TypeOK /\ LockHeld /\ FaultsCharged /\ RetryMasksFaultsUnlessStale
    BY DEF Inductive
  <1>1. /\ CloseLocked /\ checks' = checks /\ mu = i /\ call[i].pc \in Busy
        /\ \/ /\ mu' = mu /\ Goto(i, "attempt")
              /\ attempt' = attempt + 1 /\ IsData(call[i].op)
           \/ /\ mu' = NoCall /\ Goto(i, "failed")
              /\ attempt' = 0 /\ (IsData(call[i].op) => ~ MoreAttempts(i))
        /\ faults' = faults \/ faults' = MoreFaults(i)
        /\ Doomed \/ faults' = MoreFaults(i)
    BY <1>t, FailureFacts DEF device
  <1>2. /\ \/ /\ mu' = mu /\ call'[i].pc = "attempt" /\ attempt' = attempt + 1
           \/ /\ mu' = NoCall /\ call'[i].pc = "failed"
              /\ (IsData(call[i].op) => ~ MoreAttempts(i))
        /\ call'[i].op = call[i].op /\ call'[i].node = call[i].node
        /\ call'[i].budget = call[i].budget
        /\ \A j \in Calls : j # i => call'[j] = call[j]
    <2>1. "attempt" \in Waiting /\ "failed" \in Returned
      BY DEF Waiting, Returned
    <2> QED
      BY <1>t, <1>1, <2>1, GotoFacts
  <1>3. /\ \A j \in Calls : faults'[j] \in Nat /\ faults[j] \in Nat /\ faults'[j] >= faults[j]
        /\ attempt \in Nat /\ call[i].budget \in Nat
        /\ Doomed \/ faults'[i] > call[i].budget \/ faults'[i] = faults[i] + 1
    BY <1>t, <1>1, MoreFaultsFacts, CallFields DEF TypeOK
  <1>4. ASSUME IsData(call[i].op)
        PROVE  Stale(i) \/ faults'[i] > call[i].budget \/ faults'[i] >= attempt + 1
    <2>1. \/ Stale(i) \/ faults[i] > call[i].budget
          \/ faults[i] >= attempt + (IF Doomed THEN 1 ELSE 0)
      BY <1>t, <1>1, <1>4 DEF FaultsCharged
    <2> QED
      BY <1>3, <2>1
  <1>5. FaultsCharged'
    <2> SUFFICES ASSUME NEW j \in Calls, call'[j].pc \in Busy, IsData(call'[j].op)
                 PROVE  \/ Stale(j)'
                        \/ faults'[j] > call'[j].budget
                        \/ faults'[j] >= attempt' + (IF Doomed' THEN 1 ELSE 0)
      BY DEF FaultsCharged
    <2>1. ~ Doomed'
      BY <1>1 DEF Doomed, CloseLocked
    <2>2. CASE j = i
      <3>1. /\ attempt' = attempt + 1 /\ IsData(call[i].op)
            /\ Stale(i)' <=> Stale(i)
        BY <1>1, <1>2, <2>2 DEF Busy, Stale
      <3> QED
        BY <1>2, <1>3, <1>4, <2>1, <2>2, <3>1
    <2>3. CASE j # i
      BY <1>1, <1>2, <1>t, <2>3 DEF LockHeld
    <2> QED
      BY <2>2, <2>3
  <1>6. RetryMasksFaultsUnlessStale'
    <2> SUFFICES ASSUME NEW j \in Calls, call'[j].pc = "failed", IsData(call'[j].op)
                 PROVE  faults'[j] > call'[j].budget \/ (checks' /\ call'[j].node # Node)
      BY DEF RetryMasksFaultsUnlessStale, At
    <2>1. CASE j = i
      <3>1. ~ MoreAttempts(i) /\ IsData(call[i].op)
        BY <1>2, <2>1
      <3>2. attempt >= call[i].budget
        BY <1>3, <3>1 DEF MoreAttempts
      <3>3. Stale(i) \/ faults'[i] > call[i].budget
        BY <1>3, <1>4, <3>1, <3>2
      <3> QED
        BY <1>1, <1>2, <2>1, <3>3 DEF Stale
    <2>2. CASE j # i
      <3>1. faults[j] > call[j].budget \/ (checks /\ call[j].node # Node)
        BY <1>2, <1>t, <2>2 DEF RetryMasksFaultsUnlessStale, At
      <3>2. call[j].budget \in Nat
        BY <1>t, CallFields
      <3> QED
        BY <1>1, <1>2, <1>3, <2>2, <3>1, <3>2
    <2> QED
      BY <2>1, <2>2
  <1>7. \A j \in Calls : call[j].pc # "new" =>
            call'[j].pc # "new" /\ call'[j].op = call[j].op
    BY <1>2
  <1> QED
    BY <1>1, <1>5, <1>6, <1>7, HangUpStep

LEMMA CloseStep ==
    ASSUME Inductive, TypeOK', LockHeld', NEW i \in Calls, CloseOrFail(i)
    PROVE  Inductive'
  <1>t. /\ TypeOK /\ LockHeld /\ FaultsCharged /\ RetryMasksFaultsUnlessStale
    BY DEF Inductive
  <1>1. /\ CloseLocked /\ UNCHANGED <<checks, mu, faults>> /\ mu = NoCall
        /\ call[i].pc = "blocked" /\ ~ IsData(call[i].op)
        /\ \E p \in {"ok", "failed"} : Goto(i, p)
    BY DEF CloseOrFail, At, IsData, device, history
  <1>2. /\ call'[i].op = call[i].op /\ call'[i].pc \in {"ok", "failed"}
        /\ \A j \in Calls : j # i => call'[j] = call[j]
    <2>1. "ok" \in Returned /\ "failed" \in Returned
      BY DEF Returned
    <2> QED
      BY <1>t, <1>1, <2>1, GotoFacts
  <1>3. FaultsCharged'
    BY <1>1, CallAssumption DEF FaultsCharged, LockHeld
  <1>4. RetryMasksFaultsUnlessStale'
    BY <1>1, <1>2, <1>t DEF RetryMasksFaultsUnlessStale, At
  <1>5. \A j \in Calls : call[j].pc # "new" =>
            call'[j].pc # "new" /\ call'[j].op = call[j].op
    BY <1>2
  <1> QED
    BY <1>1, <1>3, <1>4, <1>5, HangUpStep

\* A dial: nothing but the handshake of the caller is on the new connection.
LEMMA DialStep ==
    ASSUME Inductive, TypeOK', LockHeld', NEW i \in Calls, NEW k \in Conns,
           Connect(i, k) \/ Open(i, k)
    PROVE  Inductive'
  <1>t. /\ TypeOK /\ LockHeld /\ SocketHeld /\ Traced
        /\ FaultsCharged /\ RetryMasksFaultsUnlessStale
    BY DEF Inductive
  <1>1. /\ conn' = k /\ link'[k].st = "up"
        /\ link'[k].req = <<Handshake(i)>> /\ link'[k].rep = <<>>
        /\ \A j \in Conns : j # k =>
              /\ link'[j].st = IF j = conn THEN "down" ELSE link[j].st
              /\ link'[j].req = link[j].req
    BY <1>t, DialFacts
  <1>2. /\ Goto(i, "greeting") /\ mu' = i /\ UNCHANGED <<checks, attempt, faults>>
        /\ call[i].pc # "new"
        /\ call[i].pc \in Busy \/ ~ IsData(call[i].op)
    BY DEF Connect, Open, At, history, Inductive, LockHeld, Busy, IsData
  <1>3. /\ call'[i].pc = "greeting" /\ call'[i].op = call[i].op
        /\ call'[i].node = call[i].node /\ call'[i].budget = call[i].budget
        /\ \A j \in Calls : j # i => call'[j] = call[j]
    <2>1. "greeting" \in Waiting
      BY DEF Waiting
    <2> QED
      BY <1>t, <1>2, <2>1, GotoFacts
  <1>4. Handshake(i).call = i /\ Handshake(i).cmd = "handshake"
    BY DEF Handshake
  <1>5. SocketHeld'
    BY <1>1, <1>t DEF SocketHeld
  <1>6. /\ Len(link'[k].req) + Len(link'[k].rep) <= 1
        /\ DOMAIN link'[k].rep = {}
        /\ \A n \in DOMAIN link'[k].req : link'[k].req[n] = Handshake(i)
    BY <1>1
  <1>7. StreamInSync'
    BY <1>1, <1>2, <1>3, <1>4, <1>6 DEF StreamInSync, Exchanged, At
  <1>8. HandshakeFirst'
    BY <1>1, <1>3 DEF HandshakeFirst, At
  <1>9. Traced'
    <2>1. ASSUME NEW j \in Conns, NEW n \in DOMAIN link'[j].req
          PROVE  \/ \E m \in DOMAIN link[j].req : link'[j].req[n] = link[j].req[m]
                 \/ RequestTraced(link[j].req[n])'
      <3>1. CASE j = k
        BY <1>3, <1>4, <1>6, <2>1, <3>1 DEF RequestTraced, At
      <3>2. CASE j # k
        BY <1>1, <2>1, <3>2
      <3> QED
        BY <3>1, <3>2
    <2>2. \A j \in Calls : call[j].pc # "new" =>
              call'[j].pc # "new" /\ call'[j].op = call[j].op
      BY <1>3
    <2> QED
      BY <1>t, <2>1, <2>2, TracedKept
  <1>10. FaultsCharged' /\ RetryMasksFaultsUnlessStale'
    <2>1. ~ Doomed'
      BY <1>1, <1>6 DEF Doomed
    <2>2. \A j \in Calls : faults'[j] >= faults[j]
      BY <1>2, <1>t DEF TypeOK
    <2>3. \A j \in Calls : call'[j].pc \in Busy /\ IsData(call'[j].op) =>
               /\ call[j].pc \in Busy /\ call'[j].op = call[j].op
               /\ call'[j].node = call[j].node /\ call'[j].budget = call[j].budget
      BY <1>2, <1>3
    <2>4. \A j \in Calls : call'[j].pc = "failed" => call'[j] = call[j]
      BY <1>3
    <2> QED
      BY <1>t, <1>2, <2>1, <2>2, <2>3, <2>4, AccountKept
  <1> QED
    BY <1>5, <1>7, <1>8, <1>9, <1>10 DEF Inductive

\* A command goes out on a connection that carries nothing.
LEMMA TransmitStep ==
    ASSUME Inductive, TypeOK', LockHeld', NEW i \in Calls, Transmit(i)
    PROVE  Inductive'
  <1>t. /\ TypeOK /\ LockHeld /\ SocketHeld /\ HandshakeFirst /\ Traced
        /\ FaultsCharged /\ RetryMasksFaultsUnlessStale
    BY DEF Inductive
  <1>1. PICK q \in Request : q = [call |-> i, cmd |-> "send", node |-> call[i].node]
    BY <1>t, CallFields DEF Request
  <1>2. /\ conn \in Conns /\ mu = i /\ IsData(call[i].op)
        /\ link' = Written(conn, q) /\ call[i].pc = "attempt" /\ Goto(i, "await")
        /\ UNCHANGED <<checks, greeted, mu, conn, attempt, faults>>
    <2>1. mu = i /\ IsData(call[i].op) /\ conn \in Conns
      BY <1>t DEF Transmit, At, LockHeld, Busy, TypeOK
    <2> QED
      BY <1>1, <2>1 DEF Transmit, At, device, fields, history
  <1>3. /\ call'[i].pc = "await" /\ call'[i].op = call[i].op
        /\ call'[i].node = call[i].node /\ call'[i].budget = call[i].budget
        /\ \A j \in Calls : j # i => call'[j] = call[j]
    <2>1. "await" \in Waiting
      BY DEF Waiting
    <2> QED
      BY <1>t, <1>2, <2>1, GotoFacts
  <1>4. \A j \in Calls : call[j].pc \notin {"greeting", "await"}
    BY <1>2, <1>t DEF LockHeld, Busy
  <1>5. link[conn].req = <<>> /\ link[conn].rep = <<>>
    BY <1>2, <1>4, IdleConnection, NoConnAssumption
  <1>6. \A j \in Conns :
           /\ link'[j].st = link[j].st
           /\ link'[j].req = IF j = conn /\ link[j].st = "up"
                             THEN Append(link[j].req, q) ELSE link[j].req
           /\ link'[j].rep = link[j].rep
    BY <1>t, <1>2, WrittenFields DEF TypeOK
  <1>7. /\ link'[conn].rep = <<>> /\ link'[conn].st = link[conn].st
        /\ link'[conn].req = IF link[conn].st = "up" THEN <<q>> ELSE <<>>
    <2>1. Append(<<>>, q) = <<q>>
      OBVIOUS
    <2> QED
      BY <1>2, <1>5, <1>6, <2>1
  <1>8. q.call = i /\ q.cmd = "send" /\ q.node = call[i].node
    BY <1>1
  <1>9. SocketHeld'
    <2>1. \A j \in Conns : link'[j].st = link[j].st
      BY <1>6
    <2> QED
      BY <1>t, <1>2, <2>1 DEF SocketHeld
  <1>10. StreamInSync'
    <2>1. CASE link[conn].st # "up"
      BY <1>2, <1>7, <2>1, StreamEmpty
    <2>2. CASE link[conn].st = "up"
      <3>1. /\ Len(link'[conn].req) + Len(link'[conn].rep) <= 1
            /\ DOMAIN link'[conn].rep = {}
            /\ \A n \in DOMAIN link'[conn].req : link'[conn].req[n] = q
        <4>1. link'[conn].req = <<q>> /\ link'[conn].rep = <<>>
          BY <1>7, <2>2
        <4> QED
          BY <4>1
      <3> QED
        BY <1>2, <1>3, <1>7, <1>8, <2>2, <3>1 DEF StreamInSync, Exchanged, At
    <2> QED
      BY <2>1, <2>2
  <1>11. HandshakeFirst'
    BY <1>2, <1>4, <1>t, NoConnAssumption DEF HandshakeFirst, At
  <1>12. Traced'
    <2>1. ASSUME NEW j \in Conns, NEW n \in DOMAIN link'[j].req
          PROVE  \/ \E m \in DOMAIN link[j].req : link'[j].req[n] = link[j].req[m]
                 \/ RequestTraced(link[j].req[n])'
      <3>1. CASE j = conn /\ link[conn].st = "up"
        <4>1. link'[j].req = <<q>>
          BY <1>7, <3>1
        <4>2. link'[j].req[n] = q
          BY <2>1, <4>1
        <4> QED
          BY <1>2, <1>3, <1>8, <4>2 DEF RequestTraced, At
      <3>2. CASE ~ (j = conn /\ link[conn].st = "up")
        BY <1>6, <2>1, <3>2
      <3> QED
        BY <3>1, <3>2
    <2>2. \A j \in Calls : call[j].pc # "new" =>
              call'[j].pc # "new" /\ call'[j].op = call[j].op
      BY <1>3
    <2> QED
      BY <1>t, <2>1, <2>2, TracedKept
  <1>13. FaultsCharged' /\ RetryMasksFaultsUnlessStale'
    <2>1. Doomed' => Doomed
      BY <1>2, <1>5, <1>7 DEF Doomed
    <2>2. \A j \in Calls : faults'[j] >= faults[j]
      BY <1>2, <1>t DEF TypeOK
    <2>3. \A j \in Calls : call'[j].pc \in Busy /\ IsData(call'[j].op) =>
               /\ call[j].pc \in Busy /\ call'[j].op = call[j].op
               /\ call'[j].node = call[j].node /\ call'[j].budget = call[j].budget
      BY <1>2, <1>3 DEF Busy
    <2>4. \A j \in Calls : call'[j].pc = "failed" => call'[j] = call[j]
      BY <1>3
    <2> QED
      BY <1>t, <1>2, <2>1, <2>2, <2>3, <2>4, AccountKept
  <1> QED
    BY <1>9, <1>10, <1>11, <1>12, <1>13 DEF Inductive

\* The reply that is read is the only message on the connection.
LEMMA TakeStep ==
    ASSUME Inductive, TypeOK', LockHeld', NEW i \in Calls, Greeted(i) \/ TakeReply(i)
    PROVE  Inductive'
  <1>t. /\ TypeOK /\ LockHeld /\ SocketHeld /\ StreamInSync /\ HandshakeFirst /\ Traced
        /\ FaultsCharged /\ RetryMasksFaultsUnlessStale
    BY DEF Inductive
  <1>1. /\ conn \in Conns /\ link[conn].rep # <<>> /\ link' = Consumed(conn)
        /\ mu = i /\ call[i].pc \in {"greeting", "await"}
        /\ UNCHANGED <<checks, greeted, conn, faults>>
        /\ call'[i].op = call[i].op /\ call'[i].node = call[i].node
        /\ call'[i].budget = call[i].budget
        /\ \A j \in Calls : j # i => call'[j] = call[j]
        /\ \/ call'[i].pc \in {"ok", "rejected"}
           \/ call'[i].pc = "attempt" /\ attempt' = attempt
    BY <1>t, TakeFacts DEF device, history
  <1>2. \A j \in Conns :
           /\ link'[j].st = link[j].st
           /\ link'[j].req = link[j].req
           /\ link'[j].rep = IF j = conn THEN Tail(link[j].rep) ELSE link[j].rep
    BY <1>t, <1>1, ConsumedFields DEF TypeOK
  <1>3. link'[conn].req = <<>> /\ link'[conn].rep = <<>>
    <2>1. Len(link[conn].req) + Len(link[conn].rep) <= 1
      BY <1>1, <1>t, NoConnAssumption DEF StreamInSync
    <2>2. Tail(link[conn].rep) = <<>> /\ link[conn].req = <<>>
      BY <1>t, <1>1, <2>1, OnTheWire, LastMessage
    <2> QED
      BY <1>1, <1>2, <2>2
  <1>4. SocketHeld'
    BY <1>t, <1>1, <1>2 DEF SocketHeld
  <1>5. StreamInSync'
    BY <1>1, <1>3, StreamEmpty
  <1>6. HandshakeFirst'
    BY <1>t, <1>1, NoConnAssumption DEF HandshakeFirst
  <1>7. \A j \in Calls : call[j].pc # "new" =>
            call'[j].pc # "new" /\ call'[j].op = call[j].op
    BY <1>1
  <1>8. Traced'
    BY <1>t, <1>2, <1>7, TracedKept
  <1>9. FaultsCharged' /\ RetryMasksFaultsUnlessStale'
    <2>1. Doomed' => Doomed
      <3>1. DOMAIN link'[conn].rep = {}
        BY <1>3
      <3> QED
        BY <1>1, <1>2, <3>1 DEF Doomed
    <2>2. \A j \in Calls : faults'[j] >= faults[j]
      BY <1>1, <1>t DEF TypeOK
    <2>3. \A j \in Calls : call'[j].pc \in Busy /\ IsData(call'[j].op) =>
               /\ call[j].pc \in Busy /\ call'[j].op = call[j].op
               /\ call'[j].node = call[j].node /\ call'[j].budget = call[j].budget
               /\ attempt' = attempt
      <3> SUFFICES ASSUME NEW j \in Calls, call'[j].pc \in Busy
                   PROVE  /\ call[j].pc \in Busy /\ call'[j].op = call[j].op
                          /\ call'[j].node = call[j].node /\ call'[j].budget = call[j].budget
                          /\ attempt' = attempt
        OBVIOUS
      <3>1. CASE j = i
        BY <1>1, <3>1 DEF Busy
      <3>2. CASE j # i
        BY <1>1, <1>t, <3>2 DEF LockHeld
      <3> QED
        BY <3>1, <3>2
    <2>4. \A j \in Calls : call'[j].pc = "failed" => call'[j] = call[j]
      BY <1>1
    <2> QED
      BY <1>t, <1>1, <2>1, <2>2, <2>3, <2>4, AccountKept
  <1> QED
    BY <1>4, <1>5, <1>6, <1>8, <1>9 DEF Inductive

\* An answer has the call of the request it is for; a bad one is charged, or
\* given to a stale command.
LEMMA AnsweredStep ==
    ASSUME Inductive, TypeOK', LockHeld', NEW k \in Conns,
           NEW kind \in {"normal", "bad", "short"},
           Greet(k, kind) \/ Execute(k, kind) \/ Refuse(k)
    PROVE  Inductive'
  <1>t. /\ TypeOK /\ LockHeld /\ SocketHeld /\ StreamInSync /\ HandshakeFirst /\ Traced
        /\ FaultsCharged /\ RetryMasksFaultsUnlessStale
    BY DEF Inductive
  <1>1. PICK q \in Request, r \in Reply :
            /\ link[k].req # <<>> /\ q = link[k].req[1]
            /\ 1 \in DOMAIN link[k].req /\ q.call \in Calls
            /\ link' = Answered(k, r) /\ r.call = q.call
            /\ UNCHANGED <<checks, fields, call>>
            /\ \/ q.cmd = "handshake" /\ greeted' = [greeted EXCEPT ![k] = TRUE]
               \/ q.cmd = "send" /\ greeted' = greeted
            /\ faults' = faults \/ faults' = MoreFaults(q.call)
            /\ k = conn /\ r.kind = "bad" =>
                  \/ faults' = MoreFaults(q.call)
                  \/ q.cmd = "send" /\ ~ Admits(q)
    BY <1>t, AnswerFacts
  <1>2. UNCHANGED <<checks, mu, conn, attempt, call>>
    BY <1>1 DEF fields
  <1>3. link[k].req \in Seq(Request) /\ link[k].rep \in Seq(Reply)
    BY <1>t, OnTheWire
  <1>4. \A j \in Conns :
           /\ link'[j].st = link[j].st
           /\ link'[j].req = IF j = k THEN Tail(link[j].req) ELSE link[j].req
           /\ link'[j].rep = IF j = k /\ link[j].st = "up"
                             THEN Append(link[j].rep, r) ELSE link[j].rep
    <2>1. link \in [Conns -> Links(Request, Reply)]
      BY <1>t DEF TypeOK
    <2> QED
      BY <1>1, <2>1, AnsweredFields
  <1>5. ASSUME conn = k
        PROVE  /\ link[k].st = "up" /\ link[k].rep = <<>> /\ Exchanged(q)
               /\ link'[k].st = "up" /\ link'[k].req = <<>> /\ link'[k].rep = <<r>>
    <2>1. /\ Len(link[k].req) + Len(link[k].rep) <= 1 /\ Exchanged(q)
          /\ link[k].st = "up"
      BY <1>1, <1>5, <1>t, NoConnAssumption DEF StreamInSync
    <2>2. Tail(link[k].req) = <<>> /\ link[k].rep = <<>>
      BY <1>1, <1>3, <2>1, LastMessage
    <2>3. Append(<<>>, r) = <<r>>
      OBVIOUS
    <2> QED
      BY <1>4, <2>1, <2>2, <2>3
  <1>6. ASSUME conn # k, conn # NoConn
        PROVE  /\ conn \in Conns /\ link'[conn].st = link[conn].st
               /\ link'[conn].req = link[conn].req /\ link'[conn].rep = link[conn].rep
               /\ greeted'[conn] = greeted[conn]
    BY <1>1, <1>4, <1>6, <1>t DEF TypeOK
  <1>7. SocketHeld'
    <2>1. \A j \in Conns : link'[j].st = link[j].st
      BY <1>4
    <2>2. conn' = conn /\ conn \in Conns \cup {NoConn}
      BY <1>2, <1>t DEF TypeOK
    <2> QED
      BY <1>t, <2>1, <2>2 DEF SocketHeld
  <1>8. StreamInSync'
    <2>1. CASE conn = k
      <3>1. ForHolder(r)'
        BY <1>1, <1>2, <1>5, <2>1 DEF Exchanged, ForHolder, At
      <3>2. /\ Len(link'[k].req) + Len(link'[k].rep) <= 1
            /\ DOMAIN link'[k].req = {}
            /\ \A n \in DOMAIN link'[k].rep : link'[k].rep[n] = r
        <4>1. link'[k].req = <<>> /\ link'[k].rep = <<r>>
          BY <1>5, <2>1
        <4> QED
          BY <4>1
      <3> QED
        BY <1>2, <1>5, <2>1, <3>1, <3>2 DEF StreamInSync
    <2>2. CASE conn # k
      <3> SUFFICES ASSUME conn # NoConn PROVE StreamInSync'
        BY <1>2 DEF StreamInSync
      <3>1. /\ \A n \in DOMAIN link[conn].req : Exchanged(link[conn].req[n])
            /\ \A n \in DOMAIN link[conn].rep : ForHolder(link[conn].rep[n])
            /\ Len(link[conn].req) + Len(link[conn].rep) <= 1
            /\ link[conn].st # "up" => link[conn].req = <<>>
        BY <1>t DEF StreamInSync
      <3>2. /\ \A n \in DOMAIN link'[conn].req : Exchanged(link[conn].req[n])'
            /\ \A n \in DOMAIN link'[conn].rep : ForHolder(link[conn].rep[n])'
        BY <1>2, <1>6, <2>2, <3>1 DEF Exchanged, ForHolder, At
      <3>3. /\ Len(link'[conn].req) + Len(link'[conn].rep) <= 1
            /\ link'[conn].st # "up" => link'[conn].req = <<>>
        BY <1>6, <2>2, <3>1
      <3> QED
        BY <1>2, <3>2, <3>3, Zenon DEF StreamInSync
    <2> QED
      BY <2>1, <2>2
  <1>9. HandshakeFirst'
    <2>1. CASE conn = k
      <3>1. CASE q.cmd = "handshake"
        BY <1>1, <1>2, <1>t, <2>1, <3>1 DEF HandshakeFirst, TypeOK
      <3>2. CASE q.cmd = "send"
        <4>1. call[q.call].pc = "await" /\ mu = q.call
          BY <1>5, <2>1, <3>2 DEF Exchanged, At
        <4>2. \A i \in Calls : ~ At(i, "greeting")
          BY <1>1, <1>t, <4>1 DEF LockHeld, Busy, At
        <4> QED
          BY <1>1, <1>2, <1>t, <2>1, <3>2, <4>2, NoConnAssumption DEF HandshakeFirst
      <3> QED
        BY <1>1, <3>1, <3>2
    <2>2. CASE conn # k
      BY <1>2, <1>6, <1>t, <2>2 DEF HandshakeFirst, At
    <2> QED
      BY <2>1, <2>2
  <1>10. Traced'
    <2>1. \A n \in DOMAIN Tail(link[k].req) :
              \E m \in DOMAIN link[k].req : Tail(link[k].req)[n] = link[k].req[m]
      BY <1>1, <1>3, TailElements
    <2>2. \A j \in Conns : \A n \in DOMAIN link'[j].req :
              \E m \in DOMAIN link[j].req : link'[j].req[n] = link[j].req[m]
      <3> SUFFICES ASSUME NEW j \in Conns, NEW n \in DOMAIN link'[j].req
                   PROVE  \E m \in DOMAIN link[j].req : link'[j].req[n] = link[j].req[m]
        OBVIOUS
      <3>1. CASE j = k
        <4>1. link'[j].req = Tail(link[k].req)
          BY <1>4, <3>1
        <4> QED
          BY <2>1, <3>1, <4>1
      <3>2. CASE j # k
        <4>1. link'[j].req = link[j].req
          BY <1>4, <3>2
        <4> QED
          BY <4>1
      <3> QED
        BY <3>1, <3>2
    <2> QED
      BY <1>2, <1>t, <2>2, TracedKept
  <1>11. FaultsCharged' /\ RetryMasksFaultsUnlessStale'
    <2>1. \A j \in Calls : faults'[j] >= faults[j]
      <3>1. CASE faults' = faults
        <4>1. \A j \in Calls : faults[j] \in Nat
          BY <1>t DEF TypeOK
        <4> QED
          BY <3>1, <4>1
      <3>2. CASE faults' = MoreFaults(q.call)
        BY <1>1, <1>t, <3>2, MoreFaultsFacts
      <3> QED
        BY <1>1, <3>1, <3>2
    <2>2. ASSUME NEW j \in Calls, call[j].pc \in Busy, Doomed'
          PROVE  \/ Doomed \/ Stale(j) \/ faults'[j] > call[j].budget
                 \/ faults'[j] >= faults[j] + 1
      <3>1. CASE conn = k
        <4>1. r.kind = "bad"
          <5>1. link'[k].st = "up" /\ link'[k].rep = <<r>>
            BY <1>5, <3>1
          <5>2. \A n \in DOMAIN link'[k].rep : link'[k].rep[n] = r
            BY <5>1
          <5> QED
            BY <1>2, <2>2, <3>1, <5>1, <5>2 DEF Doomed
        <4>2. j = q.call
          BY <1>5, <1>t, <2>2, <3>1 DEF Exchanged, LockHeld
        <4>3. CASE faults' = MoreFaults(q.call)
          <5>1. faults[j] \in Nat /\ faults'[j] \in Nat
            BY <1>t DEF TypeOK
          <5>2. faults'[j] > call[j].budget \/ faults'[j] = faults[j] + 1
            BY <1>1, <1>t, <4>2, <4>3, MoreFaultsFacts
          <5> QED
            BY <5>1, <5>2
        <4>4. CASE q.cmd = "send" /\ ~ Admits(q)
          BY <1>5, <3>1, <4>2, <4>4 DEF Admits, Exchanged, Stale
        <4> QED
          BY <1>1, <3>1, <4>1, <4>3, <4>4
      <3>2. CASE conn # k
        BY <1>2, <1>6, <2>2, <3>2 DEF Doomed
      <3> QED
        BY <3>1, <3>2
    <2>3. \A j \in Calls : call'[j] = call[j]
      BY <1>2
    <2> QED
      BY <1>2, <1>t, <2>1, <2>2, <2>3, AccountKept
  <1> QED
    BY <1>7, <1>8, <1>9, <1>10, <1>11 DEF Inductive

\* A request that the device drops, or a connection that it ends, leaves less
\* to be out of step; the end of a connection is charged.
LEMMA LossStep ==
    ASSUME Inductive, TypeOK', LockHeld', NEW k \in Conns, Ignore(k) \/ Sever(k)
    PROVE  Inductive'
  <1>t. /\ TypeOK /\ LockHeld /\ SocketHeld /\ StreamInSync /\ HandshakeFirst /\ Traced
        /\ FaultsCharged /\ RetryMasksFaultsUnlessStale
    BY DEF Inductive
  <1>1. UNCHANGED <<checks, greeted, mu, conn, attempt, call>>
    BY DEF Ignore, Sever, device, fields
  <1>2. \A j \in Conns : j # k => link'[j] = link[j]
    BY <1>t DEF Ignore, Sever, Ignored, Severed, TypeOK
  <1>3. /\ link'[k].rep = link[k].rep
        /\ link'[k].req = <<>> \/ (link[k].req # <<>> /\ link'[k].req = Tail(link[k].req))
        /\ \/ link'[k].st = link[k].st /\ faults' = faults /\ link[k].req # <<>>
           \/ /\ link'[k].st = "cut" /\ link[k].st = "up" /\ link'[k].req = <<>>
              /\ faults' = IF mu # NoCall THEN MoreFaults(mu) ELSE faults
    <2>1. CASE Ignore(k)
      BY <1>t, <2>1, IgnoredFields DEF Ignore, TypeOK, history
    <2>2. CASE Sever(k)
      BY <1>t, <2>2, SeveredFields DEF Sever, TypeOK
    <2> QED
      BY <2>1, <2>2
  <1>4. link[k].req \in Seq(Request) /\ link[k].rep \in Seq(Reply)
    BY <1>t, OnTheWire
  <1>5. /\ \A n \in DOMAIN link'[k].req :
              \E m \in DOMAIN link[k].req : link'[k].req[n] = link[k].req[m]
        /\ Len(link'[k].req) <= Len(link[k].req)
    <2>1. CASE link'[k].req = <<>>
      BY <1>4, <2>1, QueueFacts
    <2>2. CASE link[k].req # <<>> /\ link'[k].req = Tail(link[k].req)
      BY <1>4, <2>2, QueueFacts, TailElements
    <2> QED
      BY <1>3, <2>1, <2>2
  <1>6. SocketHeld'
    BY <1>t, <1>1, <1>2, <1>3 DEF SocketHeld, TypeOK
  <1>7. StreamInSync'
    <2>1. CASE conn = k
      <3>1. /\ Len(link[k].req) + Len(link[k].rep) <= 1
            /\ \A n \in DOMAIN link[k].req : Exchanged(link[k].req[n])
            /\ \A n \in DOMAIN link[k].rep : ForHolder(link[k].rep[n])
            /\ link[k].st # "up" => link[k].req = <<>>
        BY <1>t, <2>1, NoConnAssumption DEF StreamInSync
      <3>2. Len(link'[k].req) + Len(link'[k].rep) <= 1
        <4>1. /\ Len(link'[k].req) \in Nat
              /\ Len(link[k].req) \in Nat /\ Len(link[k].rep) \in Nat
          BY <1>3, <1>4, <1>5, QueueFacts, HeadFacts
        <4>2. PICK a \in Nat, b \in Nat, d \in Nat :
                  a = Len(link'[k].req) /\ b = Len(link[k].req) /\ d = Len(link[k].rep)
          BY <4>1
        <4>3. a <= b /\ b + d <= 1
          BY <1>5, <3>1, <4>2
        <4>4. a + d <= 1
          BY <4>3
        <4>5. link'[k].rep = link[k].rep
          BY <1>3
        <4> QED
          BY <4>2, <4>4, <4>5
      <3>3. /\ \A n \in DOMAIN link'[k].req : Exchanged(link[k].req[n])'
            /\ \A n \in DOMAIN link'[k].rep : ForHolder(link[k].rep[n])'
        <4>1. \A n \in DOMAIN link'[k].req : Exchanged(link[k].req[n])'
          BY <1>1, <1>5, <3>1 DEF Exchanged, At
        <4>2. \A n \in DOMAIN link'[k].rep : ForHolder(link[k].rep[n])'
          BY <1>1, <1>3, <3>1 DEF ForHolder
        <4> QED
          BY <4>1, <4>2
      <3>4. link'[k].st # "up" => link'[k].req = <<>>
        BY <1>3, <3>1
      <3> QED
        BY <1>1, <2>1, <3>2, <3>3, <3>4, Zenon DEF StreamInSync
    <2>2. CASE conn # k
      <3> SUFFICES ASSUME conn # NoConn PROVE StreamInSync'
        BY <1>1 DEF StreamInSync
      <3>1. link'[conn] = link[conn] /\ conn' = conn
        BY <1>t, <1>1, <1>2, <2>2 DEF TypeOK
      <3>2. (\A m : Exchanged(m)' <=> Exchanged(m)) /\ (\A m : ForHolder(m)' <=> ForHolder(m))
        BY <1>1 DEF Exchanged, ForHolder, At
      <3> QED
        BY <1>t, <3>1, <3>2 DEF StreamInSync
    <2> QED
      BY <2>1, <2>2
  <1>8. HandshakeFirst'
    <2>1. conn # NoConn => link'[conn].rep = link[conn].rep
      BY <1>2, <1>3, <1>t DEF TypeOK
    <2> QED
      BY <1>t, <1>1, <2>1 DEF HandshakeFirst, At
  <1>9. Traced'
    BY <1>t, <1>1, <1>2, <1>5, TracedKept
  <1>10. FaultsCharged' /\ RetryMasksFaultsUnlessStale'
    <2>1. faults' = faults \/ (mu \in Calls /\ faults' = MoreFaults(mu))
      BY <1>3, <1>t DEF TypeOK
    <2>2. \A j \in Calls : faults'[j] >= faults[j]
      BY <1>t, <2>1, MoreFaultsFacts DEF TypeOK
    <2>3. ASSUME NEW j \in Calls, call[j].pc \in Busy, Doomed'
          PROVE  \/ Doomed \/ faults'[j] > call[j].budget
                 \/ faults'[j] >= faults[j] + 1
      <3>1. CASE link'[k].st = link[k].st
        BY <1>1, <1>2, <1>3, <1>t, <2>3, <3>1 DEF Doomed, TypeOK
      <3>2. CASE link'[k].st # link[k].st
        <4>1. mu = j /\ mu # NoCall
          BY <1>t, <2>3, CallAssumption DEF LockHeld
        <4>2. faults' = MoreFaults(j)
          BY <1>3, <3>2, <4>1
        <4>3. faults'[j] > call[j].budget \/ faults'[j] = faults[j] + 1
          BY <1>t, <4>2, MoreFaultsFacts
        <4>4. faults[j] \in Nat
          BY <1>t DEF TypeOK
        <4> QED
          BY <4>3, <4>4
      <3> QED
        BY <3>1, <3>2
    <2>4. \A j \in Calls : call'[j] = call[j]
      BY <1>1
    <2> QED
      BY <1>1, <1>t, <2>2, <2>3, <2>4, AccountKept
  <1> QED
    BY <1>6, <1>7, <1>8, <1>9, <1>10 DEF Inductive

-----------------------------------------------------------------------------
LEMMA InductiveNext == Inductive /\ [Next]_vars => Inductive'
  <1> SUFFICES ASSUME Inductive, [Next]_vars PROVE Inductive'
    OBVIOUS
  <1>t. /\ TypeOK /\ TypeOK' /\ LockHeld'
        /\ call \in [Calls -> CallType]
    BY NextType, LockNext DEF Inductive, TypeOK, CallType
  <1>1. ASSUME NEW i \in Calls, NEW o \in Ops, Invoke(i, o) PROVE Inductive'
    <2>1. /\ UNCHANGED <<link, greeted, conn, mu, attempt, checks, faults>>
          /\ call[i].pc = "new" /\ call'[i].pc \in {"blocked", "build"}
          /\ \A j \in Calls : j # i => call'[j] = call[j]
      BY <1>1, <1>t DEF Invoke, At, fields, device, history, CallType
    <2> QED
      BY <1>t, <2>1, QuietStep DEF Busy
  <1>2. ASSUME NEW i \in Calls, ReturnLocally(i) \/ Build(i) PROVE Inductive'
    <2>1. /\ UNCHANGED <<link, greeted, conn, mu, attempt, checks, faults>>
          /\ call[i].pc = "build" /\ call'[i].pc \in {"blocked", "rejected"}
          /\ call'[i].op = call[i].op
          /\ \A j \in Calls : j # i => call'[j] = call[j]
      BY <1>2, <1>t DEF ReturnLocally, Build, Goto, At, fields, device, history, CallType
    <2> QED
      BY <1>t, <2>1, QuietStep DEF Busy
  <1>3. ASSUME NEW n, SetRetryPolicy(n) \/ SetRouting(n) PROVE Inductive'
    <2>1. UNCHANGED <<link, greeted, conn, mu, attempt, checks, faults, call>>
      BY <1>3 DEF SetRetryPolicy, SetRouting, device, history
    <2> QED
      BY <1>t, <2>1, QuietStep
  <1>4. CASE UNCHANGED vars
    <2>1. UNCHANGED <<link, greeted, conn, mu, attempt, checks, faults, call>>
      BY <1>4 DEF vars, device, fields, history
    <2> QED
      BY <1>t, <2>1, QuietStep
  <1>5. ASSUME NEW i \in Calls, Enter(i) \/ Progress(i) PROVE Inductive'
    BY <1>2, <1>5, <1>t, AcquireStep, DialStep, CloseStep, TransmitStep, TakeStep, FailureStep
    DEF Enter, Progress
  <1>6. ASSUME NEW k \in Conns, Device(k) PROVE Inductive'
    BY <1>6, <1>t, AnsweredStep, LossStep DEF Device
  <1> QED
    BY <1>1, <1>3, <1>4, <1>5, <1>6 DEF Next

LEMMA InductiveInit == Init => Inductive
  <1> SUFFICES ASSUME Init PROVE Inductive
    OBVIOUS
  <1>1. TypeOK
    BY InitType
  <1>2. /\ mu = NoCall /\ conn = NoConn /\ attempt = 0
        /\ \A i \in Calls : call[i].pc = "new"
        /\ \A k \in Conns : link[k].st = "down" /\ DOMAIN link[k].req = {}
    BY DEF Init, Down
  <1>3. LockHeld /\ FaultsCharged
    BY <1>2, CallAssumption DEF LockHeld, FaultsCharged, Busy
  <1>4. SocketHeld /\ StreamInSync /\ HandshakeFirst
    BY <1>2 DEF SocketHeld, StreamInSync, HandshakeFirst
  <1>5. Traced /\ RetryMasksFaultsUnlessStale
    BY <1>2 DEF Traced, RetryMasksFaultsUnlessStale, At
  <1> QED
    BY <1>1, <1>3, <1>4, <1>5 DEF Inductive

THEOREM InductiveInvariant == Spec => []Inductive
  <1>1. Init => Inductive
    BY InductiveInit
  <1>2. Inductive /\ [Next]_vars => Inductive'
    BY InductiveNext
  <1> QED
    BY <1>1, <1>2, PTL DEF Spec

\* Every variable keeps its type, through every action of the client, the
\* device and the network.
THEOREM TypeCorrect == Spec => []TypeOK
  <1>1. Inductive => TypeOK
    BY DEF Inductive
  <1> QED
    BY <1>1, InductiveInvariant, PTL

\* Open, Close and ensureConnLocked leave no socket open that the client does
\* not hold; on the one it holds there is at most one message, of the call that
\* has the mutex, and no command before the device has seen the handshake.
THEOREM ConnectionsStayInStep == Spec => []ConnectionInStep
  <1>1. Inductive => ConnectionInStep
    <2> SUFFICES ASSUME Inductive PROVE ConnectionInStep
      OBVIOUS
    <2>1. TypeOK /\ LockHeld /\ SocketHeld /\ StreamInSync /\ HandshakeFirst
      BY DEF Inductive
    <2>2. ASSUME conn # NoConn, NEW n \in DOMAIN link[conn].req,
                 link[conn].req[n].cmd = "send"
          PROVE  greeted[conn]
      <3>1. conn \in Conns /\ Exchanged(link[conn].req[n])
        BY <2>1, <2>2 DEF StreamInSync, TypeOK
      <3>2. call[mu].pc = "await" /\ mu \in Calls
        BY <2>1, <2>2, <3>1, OnTheWire DEF Exchanged, At
      <3>3. \A i \in Calls : ~ At(i, "greeting")
        BY <2>1, <3>2 DEF LockHeld, Busy, At
      <3> QED
        BY <2>1, <2>2, <3>3 DEF HandshakeFirst
    <2> QED
      BY <2>1, <2>2 DEF ConnectionInStep, SocketHeld, StreamInSync, Exchanged, ForHolder
  <1> QED
    BY <1>1, InductiveInvariant, PTL

\* A command fails only after more faults than retries, whatever the policy, or
\* because it was put together with the da1 of another node.
THEOREM OnlyTheStaleNodeDefeatsRetries == Spec => []RetryMasksFaultsUnlessStale
  <1>1. Inductive => RetryMasksFaultsUnlessStale
    BY DEF Inductive
  <1> QED
    BY <1>1, InductiveInvariant, PTL

-----------------------------------------------------------------------------
(***************************************************************************)
(* OmronFinsClient implements DataService: every step of the client, of    *)
(* its connections and of its device is a step of the service or none.     *)
(* Handshakes, which the service knows nothing of, are none.               *)
(***************************************************************************)

\* A connection holds at most one request, so the commands of a call are as
\* many as the connections they are on.
OneRequest == \A k \in Conns : Len(link[k].req) <= 1

Countable == \A i \in Calls : IsFiniteSet(Copies(i))

\* A reply that the client may take for that of a command was given when the
\* device executed it: it says what the device reported then.
Reported(r) ==
    At(r.call, "await") /\ r.kind # "bad" =>
        /\ call[r.call].op.kind = "read" /\ r.kind = "normal" => r.val \in seen[r.call]
        /\ call[r.call].op.kind = "write" => hits[r.call] > 0 /\ r.val = NoVal

AllReported ==
    conn # NoConn => \A n \in DOMAIN link[conn].rep : Reported(link[conn].rep[n])

\* A call that has not returned has no value.
Unset == \A i \in Calls : call[i].pc \in {"new"} \cup Waiting => call[i].val = NoVal

Served ==
    /\ Inductive
    /\ OneRequest
    /\ Countable
    /\ AllReported
    /\ Unset

-----------------------------------------------------------------------------
\* Requests.

SameCopies == \A j \in Calls : Copies(j)' = Copies(j)

LEMMA SameRequestsSameCopies ==
    ASSUME \A k \in Conns : link'[k].req = link[k].req
    PROVE  SameCopies
  <1> SUFFICES ASSUME NEW j \in Calls PROVE Copies(j)' = Copies(j)
    BY DEF SameCopies
  <1> QED
    BY DEF Copies

\* Where the requests of one connection alone change, and stay one or none.
LEMMA OneConnectionChanges ==
    ASSUME OneRequest, Countable, NEW k,
           \A j \in Conns : j # k => link'[j].req = link[j].req,
           k \in Conns => Len(link'[k].req) <= 1
    PROVE  OneRequest' /\ Countable'
  <1>1. OneRequest'
    <2> SUFFICES ASSUME NEW j \in Conns PROVE Len(link'[j].req) <= 1
      BY DEF OneRequest
    <2> QED
      BY DEF OneRequest
  <1>2. ASSUME NEW i \in Calls PROVE IsFiniteSet(Copies(i))'
    <2>1. Copies(i)' \subseteq Copies(i) \cup {k}
      BY DEF Copies
    <2>2. IsFiniteSet(Copies(i) \cup {k})
      BY FS_AddElement DEF Countable
    <2>3. IsFiniteSet(Copies(i)')
      BY <2>1, <2>2, FS_Subset
    <2> QED
      BY <2>3
  <1> QED
    BY <1>1, <1>2 DEF Countable

\* The request of a connection, if there is one, is all there is.
LEMMA OnlyRequest ==
    ASSUME TypeOK, Traced, OneRequest, NEW k \in Conns, link[k].req # <<>>
    PROVE  /\ DOMAIN link[k].req = {1} /\ Tail(link[k].req) = <<>>
           /\ Head(link[k].req) = link[k].req[1]
           /\ link[k].req[1] \in Request /\ link[k].req[1].call \in Calls
           /\ link[k].req[1].cmd = "send" => IsData(call[link[k].req[1].call].op)
  <1>1. link[k].req \in Seq(Request) /\ Len(link[k].req) <= 1
    BY OnTheWire DEF OneRequest
  <1>2. /\ Len(link[k].req) \in Nat /\ DOMAIN link[k].req = 1 .. Len(link[k].req)
        /\ 1 \in DOMAIN link[k].req /\ Head(link[k].req) = link[k].req[1]
    BY <1>1, QueueFacts
  <1>3. DOMAIN link[k].req = {1} /\ Tail(link[k].req) = <<>>
    BY <1>1, <1>2
  <1> QED
    BY <1>2, <1>3, OnTheWire DEF Traced, RequestTraced

\* The request of k goes: a handshake, or a command that is no more in flight.
LEMMA RequestTaken ==
    ASSUME TypeOK, Traced, OneRequest, NEW k \in Conns, link[k].req # <<>>,
           \A j \in Conns : link'[j].req = IF j = k THEN <<>> ELSE link[j].req
    PROVE  \E q \in Request :
              /\ q = link[k].req[1] /\ q.call \in Calls
              /\ \/ q.cmd # "send" /\ SameCopies
                 \/ /\ q.cmd = "send" /\ k \in Copies(q.call)
                    /\ Copies(q.call)' = Copies(q.call) \ {k}
                    /\ \A j \in Calls : j # q.call => Copies(j)' = Copies(j)
  <1>1. PICK q \in Request : /\ q = link[k].req[1] /\ DOMAIN link[k].req = {1}
                             /\ q.call \in Calls
    BY OnlyRequest
  <1>2. \A j \in Calls : k \in Copies(j) <=> j = q.call /\ q.cmd = "send"
    BY <1>1 DEF Copies
  <1>3. \A j \in Calls : Copies(j)' = Copies(j) \ {k}
    <2>1. DOMAIN <<>> = {}
      OBVIOUS
    <2> QED
      BY <2>1 DEF Copies
  <1>4. \A j \in Calls : ~ (j = q.call /\ q.cmd = "send") => Copies(j)' = Copies(j)
    BY <1>2, <1>3
  <1>5. q.cmd # "send" => SameCopies
    BY <1>4 DEF SameCopies
  <1>6. q.cmd = "send" =>
            /\ k \in Copies(q.call) /\ Copies(q.call)' = Copies(q.call) \ {k}
            /\ \A j \in Calls : j # q.call => Copies(j)' = Copies(j)
    BY <1>1, <1>2, <1>3, <1>4
  <1> QED
    BY <1>1, <1>5, <1>6

\* The number of commands in flight follows the connections that carry one.
LEMMA InFlight ==
    ASSUME Countable, NEW c \in Calls, NEW k,
           \A j \in Calls : j # c => Copies(j)' = Copies(j)
    PROVE  LET fly == [j \in Calls |-> Cardinality(Copies(j))] IN
           /\ k \in Copies(c) /\ Copies(c)' = Copies(c) \ {k} =>
                 fly[c] > 0 /\ fly' = [fly EXCEPT ![c] = @ - 1]
           /\ k \notin Copies(c) /\ Copies(c)' = Copies(c) \cup {k} =>
                 fly' = [fly EXCEPT ![c] = @ + 1]
  <1> DEFINE fly == [j \in Calls |-> Cardinality(Copies(j))]
  <1>1. IsFiniteSet(Copies(c)) /\ Cardinality(Copies(c)) \in Nat
    BY FS_CardinalityType DEF Countable
  <1>2. \A j \in Calls : j # c => fly'[j] = fly[j]
    OBVIOUS
  <1>3. ASSUME k \in Copies(c), Copies(c)' = Copies(c) \ {k}
        PROVE  fly[c] > 0 /\ fly' = [fly EXCEPT ![c] = @ - 1]
    <2>1. Cardinality(Copies(c)) # 0
      BY <1>1, <1>3, FS_EmptySet
    <2>2. Cardinality(Copies(c) \ {k}) = Cardinality(Copies(c)) - 1
      BY <1>1, <1>3, FS_RemoveElement
    <2>3. fly'[c] = fly[c] - 1
      BY <1>3, <2>2
    <2>4. fly[c] > 0
      BY <1>1, <2>1
    <2>5. fly' = [fly EXCEPT ![c] = @ - 1]
      BY <1>2, <2>3
    <2> QED
      BY <2>4, <2>5
  <1>4. ASSUME k \notin Copies(c), Copies(c)' = Copies(c) \cup {k}
        PROVE  fly' = [fly EXCEPT ![c] = @ + 1]
    <2>1. Cardinality(Copies(c) \cup {k}) = Cardinality(Copies(c)) + 1
      BY <1>1, <1>4, FS_AddElement
    <2>2. fly'[c] = fly[c] + 1
      BY <1>4, <2>1
    <2> QED
      BY <1>2, <2>2
  <1> QED
    BY <1>3, <1>4

-----------------------------------------------------------------------------
\* Steps of the service.

\* The service sees no change of call j.
Same(j) == Status(j)' = Status(j) /\ call'[j].op = call[j].op /\ call'[j].val = call[j].val

\* The status of a call is where it is, and nothing else.
LEMMA StatusFacts ==
    ASSUME TypeOK, NEW i \in Calls
    PROVE  /\ Status(i) = "new" <=> call[i].pc = "new"
           /\ Status(i) = "pending" <=> call[i].pc \in Waiting
           /\ Status(i) = "ok" <=> call[i].pc = "ok"
           /\ Status(i) = "failed" <=> call[i].pc \in {"failed", "rejected"}
  <1>1. call[i].pc \in {"new"} \cup Waiting \cup Returned
    BY CallFields
  <1> QED
    BY <1>1 DEF Status, At, Waiting, Returned

LEMMA Stutter ==
    ASSUME UNCHANGED <<store, seen, hits>>, SameCopies, \A j \in Calls : Same(j)
    PROVE  UNCHANGED Service!vars
  <1>1. /\ [j \in Calls |-> Status(j)]' = [j \in Calls |-> Status(j)]
        /\ [j \in Calls |-> call[j].op]' = [j \in Calls |-> call[j].op]
        /\ [j \in Calls |-> call[j].val]' = [j \in Calls |-> call[j].val]
    BY DEF Same
  <1>2. [j \in Calls |-> Cardinality(Copies(j))]' = [j \in Calls |-> Cardinality(Copies(j))]
    BY DEF SameCopies
  <1> QED
    BY <1>1, <1>2 DEF Service!vars

LEMMA FailStep ==
    ASSUME UNCHANGED <<store, seen, hits>>, SameCopies,
           NEW i \in Calls, Status(i) = "pending", Status(i)' = "failed",
           call'[i].op = call[i].op, call'[i].val = call[i].val,
           \A j \in Calls : j # i => Same(j)
    PROVE  Service!Next
  <1>1. /\ [j \in Calls |-> Status(j)]' = [[j \in Calls |-> Status(j)] EXCEPT ![i] = "failed"]
        /\ [j \in Calls |-> call[j].op]' = [j \in Calls |-> call[j].op]
        /\ [j \in Calls |-> call[j].val]' = [j \in Calls |-> call[j].val]
    BY DEF Same
  <1>2. [j \in Calls |-> Cardinality(Copies(j))]' = [j \in Calls |-> Cardinality(Copies(j))]
    BY DEF SameCopies
  <1>3. Service!Fail(i)
    BY <1>1, <1>2 DEF Service!Fail
  <1> QED
    BY <1>3 DEF Service!Next

LEMMA SucceedStep ==
    ASSUME UNCHANGED <<store, seen, hits>>, SameCopies,
           NEW i \in Calls, Status(i) = "pending", Status(i)' = "ok",
           call'[i].op = call[i].op,
           \A j \in Calls : j # i => Same(j),
           call[i].op.kind = "write" => hits[i] > 0,
           call[i].op.kind = "read" => call'[i].val \in seen[i],
           call[i].op.kind # "read" => call'[i].val = call[i].val
    PROVE  Service!Next
  <1>1. /\ [j \in Calls |-> Status(j)]' = [[j \in Calls |-> Status(j)] EXCEPT ![i] = "ok"]
        /\ [j \in Calls |-> call[j].op]' = [j \in Calls |-> call[j].op]
        /\ [j \in Calls |-> call[j].val]' =
              [[j \in Calls |-> call[j].val] EXCEPT ![i] = call'[i].val]
    BY DEF Same
  <1>2. [j \in Calls |-> Cardinality(Copies(j))]' = [j \in Calls |-> Cardinality(Copies(j))]
    BY DEF SameCopies
  <1>3. call[i].op.kind # "read" =>
            [j \in Calls |-> call[j].val]' = [j \in Calls |-> call[j].val]
    BY DEF Same
  <1>4. Service!Succeed(i)
    BY <1>1, <1>2, <1>3 DEF Service!Succeed
  <1> QED
    BY <1>4 DEF Service!Next

\* A request is gone, or there was none: that of a handshake does not count.
LEMMA LoseStep ==
    ASSUME TypeOK, Traced, OneRequest, Countable,
           UNCHANGED <<store, seen, hits>>, \A j \in Calls : Same(j), NEW k \in Conns,
           \A j \in Conns : link'[j].req = IF j = k THEN <<>> ELSE link[j].req
    PROVE  [Service!Next]_(Service!vars)
  <1>1. CASE link[k].req = <<>>
    <2>1. SameCopies
      BY <1>1, SameRequestsSameCopies
    <2> QED
      BY <2>1, Stutter
  <1>2. CASE link[k].req # <<>>
    <2>1. PICK q \in Request :
              /\ q.call \in Calls
              /\ \/ SameCopies
                 \/ /\ k \in Copies(q.call) /\ Copies(q.call)' = Copies(q.call) \ {k}
                    /\ \A j \in Calls : j # q.call => Copies(j)' = Copies(j)
      BY <1>2, RequestTaken
    <2>2. CASE SameCopies
      BY <2>2, Stutter
    <2>3. CASE ~ SameCopies
      <3>1. PICK c \in Calls :
                /\ k \in Copies(c) /\ Copies(c)' = Copies(c) \ {k}
                /\ \A j \in Calls : j # c => Copies(j)' = Copies(j)
        BY <2>1, <2>3
      <3>2. /\ [j \in Calls |-> Status(j)]' = [j \in Calls |-> Status(j)]
            /\ [j \in Calls |-> call[j].op]' = [j \in Calls |-> call[j].op]
            /\ [j \in Calls |-> call[j].val]' = [j \in Calls |-> call[j].val]
        BY DEF Same
      <3>3. Service!Lose(c)
        BY <3>1, <3>2, InFlight DEF Service!Lose
      <3> QED
        BY <3>3 DEF Service!Next
    <2> QED
      BY <2>2, <2>3
  <1> QED
    BY <1>1, <1>2

\* The device executes the command of k.
LEMMA ExecuteStep ==
    ASSUME TypeOK, Traced, OneRequest, Countable, NEW k \in Conns,
           NEW kind \in {"normal", "bad", "short"}, Execute(k, kind)
    PROVE  Service!Next
  <1>1. link[k].req # <<>> /\ UNCHANGED call
    BY DEF Execute
  <1>2. /\ Head(link[k].req) = link[k].req[1] /\ Tail(link[k].req) = <<>>
        /\ IsData(call[link[k].req[1].call].op)
    BY <1>1, OnlyRequest DEF Execute
  <1>3. \A j \in Conns : link'[j].req = IF j = k THEN <<>> ELSE link[j].req
    BY <1>2 DEF Execute, Answered, TypeOK, Links
  <1>4. PICK q \in Request :
            /\ q = link[k].req[1] /\ q.call \in Calls
            /\ \/ q.cmd # "send" /\ SameCopies
               \/ /\ q.cmd = "send" /\ k \in Copies(q.call)
                  /\ Copies(q.call)' = Copies(q.call) \ {k}
                  /\ \A j \in Calls : j # q.call => Copies(j)' = Copies(j)
    BY <1>1, <1>3, RequestTaken
  <1>5. PICK c \in Calls : c = q.call
    BY <1>4
  <1>6. /\ k \in Copies(c) /\ Copies(c)' = Copies(c) \ {k}
        /\ \A j \in Calls : j # c => Copies(j)' = Copies(j)
    BY <1>2, <1>4, <1>5 DEF Execute
  <1>7. /\ hits' = [hits EXCEPT ![c] = @ + 1]
        /\ \/ /\ call[c].op.kind = "write"
              /\ store' = [store EXCEPT ![call[c].op.addr] = call[c].op.val]
              /\ UNCHANGED seen
           \/ /\ call[c].op.kind = "read"
              /\ seen' = [seen EXCEPT ![c] = @ \cup {store[call[c].op.addr]}]
              /\ UNCHANGED store
    BY <1>2, <1>4, <1>5 DEF Execute, IsData
  <1>8. /\ [j \in Calls |-> Status(j)]' = [j \in Calls |-> Status(j)]
        /\ [j \in Calls |-> call[j].op]' = [j \in Calls |-> call[j].op]
        /\ [j \in Calls |-> call[j].val]' = [j \in Calls |-> call[j].val]
    BY <1>1 DEF Status, At
  <1>9. Service!Execute(c)
    BY <1>6, <1>7, <1>8, InFlight DEF Service!Execute
  <1> QED
    BY <1>9 DEF Service!Next

\* A command written on a live connection is one more in flight.
LEMMA SendStep ==
    ASSUME Served, NEW i \in Calls, Transmit(i)
    PROVE  [Service!Next]_(Service!vars)
  <1> DEFINE q == [call |-> i, cmd |-> "send", node |-> call[i].node]
  <1>t. TypeOK /\ LockHeld
    BY DEF Served, Inductive
  <1>0. /\ UNCHANGED <<store, seen, hits>>
        /\ link' = Written(conn, q)
        /\ conn \in Conns
        /\ IsData(call[i].op)
        /\ call[i].pc = "attempt"
        /\ call' = [call EXCEPT ![i].pc = "await"]
        /\ \A j \in Calls : call[j].pc \notin {"greeting", "await"}
    BY <1>t DEF Transmit, history, device, TypeOK, LockHeld, Busy, At, Goto
  <1>1. q \in Request
    BY <1>t, CallFields DEF Request
  <1>2. link[conn].req = <<>>
    BY <1>0, IdleConnection, NoConnAssumption DEF Served
  <1>3. \A j \in Conns :
            link'[j].req = IF j = conn /\ link[j].st = "up"
                           THEN Append(<<>>, q) ELSE link[j].req
    <2>1. \A j \in Conns :
              link'[j].req = IF j = conn /\ link[j].st = "up"
                             THEN Append(link[j].req, q) ELSE link[j].req
      BY <1>t, <1>0, <1>1, WrittenFields DEF TypeOK
    <2> QED
      BY <1>2, <2>1
  <1>4. \A j \in Calls : Same(j)
    <2>1. \A j \in Calls : call'[j].op = call[j].op /\ call'[j].val = call[j].val
      BY <1>0, <1>t DEF TypeOK
    <2>2. \A j \in Calls : call'[j].pc = IF j = i THEN "await" ELSE call[j].pc
      BY <1>0, <1>t DEF TypeOK
    <2>3. \A j \in Calls : Status(j)' = Status(j)
      BY <1>0, <2>2 DEF Status, At, Waiting
    <2> QED
      BY <2>1, <2>3 DEF Same
  <1>5. CASE link[conn].st # "up"
    <2>1. SameCopies
      BY <1>3, <1>5, SameRequestsSameCopies
    <2> QED
      BY <1>0, <1>4, <2>1, Stutter
  <1>6. CASE link[conn].st = "up"
    <2>1. /\ DOMAIN Append(<<>>, q) = {1} /\ Append(<<>>, q)[1] = q /\ DOMAIN <<>> = {}
          /\ q.call = i /\ q.cmd = "send"
      OBVIOUS
    <2>2. \A j \in Calls : conn \notin Copies(j)
      BY <1>2, <2>1 DEF Copies
    <2>3. \A j \in Calls : Copies(j)' = IF j = i THEN Copies(j) \cup {conn} ELSE Copies(j)
      <3>1. ASSUME NEW j \in Calls, NEW k \in Conns
            PROVE  k \in Copies(j)' <=> k \in Copies(j) \/ (j = i /\ k = conn)
        <4>1. CASE k = conn
          BY <1>3, <1>6, <2>1, <2>2, <4>1 DEF Copies
        <4>2. CASE k # conn
          BY <1>3, <4>2 DEF Copies
        <4> QED
          BY <4>1, <4>2
      <3> QED
        BY <1>0, <3>1 DEF Copies
    <2>4. [j \in Calls |-> Cardinality(Copies(j))]' =
             [[j \in Calls |-> Cardinality(Copies(j))] EXCEPT ![i] = @ + 1]
      <3>1. PICK k : k = conn
        OBVIOUS
      <3> QED
        BY <2>2, <2>3, <3>1, InFlight DEF Served
    <2>5. /\ [j \in Calls |-> Status(j)]' = [j \in Calls |-> Status(j)]
          /\ [j \in Calls |-> call[j].op]' = [j \in Calls |-> call[j].op]
          /\ [j \in Calls |-> call[j].val]' = [j \in Calls |-> call[j].val]
      BY <1>4 DEF Same
    <2>6. Status(i) = "pending"
      BY <1>0, <1>t, StatusFacts DEF Waiting
    <2>7. Service!Send(i)
      BY <1>0, <2>4, <2>5, <2>6 DEF Service!Send, IsData
    <2> QED
      BY <2>7 DEF Service!Next
  <1> QED
    BY <1>5, <1>6

\* What the device does takes the request of one connection.
LEMMA TakenOrSevered ==
    ASSUME TypeOK, Traced, OneRequest, NEW k \in Conns, Device(k)
    PROVE  \A j \in Conns : link'[j].req = IF j = k THEN <<>> ELSE link[j].req
  <1>1. CASE Sever(k)
    BY <1>1, SeveredFields DEF Sever, TypeOK
  <1>2. CASE ~ Sever(k)
    <2>1. link[k].req # <<>> /\ Tail(link[k].req) = <<>>
      BY <1>2, OnlyRequest DEF Device, Greet, Execute, Refuse, Ignore
    <2>2. \A j \in Conns : link'[j].req = IF j = k THEN Tail(link[j].req) ELSE link[j].req
      <3>1. ASSUME NEW kind \in {"normal", "bad", "short"},
                   Greet(k, kind) \/ Execute(k, kind) \/ Refuse(k)
            PROVE  \A j \in Conns :
                      link'[j].req = IF j = k THEN Tail(link[j].req) ELSE link[j].req
        <4>1. PICK r \in Reply : link' = Answered(k, r)
          BY <3>1, AnswerFacts
        <4> QED
          BY <4>1, AnsweredFields DEF TypeOK
      <3>2. CASE Ignore(k)
        BY <3>2, IgnoredFields DEF Ignore, TypeOK
      <3> QED
        BY <1>2, <3>1, <3>2 DEF Device
    <2> QED
      BY <2>1, <2>2
  <1> QED
    BY <1>1, <1>2

\* An answer other than of an execution: to the service the request is lost.
LEMMA DeviceStep ==
    ASSUME Served, NEW k \in Conns, Device(k)
    PROVE  [Service!Next]_(Service!vars)
  <1>t. TypeOK /\ Traced /\ OneRequest /\ Countable
    BY DEF Served, Inductive
  <1>1. ASSUME NEW kind \in {"normal", "bad", "short"}, Execute(k, kind)
        PROVE  Service!Next
    BY <1>1, <1>t, ExecuteStep
  <1>2. ASSUME \/ \E kind \in {"normal", "bad", "short"} : Greet(k, kind)
               \/ Refuse(k) \/ Ignore(k) \/ Sever(k)
        PROVE  [Service!Next]_(Service!vars)
    <2>1. UNCHANGED <<store, seen, hits>> /\ UNCHANGED call
      BY <1>2 DEF Greet, Refuse, Ignore, Sever, device, history
    <2>2. \A j \in Calls : Same(j)
      BY <2>1 DEF Same, Status, At
    <2>3. \A j \in Conns : link'[j].req = IF j = k THEN <<>> ELSE link[j].req
      BY <1>t, TakenOrSevered
    <2> QED
      BY <1>t, <2>1, <2>2, <2>3, LoseStep
  <1> QED
    BY <1>1, <1>2 DEF Device

\* A reply that is taken ends the call, with what the device reported if it
\* fits, or it ends a handshake.
LEMMA TakeServiceStep ==
    ASSUME Served, NEW i \in Calls, Greeted(i) \/ TakeReply(i)
    PROVE  [Service!Next]_(Service!vars)
  <1>t. TypeOK /\ LockHeld /\ StreamInSync /\ AllReported /\ Unset
    BY DEF Served, Inductive
  <1>f. /\ conn \in Conns /\ conn # NoConn /\ link[conn].rep # <<>> /\ link' = Consumed(conn)
        /\ mu = i /\ UNCHANGED <<store, seen, hits>>
        /\ call' \in [Calls -> CallType]
        /\ call'[i].op = call[i].op
        /\ \A j \in Calls : j # i => call'[j] = call[j]
    BY <1>t, TakeFacts, NoConnAssumption DEF device, history
  <1>1. SameCopies
    <2>1. \A k \in Conns : link'[k].req = link[k].req
      BY <1>t, <1>f, ConsumedFields DEF TypeOK
    <2> QED
      BY <2>1, SameRequestsSameCopies
  <1>2. \A j \in Calls : j # i => Same(j)
    BY <1>f DEF Same, Status, At
  <1>3. Status(i) = "pending"
    BY <1>t, StatusFacts DEF Greeted, TakeReply, At, Waiting
  <1>4. CASE Greeted(i)
    <2>1. call'[i].val = call[i].val
      BY <1>4, <1>t DEF Greeted, Return, Goto, TypeOK
    <2>2. \/ call'[i].pc = "ok" /\ call[i].op.kind = "open"
          \/ call'[i].pc = "attempt"
      BY <1>4, <1>t DEF Greeted, Return, Goto, TypeOK
    <2>3. CASE call'[i].pc = "ok" /\ call[i].op.kind = "open"
      <3>1. Status(i)' = "ok"
        BY <2>3 DEF Status, At, Waiting
      <3> QED
        BY <1>1, <1>2, <1>3, <1>f, <2>1, <2>3, <3>1, SucceedStep
    <2>4. CASE call'[i].pc = "attempt"
      <3>1. Status(i)' = "pending"
        BY <2>4 DEF Status, At, Waiting
      <3>2. \A j \in Calls : Same(j)
        BY <1>2, <1>3, <1>f, <2>1, <3>1 DEF Same
      <3> QED
        BY <1>1, <1>f, <3>2, Stutter
    <2> QED
      BY <2>2, <2>3, <2>4
  <1>5. CASE TakeReply(i)
    <2> DEFINE r == Head(link[conn].rep)
    <2>1. /\ r.call = i /\ r.kind # "bad" /\ At(i, "await") /\ Reported(r)
          /\ r.kind \in {"normal", "bad", "short"}
      <3>1. link[conn].rep \in Seq(Reply)
        BY <1>t, <1>f, OnTheWire
      <3>2. r = link[conn].rep[1] /\ 1 \in DOMAIN link[conn].rep /\ r \in Reply
        BY <1>f, <3>1, HeadFacts
      <3>3. r.call = i
        BY <1>t, <1>f, <3>2 DEF StreamInSync, ForHolder
      <3>4. Reported(r)
        BY <1>t, <1>f, <3>2 DEF AllReported
      <3>5. r.kind # "bad" /\ At(i, "await")
        BY <1>5 DEF TakeReply
      <3>6. r.kind \in {"normal", "bad", "short"}
        BY <3>2 DEF Reply
      <3> QED
        BY <3>3, <3>4, <3>5, <3>6
    <2>2. IsData(call[i].op) /\ call[i].val = NoVal
      BY <1>t, <2>1 DEF LockHeld, Unset, Busy, Waiting, At
    <2>3. CASE r.kind = "normal" \/ call[i].op.kind = "write"
      <3>1. call'[i].pc = "ok" /\ call'[i].val = r.val
        BY <1>5, <1>t, <2>3 DEF TakeReply, TypeOK
      <3>2. Status(i)' = "ok"
        BY <3>1 DEF Status, At, Waiting
      <3>3. /\ call[i].op.kind = "write" => hits[i] > 0
            /\ call[i].op.kind = "read" => call'[i].val \in seen[i]
            /\ call[i].op.kind # "read" => call'[i].val = call[i].val
        BY <2>1, <2>2, <2>3, <3>1 DEF Reported, IsData
      <3> QED
        BY <1>1, <1>2, <1>3, <1>f, <3>2, <3>3, SucceedStep
    <2>4. CASE ~ (r.kind = "normal" \/ call[i].op.kind = "write")
      <3>1. call'[i].pc = "rejected" /\ call'[i].val = call[i].val
        BY <1>5, <1>t, <2>4 DEF TakeReply, TypeOK
      <3>2. Status(i)' = "failed"
        BY <3>1 DEF Status, At, Waiting
      <3> QED
        BY <1>1, <1>2, <1>3, <1>f, <3>1, <3>2, FailStep
    <2> QED
      BY <2>3, <2>4
  <1> QED
    BY <1>4, <1>5

\* A connection that is closed leaves with the device what it has.  The call
\* goes on, or returns without having read or written.
LEMMA HangUpServiceStep ==
    ASSUME Served, NEW i \in Calls, Fail(i) \/ RefuseReply(i) \/ CloseOrFail(i)
    PROVE  [Service!Next]_(Service!vars)
  <1>t. TypeOK /\ LockHeld /\ SocketHeld
    BY DEF Served, Inductive
  <1>1. /\ CloseLocked /\ UNCHANGED <<store, seen, hits>>
        /\ call[i].pc \in Waiting
        /\ \/ Goto(i, "attempt") \/ Goto(i, "failed")
           \/ Goto(i, "ok") /\ call[i].op.kind = "close"
    <2>1. CASE Fail(i) \/ RefuseReply(i)
      BY <1>t, <2>1, FailureFacts DEF device, Busy, Waiting
    <2>2. CASE CloseOrFail(i)
      BY <2>2 DEF CloseOrFail, device, history, At, Waiting
    <2> QED
      BY <2>1, <2>2
  <1>2. SameCopies
    <2>1. \A k \in Conns : link'[k].req = link[k].req
      BY <1>1, <1>t, HangUpFacts
    <2> QED
      BY <2>1, SameRequestsSameCopies
  <1>3. PICK p \in {"attempt", "failed", "ok"} :
            Goto(i, p) /\ (p = "ok" => call[i].op.kind = "close")
    BY <1>1
  <1>4. /\ call'[i].pc = p /\ call'[i].op = call[i].op /\ call'[i].val = call[i].val
        /\ \A j \in Calls : j # i => call'[j] = call[j]
    BY <1>3, <1>t, GotoFacts DEF Waiting, Returned
  <1>5. (\A j \in Calls : j # i => Same(j)) /\ Status(i) = "pending"
    BY <1>1, <1>4, <1>t, StatusFacts DEF Same, Status, At
  <1>6. CASE p = "attempt"
    <2>1. Status(i)' = "pending"
      BY <1>4, <1>6 DEF Status, At, Waiting
    <2>2. \A j \in Calls : Same(j)
      BY <1>4, <1>5, <2>1 DEF Same
    <2> QED
      BY <1>1, <1>2, <2>2, Stutter
  <1>7. CASE p = "failed"
    <2>1. Status(i)' = "failed"
      BY <1>4, <1>7 DEF Status, At, Waiting
    <2> QED
      BY <1>1, <1>2, <1>4, <1>5, <2>1, FailStep
  <1>8. CASE p = "ok"
    <2>1. Status(i)' = "ok"
      BY <1>4, <1>8 DEF Status, At, Waiting
    <2> QED
      BY <1>1, <1>2, <1>3, <1>4, <1>5, <1>8, <2>1, SucceedStep
  <1> QED
    BY <1>3, <1>6, <1>7, <1>8

\* A connection begins with a handshake, which is no command.
LEMMA DialServiceStep ==
    ASSUME Served, NEW i \in Calls, NEW k \in Conns, Connect(i, k) \/ Open(i, k)
    PROVE  [Service!Next]_(Service!vars)
  <1>t. TypeOK
    BY DEF Served, Inductive
  <1>1. /\ link[k].req = <<>> /\ link'[k].req = <<Handshake(i)>>
        /\ \A j \in Conns : j # k => link'[j].req = link[j].req
    BY <1>t, DialFacts DEF Connect, Open, Free, Down
  <1>2. SameCopies
    <2>1. DOMAIN <<>> = {} /\ DOMAIN <<Handshake(i)>> = {1}
      OBVIOUS
    <2>2. <<Handshake(i)>>[1].cmd # "send"
      BY DEF Handshake
    <2>3. ASSUME NEW c \in Calls, NEW j \in Conns
          PROVE  j \in Copies(c)' <=> j \in Copies(c)
      BY <1>1, <2>1, <2>2 DEF Copies
    <2> QED
      BY <2>3 DEF SameCopies, Copies
  <1>3. /\ UNCHANGED <<store, seen, hits>> /\ Goto(i, "greeting")
        /\ call[i].pc \in Waiting
    BY DEF Connect, Open, history, At, Waiting
  <1>4. \A j \in Calls : Same(j)
    <2>1. /\ call'[i].pc = "greeting" /\ call'[i].op = call[i].op
          /\ call'[i].val = call[i].val
          /\ \A j \in Calls : j # i => call'[j] = call[j]
      BY <1>3, <1>t, GotoFacts DEF Waiting
    <2> QED
      BY <1>3, <2>1 DEF Same, Status, At, Waiting
  <1> QED
    BY <1>2, <1>3, <1>4, Stutter

\* Every step of the client is a step of the service or none.
LEMMA ServiceNext == Served /\ [Next]_vars => [Service!Next]_(Service!vars)
  <1> SUFFICES ASSUME Served, [Next]_vars PROVE [Service!Next]_(Service!vars)
    OBVIOUS
  <1>t. TypeOK
    BY DEF Served, Inductive
  <1>1. ASSUME NEW i \in Calls, NEW o \in Ops, Invoke(i, o)
        PROVE  [Service!Next]_(Service!vars)
    <2>1. SameCopies
      BY <1>1, SameRequestsSameCopies DEF Invoke
    <2>2. /\ Status(i) = "new" /\ call'[i].pc \in {"blocked", "build"}
          /\ call'[i].op = o /\ call'[i].val = call[i].val
          /\ \A j \in Calls : j # i => call'[j] = call[j]
      BY <1>1, <1>t DEF Invoke, Status, At, TypeOK
    <2>3. Status(i)' = "pending" /\ \A j \in Calls : j # i => Same(j)
      BY <2>2 DEF Status, At, Waiting, Same
    <2>4. /\ [j \in Calls |-> Status(j)]' = [[j \in Calls |-> Status(j)] EXCEPT ![i] = "pending"]
          /\ [j \in Calls |-> call[j].op]' = [[j \in Calls |-> call[j].op] EXCEPT ![i] = o]
          /\ [j \in Calls |-> call[j].val]' = [j \in Calls |-> call[j].val]
      BY <2>2, <2>3 DEF Same
    <2>5. [j \in Calls |-> Cardinality(Copies(j))]' = [j \in Calls |-> Cardinality(Copies(j))]
      BY <2>1 DEF SameCopies
    <2>6. Service!Invoke(i, o)
      BY <1>1, <2>2, <2>4, <2>5 DEF Service!Invoke, Invoke, device, history
    <2> QED
      BY <2>6 DEF Service!Next
  <1>2. ASSUME NEW i \in Calls, ReturnLocally(i) PROVE [Service!Next]_(Service!vars)
    <2>1. SameCopies
      BY <1>2, SameRequestsSameCopies DEF ReturnLocally
    <2>2. /\ call[i].pc = "build" /\ call'[i].pc = "rejected"
          /\ call'[i].op = call[i].op /\ call'[i].val = call[i].val
          /\ \A j \in Calls : j # i => call'[j] = call[j]
      BY <1>2, <1>t, GotoFacts DEF ReturnLocally, At, Returned
    <2>3. /\ Status(i) = "pending" /\ Status(i)' = "failed"
          /\ \A j \in Calls : j # i => Same(j)
      BY <2>2 DEF Status, At, Waiting, Same
    <2> QED
      BY <1>2, <2>1, <2>2, <2>3, FailStep DEF ReturnLocally, device, history
  <1>3. ASSUME \/ \E i \in Calls : Build(i) \/ Acquire(i)
               \/ \E n \in Policies : SetRetryPolicy(n)
               \/ \E n \in Routes : SetRouting(n)
               \/ UNCHANGED vars
        PROVE  [Service!Next]_(Service!vars)
    <2>1. UNCHANGED <<link, store, seen, hits>>
      BY <1>3 DEF Build, Acquire, SetRetryPolicy, SetRouting, device, history, vars
    <2>2. \A j \in Calls : Same(j)
      <3>1. ASSUME NEW i \in Calls, Build(i) \/ Acquire(i) PROVE \A j \in Calls : Same(j)
        <4>1. /\ call[i].pc \in {"build", "blocked"} /\ call'[i].pc \in {"blocked", "attempt"}
              /\ call'[i].op = call[i].op /\ call'[i].val = call[i].val
              /\ \A j \in Calls : j # i => call'[j] = call[j]
          BY <3>1, <1>t DEF Build, Acquire, At, TypeOK
        <4> QED
          BY <4>1 DEF Same, Status, At, Waiting
      <3>2. CASE UNCHANGED call
        BY <3>2 DEF Same, Status, At
      <3> QED
        BY <1>3, <3>1, <3>2 DEF SetRetryPolicy, SetRouting, vars
    <2> QED
      BY <2>1, <2>2, SameRequestsSameCopies, Stutter
  <1>4. ASSUME NEW i \in Calls, NEW k \in Conns, Connect(i, k) \/ Open(i, k)
        PROVE  [Service!Next]_(Service!vars)
    BY <1>4, DialServiceStep
  <1>5. ASSUME NEW i \in Calls, Fail(i) \/ RefuseReply(i) \/ CloseOrFail(i)
        PROVE  [Service!Next]_(Service!vars)
    BY <1>5, HangUpServiceStep
  <1>6. ASSUME NEW i \in Calls, Greeted(i) \/ TakeReply(i)
        PROVE  [Service!Next]_(Service!vars)
    BY <1>6, TakeServiceStep
  <1>7. ASSUME NEW i \in Calls, Transmit(i) PROVE [Service!Next]_(Service!vars)
    BY <1>7, SendStep
  <1>8. ASSUME NEW k \in Conns, Device(k) PROVE [Service!Next]_(Service!vars)
    BY <1>8, DeviceStep
  <1> QED
    BY <1>1, <1>2, <1>3, <1>4, <1>5, <1>6, <1>7, <1>8 DEF Next, Enter, Progress

LEMMA ServiceInit == Init => Service!Init
  <1> SUFFICES ASSUME Init PROVE Service!Init
    OBVIOUS
  <1>1. \A i \in Calls : Copies(i) = {}
    <2>1. \A k \in Conns : DOMAIN link[k].req = {}
      BY DEF Init, Down
    <2> QED
      BY <2>1 DEF Copies
  <1>2. \A i \in Calls : Cardinality(Copies(i)) = 0
    <2>1. Cardinality({}) = 0
      BY FS_EmptySet
    <2> QED
      BY <1>1, <2>1
  <1>3. \A i \in Calls : /\ Status(i) = "new"
                         /\ call[i].op = NoOp /\ call[i].val = NoVal
    BY DEF Init, Status, At, Waiting
  <1> QED
    BY <1>2, <1>3 DEF Init, Service!Init

-----------------------------------------------------------------------------
\* Served is kept.

\* The requests of one connection at most change, into one or none.
LEMMA RequestsNext ==
    ASSUME Served, [Next]_vars
    PROVE  OneRequest' /\ Countable'
  <1>t. TypeOK /\ Traced /\ LockHeld /\ SocketHeld /\ OneRequest /\ Countable
    BY DEF Served, Inductive
  <1>1. ASSUME \A j \in Conns : link'[j].req = link[j].req
        PROVE  OneRequest' /\ Countable'
    <2>1. \A j \in Conns : j # NoConn => link'[j].req = link[j].req
      BY <1>1
    <2> QED
      BY <1>t, <2>1, OneConnectionChanges, NoConnAssumption
  <1>2. ASSUME NEW i \in Calls, NEW k \in Conns, Connect(i, k) \/ Open(i, k)
        PROVE  OneRequest' /\ Countable'
    <2>1. /\ link'[k].req = <<Handshake(i)>>
          /\ \A j \in Conns : j # k => link'[j].req = link[j].req
      BY <1>2, <1>t, DialFacts
    <2>2. Len(<<Handshake(i)>>) <= 1
      OBVIOUS
    <2> QED
      BY <1>t, <2>1, <2>2, OneConnectionChanges
  <1>3. ASSUME NEW i \in Calls, Fail(i) \/ RefuseReply(i) \/ CloseOrFail(i)
        PROVE  OneRequest' /\ Countable'
    <2>1. CloseLocked
      BY <1>3, <1>t, FailureFacts DEF CloseOrFail
    <2> QED
      BY <1>1, <1>t, <2>1, HangUpFacts
  <1>4. ASSUME NEW i \in Calls, Greeted(i) \/ TakeReply(i)
        PROVE  OneRequest' /\ Countable'
    <2>1. conn \in Conns /\ link' = Consumed(conn)
      BY <1>4, <1>t, TakeFacts
    <2>2. \A j \in Conns : link'[j].req = link[j].req
      BY <1>t, <2>1, ConsumedFields DEF TypeOK
    <2> QED
      BY <1>1, <2>2
  <1>5. ASSUME NEW i \in Calls, Transmit(i) PROVE OneRequest' /\ Countable'
    <2> DEFINE q == [call |-> i, cmd |-> "send", node |-> call[i].node]
    <2>1. /\ conn \in Conns /\ link' = Written(conn, q)
          /\ \A j \in Calls : call[j].pc \notin {"greeting", "await"}
      BY <1>5, <1>t DEF Transmit, TypeOK, LockHeld, Busy, At
    <2>2. q \in Request
      BY <1>t, CallFields DEF Request
    <2>3. link[conn].req = <<>>
      BY <2>1, IdleConnection, NoConnAssumption DEF Served
    <2>4. \A j \in Conns : link'[j].req = IF j = conn /\ link[j].st = "up"
                                          THEN Append(link[j].req, q) ELSE link[j].req
      BY <1>t, <2>1, <2>2, WrittenFields DEF TypeOK
    <2>5. link'[conn].req = Append(<<>>, q) \/ link'[conn].req = <<>>
      BY <2>1, <2>3, <2>4
    <2>6. /\ Len(link'[conn].req) <= 1
          /\ \A j \in Conns : j # conn => link'[j].req = link[j].req
      <3>1. Len(Append(<<>>, q)) <= 1 /\ Len(<<>>) <= 1
        OBVIOUS
      <3>2. Len(link'[conn].req) <= 1
        BY <2>5, <3>1
      <3> QED
        BY <2>4, <3>2
    <2> QED
      BY <1>t, <2>6, OneConnectionChanges
  <1>6. ASSUME NEW k \in Conns, Device(k) PROVE OneRequest' /\ Countable'
    <2>1. /\ link'[k].req = <<>>
          /\ \A j \in Conns : j # k => link'[j].req = link[j].req
      BY <1>6, <1>t, TakenOrSevered
    <2>2. Len(<<>>) <= 1
      OBVIOUS
    <2> QED
      BY <1>t, <2>1, <2>2, OneConnectionChanges
  <1>7. CASE UNCHANGED link
    BY <1>1, <1>7
  <1> QED
    BY <1>2, <1>3, <1>4, <1>5, <1>6, <1>7
    DEF Next, Enter, Progress, Invoke, ReturnLocally, Build, Acquire, SetRetryPolicy,
        SetRouting, vars

\* Replies wait for the same call as before, if it waits at all, and the
\* device may have reported more.
LEMMA ReportedKept ==
    ASSUME TypeOK, TypeOK', AllReported,
           conn' # NoConn =>
               conn' = conn /\ \A n \in DOMAIN link'[conn].rep :
                   \/ \E m \in DOMAIN link[conn].rep : link'[conn].rep[n] = link[conn].rep[m]
                   \/ Reported(link[conn].rep[n])',
           \A j \in Calls : call'[j].pc = "await" =>
               call[j].pc = "await" /\ call'[j].op = call[j].op,
           \A j \in Calls : hits'[j] >= hits[j] /\ seen[j] \subseteq seen'[j]
    PROVE  AllReported'
  <1> SUFFICES ASSUME conn' # NoConn, NEW n \in DOMAIN link'[conn].rep
               PROVE  Reported(link[conn].rep[n])'
    BY DEF AllReported
  <1>1. CASE Reported(link[conn].rep[n])'
    BY <1>1
  <1>2. ASSUME NEW m \in DOMAIN link[conn].rep, link'[conn].rep[n] = link[conn].rep[m]
        PROVE  Reported(link[conn].rep[n])'
    <2>1. conn \in Conns /\ conn # NoConn
      BY DEF TypeOK
    <2>2. Reported(link[conn].rep[m]) /\ link[conn].rep[m].call \in Calls
      BY <2>1, OnTheWire DEF AllReported
    <2>3. \A j \in Calls : hits[j] \in Nat /\ hits'[j] \in Nat
      BY DEF TypeOK
    <2>4. PICK r : r = link[conn].rep[m]
      OBVIOUS
    <2>5. At(r.call, "await")' /\ r.kind # "bad" =>
            /\ call'[r.call].op.kind = "read" /\ r.kind = "normal" => r.val \in seen'[r.call]
            /\ call'[r.call].op.kind = "write" => hits'[r.call] > 0 /\ r.val = NoVal
      BY <2>2, <2>3, <2>4 DEF Reported, At
    <2> QED
      BY <1>2, <2>4, <2>5 DEF Reported
  <1> QED
    BY <1>1, <1>2

LEMMA AnswerKept ==
    ASSUME TypeOK, TypeOK', AllReported, NEW k \in Conns, NEW r \in Reply,
           link' = Answered(k, r), UNCHANGED <<conn, call>>,
           \A j \in Calls : hits'[j] >= hits[j] /\ seen[j] \subseteq seen'[j],
           k = conn => Reported(r)'
    PROVE  AllReported'
  <1>1. ASSUME conn # NoConn, NEW n \in DOMAIN link'[conn].rep
        PROVE  \/ \E m \in DOMAIN link[conn].rep : link'[conn].rep[n] = link[conn].rep[m]
               \/ Reported(link[conn].rep[n])'
    <2>1. conn \in Conns /\ link[conn].rep \in Seq(Reply)
      BY <1>1, OnTheWire DEF TypeOK
    <2>2. \A j \in Conns : link'[j].rep = IF j = k /\ link[j].st = "up"
                                          THEN Append(link[j].rep, r) ELSE link[j].rep
      BY AnsweredFields DEF TypeOK
    <2>3. CASE conn = k /\ link'[conn].rep = Append(link[conn].rep, r)
      <3>1. \/ link'[conn].rep[n] = r
            \/ n \in DOMAIN link[conn].rep /\ link'[conn].rep[n] = link[conn].rep[n]
        BY <1>1, <2>1, <2>3, QueueFacts
      <3>2. CASE link'[conn].rep[n] = r
        BY <2>3, <3>2 DEF Reported
      <3> QED
        BY <3>1, <3>2
    <2>4. CASE link'[conn].rep = link[conn].rep
      BY <1>1, <2>4
    <2> QED
      BY <2>1, <2>2, <2>3, <2>4
  <1> QED
    BY <1>1, ReportedKept

\* What the device reports it has done, and a handshake is not answered to a
\* call that waits for a command.
LEMMA AnswerReported ==
    ASSUME Served, TypeOK', NEW k \in Conns, NEW kind \in {"normal", "bad", "short"},
           Greet(k, kind) \/ Execute(k, kind) \/ Refuse(k)
    PROVE  AllReported'
  <1>t. TypeOK /\ LockHeld /\ StreamInSync /\ Traced /\ OneRequest /\ AllReported
    BY DEF Served, Inductive
  <1>1. PICK q \in Request :
            /\ q = link[k].req[1] /\ q = Head(link[k].req) /\ 1 \in DOMAIN link[k].req
            /\ q.call \in Calls /\ (q.cmd = "send" => IsData(call[q.call].op))
    <2>1. link[k].req # <<>>
      BY DEF Greet, Execute, Refuse
    <2> QED
      BY <1>t, <2>1, OnlyRequest
  <1>2. PICK i \in Calls : i = q.call
    BY <1>1
  <1>3. UNCHANGED <<conn, call>>
    BY DEF Greet, Execute, Refuse, fields
  <1>4. CASE Greet(k, kind)
    <2> DEFINE r == [call |-> q.call, kind |-> kind, val |-> NoVal]
    <2>1. r \in Reply /\ link' = Answered(k, r) /\ q.cmd = "handshake"
      BY <1>1, <1>4 DEF Greet, Reply
    <2>2. \A j \in Calls : hits'[j] >= hits[j] /\ seen[j] \subseteq seen'[j]
      BY <1>4, <1>t DEF Greet, TypeOK
    <2>3. k = conn => Reported(r)'
      <3> SUFFICES ASSUME k = conn PROVE Reported(r)'
        OBVIOUS
      <3>1. Exchanged(q)
        BY <1>t, <1>1, NoConnAssumption DEF StreamInSync
      <3>2. ~ At(q.call, "await")
        BY <2>1, <3>1 DEF Exchanged, At
      <3> QED
        BY <1>3, <3>2 DEF Reported, At
    <2> HIDE DEF r
    <2> QED
      BY <1>3, <1>t, <2>1, <2>2, <2>3, AnswerKept
  <1>5. CASE Refuse(k)
    <2> DEFINE r == [call |-> q.call, kind |-> "bad", val |-> NoVal]
    <2>1. r \in Reply /\ link' = Answered(k, r)
      BY <1>1, <1>5 DEF Refuse, Reply
    <2>2. \A j \in Calls : hits'[j] >= hits[j] /\ seen[j] \subseteq seen'[j]
      BY <1>5, <1>t DEF Refuse, TypeOK
    <2>3. Reported(r)'
      BY DEF Reported
    <2> HIDE DEF r
    <2> QED
      BY <1>3, <1>t, <2>1, <2>2, <2>3, AnswerKept
  <1>6. CASE Execute(k, kind)
    <2>1. PICK o \in Ops \cup {NoOp} : o = call[i].op /\ IsData(o) /\ o.addr \in Addrs
      BY <1>1, <1>2, <1>6, <1>t, CallFields, DataOps DEF Execute
    <2>2. PICK v \in Vals \cup {InitVal} : v = store[o.addr]
      BY <1>t, <2>1 DEF TypeOK
    <2> DEFINE r == [call |-> i, kind |-> kind,
                     val |-> IF kind = "normal" /\ o.kind = "read" THEN v ELSE NoVal]
    <2>3. r \in Reply
      BY <2>2 DEF Reply
    <2>4. /\ link' = Answered(k, r)
          /\ hits' = [hits EXCEPT ![i] = @ + 1]
          /\ seen' = IF o.kind = "read" THEN [seen EXCEPT ![i] = @ \cup {v}] ELSE seen
      BY <1>1, <1>2, <1>6, <2>1, <2>2 DEF Execute
    <2>5. \A j \in Calls : hits'[j] >= hits[j] /\ seen[j] \subseteq seen'[j]
      BY <1>t, <2>4 DEF TypeOK
    <2>6. hits'[i] > 0 /\ (o.kind = "read" => v \in seen'[i])
      BY <1>t, <2>4 DEF TypeOK
    <2>7. Reported(r)'
      BY <1>3, <2>1, <2>6 DEF Reported, IsData
    <2> HIDE DEF r
    <2> QED
      BY <1>3, <1>t, <2>3, <2>4, <2>5, <2>7, AnswerKept
  <1> QED
    BY <1>4, <1>5, <1>6

LEMMA ReportedNext ==
    ASSUME Served, TypeOK', [Next]_vars
    PROVE  AllReported'
  <1>t. TypeOK /\ LockHeld /\ SocketHeld /\ StreamInSync /\ AllReported
    BY DEF Served, Inductive
  <1>1. ASSUME NEW i \in Calls, Fail(i) \/ RefuseReply(i) \/ CloseOrFail(i)
        PROVE  AllReported'
    <2>1. CloseLocked
      BY <1>1, <1>t, FailureFacts DEF CloseOrFail
    <2> QED
      BY <2>1 DEF CloseLocked, AllReported
  <1>2. ASSUME conn' \in Conns, link'[conn'].rep = <<>>
        PROVE  AllReported'
    <2>1. DOMAIN <<>> = {}
      OBVIOUS
    <2> QED
      BY <1>2, <2>1 DEF AllReported
  <1>3. ASSUME NEW i \in Calls, NEW k \in Conns, Connect(i, k) \/ Open(i, k)
        PROVE  AllReported'
    BY <1>2, <1>3, <1>t, DialFacts
  <1>4. ASSUME NEW i \in Calls, Greeted(i) \/ TakeReply(i)
        PROVE  AllReported'
    <2>1. /\ conn \in Conns /\ conn' = conn /\ link[conn].rep # <<>>
          /\ link' = Consumed(conn)
      BY <1>4, <1>t, TakeFacts
    <2>2. link[conn].req \in Seq(Request) /\ link[conn].rep \in Seq(Reply)
      BY <1>t, <2>1, OnTheWire
    <2>3. Tail(link[conn].rep) = <<>>
      BY <1>t, <2>1, <2>2, LastMessage, NoConnAssumption DEF StreamInSync
    <2>4. link'[conn].rep = <<>>
      BY <1>t, <2>1, <2>3, ConsumedFields DEF TypeOK
    <2> QED
      BY <1>2, <2>1, <2>4
  <1>5. ASSUME NEW i \in Calls, Transmit(i)
        PROVE  AllReported'
    <2> DEFINE q == [call |-> i, cmd |-> "send", node |-> call[i].node]
    <2>1. /\ conn \in Conns /\ conn' = conn /\ link' = Written(conn, q)
          /\ \A j \in Calls : call[j].pc \notin {"greeting", "await"}
      BY <1>5, <1>t DEF Transmit, TypeOK, LockHeld, Busy, At, fields
    <2>2. q \in Request
      BY <1>t, CallFields DEF Request
    <2>3. link[conn].rep = <<>>
      BY <2>1, IdleConnection, NoConnAssumption DEF Served
    <2>4. \A j \in Conns : link'[j].rep = link[j].rep
      BY <1>t, <2>1, <2>2, WrittenFields DEF TypeOK
    <2> QED
      BY <1>2, <2>1, <2>3, <2>4
  <1>6. ASSUME NEW k \in Conns, NEW kind \in {"normal", "bad", "short"},
               Greet(k, kind) \/ Execute(k, kind) \/ Refuse(k)
        PROVE  AllReported'
    BY <1>6, AnswerReported
  <1>7. ASSUME UNCHANGED <<conn, hits, seen>>,
               \A j \in Conns : link'[j].rep = link[j].rep,
               \A j \in Calls : call'[j].pc = "await" =>
                   call[j].pc = "await" /\ call'[j].op = call[j].op
        PROVE  AllReported'
    <2>1. \A j \in Calls : hits'[j] >= hits[j] /\ seen[j] \subseteq seen'[j]
      BY <1>7, <1>t DEF TypeOK
    <2>2. conn # NoConn => link'[conn].rep = link[conn].rep
      BY <1>7, <1>t DEF TypeOK
    <2> QED
      BY <1>7, <1>t, <2>1, <2>2, ReportedKept
  <1>8. ASSUME NEW k \in Conns, Ignore(k) \/ Sever(k) PROVE AllReported'
    <2>1. \A j \in Conns : link'[j].rep = link[j].rep
      <3>1. CASE Ignore(k)
        BY <1>t, <3>1, IgnoredFields DEF Ignore, TypeOK
      <3>2. CASE Sever(k)
        BY <1>t, <3>2, SeveredFields DEF Sever, TypeOK
      <3> QED
        BY <1>8, <3>1, <3>2
    <2>2. UNCHANGED <<conn, hits, seen, call>>
      BY <1>8 DEF Ignore, Sever, fields, history
    <2> QED
      BY <1>7, <2>1, <2>2
  <1>9. ASSUME NEW i \in Calls,
               (\E o \in Ops : Invoke(i, o)) \/ ReturnLocally(i) \/ Build(i) \/ Acquire(i)
        PROVE  AllReported'
    <2>1. UNCHANGED <<link, conn, hits, seen>>
      BY <1>9 DEF Invoke, ReturnLocally, Build, Acquire, fields, history
    <2>2. /\ call'[i].pc # "await"
          /\ \A j \in Calls : j # i => call'[j] = call[j]
      <3>1. CASE \E o \in Ops : Invoke(i, o)
        BY <3>1, <1>t DEF Invoke, TypeOK
      <3>2. CASE ReturnLocally(i)
        BY <3>2, <1>t, GotoFacts DEF ReturnLocally, Returned
      <3>3. CASE Build(i) \/ Acquire(i)
        BY <3>3, <1>t DEF Build, Acquire, TypeOK
      <3> QED
        BY <1>9, <3>1, <3>2, <3>3
    <2> QED
      BY <1>7, <2>1, <2>2
  <1>10. CASE \/ \E n \in Policies : SetRetryPolicy(n)
              \/ \E n \in Routes : SetRouting(n)
              \/ UNCHANGED vars
    BY <1>7, <1>10 DEF SetRetryPolicy, SetRouting, vars, fields, history
  <1> QED
    BY <1>1, <1>3, <1>4, <1>5, <1>6, <1>8, <1>9, <1>10
    DEF Next, Enter, Progress, Device

\* No step but the one that ends a call gives it a value.
LEMMA UnsetNext ==
    ASSUME Served, [Next]_vars
    PROVE  Unset'
  <1>t. TypeOK /\ LockHeld /\ Unset
    BY DEF Served, Inductive
  <1>1. ASSUME NEW i \in Calls, \A j \in Calls : j # i => call'[j] = call[j],
               \/ call[i].pc \in {"new"} \cup Waiting /\ call'[i].val = call[i].val
               \/ call'[i].pc \in {"ok", "rejected"}
        PROVE  Unset'
    <2>1. call'[i].pc \in {"ok", "rejected"} => call'[i].pc \notin {"new"} \cup Waiting
      BY DEF Waiting
    <2> QED
      BY <1>t, <1>1, <2>1 DEF Unset
  <1>2. ASSUME NEW i \in Calls, NEW p \in {"new"} \cup Waiting \cup Returned,
               Goto(i, p), call[i].pc \in Waiting
        PROVE  Unset'
    BY <1>1, <1>2, <1>t, GotoFacts
  <1>3. ASSUME NEW i \in Calls, \E o \in Ops : Invoke(i, o) PROVE Unset'
    <2>1. /\ call[i].pc = "new" /\ call'[i].val = call[i].val
          /\ \A j \in Calls : j # i => call'[j] = call[j]
      BY <1>3, <1>t DEF Invoke, At, TypeOK
    <2> QED
      BY <1>1, <2>1
  <1>4. ASSUME NEW i \in Calls, Build(i) \/ Acquire(i) PROVE Unset'
    <2>1. /\ call[i].pc \in Waiting /\ call'[i].val = call[i].val
          /\ \A j \in Calls : j # i => call'[j] = call[j]
      BY <1>4, <1>t DEF Build, Acquire, At, Waiting, TypeOK
    <2> QED
      BY <1>1, <2>1
  <1>5. ASSUME NEW i \in Calls,
               \/ ReturnLocally(i)
               \/ \E k \in Conns : Connect(i, k) \/ Open(i, k)
               \/ Transmit(i) \/ CloseOrFail(i)
        PROVE  Unset'
    <2>1. /\ call[i].pc \in Waiting
          /\ \E p \in {"rejected", "greeting", "await", "failed", "ok"} : Goto(i, p)
      BY <1>5 DEF ReturnLocally, Connect, Open, Transmit, CloseOrFail, At, Waiting
    <2> QED
      BY <1>2, <2>1 DEF Waiting, Returned
  <1>6. ASSUME NEW i \in Calls, Fail(i) \/ RefuseReply(i) PROVE Unset'
    <2>1. /\ call[i].pc \in Waiting
          /\ \E p \in {"attempt", "failed"} : Goto(i, p)
      BY <1>6, <1>t, FailureFacts DEF Busy, Waiting
    <2> QED
      BY <1>2, <2>1 DEF Waiting, Returned
  <1>7. ASSUME NEW i \in Calls, Greeted(i) PROVE Unset'
    <2>1. /\ call[i].pc \in Waiting
          /\ \E p \in {"attempt", "ok"} : Goto(i, p)
      BY <1>7 DEF Greeted, Return, At, Waiting
    <2> QED
      BY <1>2, <2>1 DEF Waiting, Returned
  <1>8. ASSUME NEW i \in Calls, TakeReply(i) PROVE Unset'
    <2>1. /\ \A j \in Calls : j # i => call'[j] = call[j]
          /\ call'[i].pc \in {"ok", "rejected"}
      BY <1>8, <1>t DEF TakeReply, TypeOK
    <2> QED
      BY <1>1, <2>1
  <1>9. CASE UNCHANGED call
    BY <1>9, <1>t DEF Unset
  <1>10. CASE \/ \E n \in Policies : SetRetryPolicy(n)
              \/ \E n \in Routes : SetRouting(n)
              \/ \E k \in Conns : Device(k)
              \/ UNCHANGED vars
    BY <1>9, <1>10 DEF SetRetryPolicy, SetRouting, Device, Greet, Execute, Refuse,
                       Ignore, Sever, vars
  <1> QED
    BY <1>3, <1>4, <1>5, <1>6, <1>7, <1>8, <1>10 DEF Next, Enter, Progress

LEMMA ServedInit == Init => Served
  <1> SUFFICES ASSUME Init PROVE Served
    OBVIOUS
  <1>1. \A k \in Conns : link[k].req = <<>>
    BY DEF Init, Down
  <1>2. OneRequest
    <2>1. Len(<<>>) <= 1
      OBVIOUS
    <2> QED
      BY <1>1, <2>1 DEF OneRequest
  <1>3. Countable
    <2>1. \A i \in Calls : Copies(i) = {}
      <3>1. DOMAIN <<>> = {}
        OBVIOUS
      <3> QED
        BY <1>1, <3>1 DEF Copies
    <2> QED
      BY <2>1, FS_EmptySet DEF Countable
  <1>4. AllReported /\ Unset
    BY DEF Init, AllReported, Unset
  <1> QED
    BY <1>2, <1>3, <1>4, InductiveInit DEF Served

LEMMA ServedInvariant == Spec => []Served
  <1>1. Served /\ [Next]_vars => Served'
    <2> SUFFICES ASSUME Served, [Next]_vars PROVE Served'
      OBVIOUS
    <2>1. Inductive'
      BY InductiveNext DEF Served
    <2>2. TypeOK'
      BY <2>1 DEF Inductive
    <2> QED
      BY <2>1, <2>2, RequestsNext, ReportedNext, UnsetNext DEF Served
  <1> QED
    BY <1>1, ServedInit, PTL DEF Spec

-----------------------------------------------------------------------------
\* The client, its connections and its device implement the service, whatever
\* the interleaving of calls, handshakes, routings, faults and executions: a
\* caller sees at least once execution, and of a read only what the device
\* reported to it.
THEOREM Implementation == Spec => ImplementsService
  <1>1. Init => Service!Init
    BY ServiceInit
  <1>2. Served /\ [Next]_vars => [Service!Next]_(Service!vars)
    BY ServiceNext
  <1> QED
    BY <1>1, <1>2, ServedInvariant, PTL DEF Spec, ImplementsService, Service!Spec

=============================================================================
