------------------------- MODULE AllenBradleyProofs -------------------------
(***************************************************************************)
(* Theorems about AllenBradleyClient, for every set of calls, connections, *)
(* tags, handles and policies, and for both kinds of device: registration, *)
(* session and replies stay in step with the connection.                   *)
(***************************************************************************)
EXTENDS AllenBradleyClient, WireProofs, FiniteSetTheorems

\* The states of a call that holds the mutex.
Busy == {"registering", "attempt", "await"}

LockHeld ==
    /\ \A i \in Calls : pc[i] \in Busy <=> mu = i
    /\ \A i \in Calls : pc[i] \in Busy =>
          IsData(op[i]) \/ (pc[i] = "registering" /\ op[i].kind = "open")
    /\ \A i \in Calls : pc[i] \in {"registering", "await"} => conn # NoConn

SocketHeld ==
    /\ conn # NoConn => link[conn].st # "down"
    /\ \A k \in Conns : link[k].st # "down" => k = conn

\* Message m belongs to the exchange going on: a registration or a command.
Exchanged(m) ==
    /\ mu = m.call
    /\ pc[m.call] = IF m.cmd = "register" THEN "registering" ELSE "await"

\* The connection in use carries that exchange only, and a reply to its
\* registration has the handle that the device gave it.
StreamInSync ==
    conn # NoConn =>
        /\ Len(link[conn].req) + Len(link[conn].rep) <= 1
        /\ \A n \in DOMAIN link[conn].req : Exchanged(link[conn].req[n])
        /\ \A n \in DOMAIN link[conn].rep : Exchanged(link[conn].rep[n])
        /\ \A n \in DOMAIN link[conn].rep :
              link[conn].st = "up" /\ link[conn].rep[n].cmd = "register" =>
                  link[conn].rep[n].sess = reg[conn]

\* Once registration is over the client has the handle of its connection.
SessionHeld ==
    Live /\ (\A i \in Calls : pc[i] # "registering") =>
        session = reg[conn] /\ reg[conn] # NoHandle

\* What is on the wire was sent by a call that had been made, commands by reads
\* and writes; what a reply has for a read is what the device answered to it.
RequestTraced(q) ==
    pc[q.call] # "new" /\ (q.cmd = "send" => IsData(op[q.call]))

ReplyTraced(r) ==
    /\ pc[r.call] # "new"
    /\ r.cmd = "send" /\ op[r.call].kind = "read" /\ r.val # NoVal =>
          r.val \in seen[r.call]

Traced ==
    \A k \in Conns :
        /\ \A n \in DOMAIN link[k].req : RequestTraced(link[k].req[n])
        /\ \A n \in DOMAIN link[k].rep : ReplyTraced(link[k].rep[n])

Inductive ==
    /\ TypeOK
    /\ LockHeld
    /\ SocketHeld
    /\ StreamInSync
    /\ SessionHeld
    /\ Traced
    /\ ReadFresh

-----------------------------------------------------------------------------
LEMMA OnTheWire ==
    ASSUME TypeOK, NEW k \in Conns
    PROVE  /\ link[k].req \in Seq(Request)
           /\ link[k].rep \in Seq(Reply)
           /\ \A n \in DOMAIN link[k].req :
                 link[k].req[n] \in Request /\ link[k].req[n].call \in Calls
           /\ \A n \in DOMAIN link[k].rep :
                 link[k].rep[n] \in Reply /\ link[k].rep[n].call \in Calls
  <1>1. link \in [Conns -> Links(Request, Reply)]
    BY DEF TypeOK
  <1>2. /\ link[k].req \in Seq(Request)
        /\ link[k].rep \in Seq(Reply)
        /\ \A n \in DOMAIN link[k].req : link[k].req[n] \in Request
        /\ \A n \in DOMAIN link[k].rep : link[k].rep[n] \in Reply
    BY <1>1, WireElements
  <1>3. /\ \A q \in Request : q.call \in Calls
        /\ \A r \in Reply : r.call \in Calls
    BY DEF Request, Reply
  <1> QED
    BY <1>2, <1>3

LEMMA DataOps ==
    ASSUME NEW o \in Ops \cup {NoOp}, IsData(o)
    PROVE  o.tag \in Tags /\ (o.kind = "write" => o.val \in Vals)
  BY DEF Ops, NoOp, IsData

LEMMA MoreFaultsType ==
    ASSUME faults \in [Calls -> Nat], budget \in [Calls -> Nat], NEW i \in Calls
    PROVE  MoreFaults(i) \in [Calls -> Nat]
  BY DEF MoreFaults

\* A dial: the new connection carries the registration, what was left of the
\* old one is closed.
LEMMA DialFacts ==
    ASSUME TypeOK, NEW i \in Calls, NEW k \in Conns, Connect(i, k) \/ Open(i, k)
    PROVE  /\ link' \in [Conns -> Links(Request, Reply)]
           /\ conn' = k
           /\ link'[k].st = "up"
           /\ link'[k].req = <<RegisterRequest(i)>>
           /\ link'[k].rep = <<>>
           /\ \A j \in Conns : j # k =>
                 /\ link'[j].st = IF j = conn THEN "down" ELSE link[j].st
                 /\ link'[j].req = link[j].req
                 /\ link'[j].rep = link[j].rep \/ link'[j].rep = <<>>
  <1>0. /\ RegisterRequest(i) \in Request
        /\ link \in [Conns -> Links(Request, Reply)]
        /\ link[k].rep = <<>> /\ conn' = k
    <2>1. RegisterRequest(i) \in Request
      BY DEF RegisterRequest, Request
    <2>2. link[k] = Down /\ conn' = k
      BY DEF Connect, Open, Free
    <2> QED
      BY <2>1, <2>2 DEF TypeOK, Down
  <1>1. <<RegisterRequest(i)>> \in Seq(Request)
    BY <1>0
  <1>2. CASE Connect(i, k)
    <2>1. link' = [link EXCEPT ![k] = [@ EXCEPT !.st = "up", !.req = <<RegisterRequest(i)>>]]
          /\ conn = NoConn
      BY <1>2 DEF Connect
    <2> QED
      BY <1>0, <1>1, <2>1, NoConnAssumption DEF Links
  <1>3. CASE Open(i, k)
    <2>1. link' = [HungUp(conn) EXCEPT ![k].st = "up", ![k].req = <<RegisterRequest(i)>>]
      BY <1>3 DEF Open, OldClosed
    <2>2. /\ HungUp(conn) \in [Conns -> Links(Request, Reply)]
          /\ \A j \in Conns :
                /\ HungUp(conn)[j].st = IF j = conn THEN "down" ELSE link[j].st
                /\ HungUp(conn)[j].req = link[j].req
                /\ HungUp(conn)[j].rep = IF j = conn THEN <<>> ELSE link[j].rep
      BY <1>0, WireTypes, HungUpFields DEF TypeOK, HungUp
    <2> DEFINE h == HungUp(conn)
    <2>3. \A l \in Links(Request, Reply) :
              /\ l.st \in {"down", "up", "cut"} /\ l.req \in Seq(Request) /\ l.rep \in Seq(Reply)
              /\ [l EXCEPT !.st = "up", !.req = <<RegisterRequest(i)>>] \in Links(Request, Reply)
              /\ [l EXCEPT !.st = "up", !.req = <<RegisterRequest(i)>>].st = "up"
              /\ [l EXCEPT !.st = "up", !.req = <<RegisterRequest(i)>>].req = <<RegisterRequest(i)>>
              /\ [l EXCEPT !.st = "up", !.req = <<RegisterRequest(i)>>].rep = l.rep
      BY <1>0, <1>1 DEF Links
    <2>4. h \in [Conns -> Links(Request, Reply)]
      BY <2>2
    <2>5. link' = [h EXCEPT ![k] = [h[k] EXCEPT !.st = "up", !.req = <<RegisterRequest(i)>>]]
      BY <2>1
    <2>6. h[k].rep = <<>>
      BY <1>0, <2>2
    <2> HIDE DEF h
    <2>7. /\ link' \in [Conns -> Links(Request, Reply)]
          /\ link'[k].st = "up" /\ link'[k].req = <<RegisterRequest(i)>> /\ link'[k].rep = <<>>
          /\ \A j \in Conns : j # k => link'[j] = h[j]
      BY <2>3, <2>4, <2>5, <2>6
    <2> QED
      BY <1>0, <2>2, <2>7 DEF h
  <1> QED
    BY <1>2, <1>3

\* A hang-up: a failed attempt, a failed Open, and Close.
HangsUp == link' = HungUp(conn) /\ conn' = NoConn

LEMMA HangUpFacts ==
    ASSUME TypeOK, SocketHeld, HangsUp
    PROVE  /\ link' \in [Conns -> Links(Request, Reply)]
           /\ \A k \in Conns :
                 /\ link'[k].st = "down"
                 /\ link'[k].req = link[k].req
                 /\ link'[k].rep = link[k].rep \/ link'[k].rep = <<>>
  <1>1. \A k \in Conns :
           /\ link'[k].st = IF k = conn THEN "down" ELSE link[k].st
           /\ link'[k].req = link[k].req
           /\ link'[k].rep = IF k = conn THEN <<>> ELSE link[k].rep
    BY HungUpFields DEF TypeOK, HangsUp
  <1>2. link' \in [Conns -> Links(Request, Reply)]
    BY WireTypes DEF TypeOK, HangsUp, HungUp
  <1> QED
    BY <1>1, <1>2 DEF SocketHeld

LEMMA InitType == Init => TypeOK
  <1> SUFFICES ASSUME Init PROVE TypeOK
    OBVIOUS
  <1>1. Down \in Links(Request, Reply)
    BY DEF Down, Links
  <1>2. link \in [Conns -> Links(Request, Reply)]
    BY <1>1 DEF Init
  <1> QED
    BY <1>2, PolicyAssumption DEF Init, TypeOK

-----------------------------------------------------------------------------
\* What the device puts on the wire is well formed.
LEMMA AnswerType ==
    ASSUME TypeOK, Traced, NEW k \in Conns, link[k].req # <<>>
    PROVE  LET q == Head(link[k].req) IN
           /\ q \in Request /\ q.call \in Calls
           /\ \A h \in Handles \cup {NoHandle} :
                 [call |-> q.call, cmd |-> "register", sess |-> h, val |-> NoVal] \in Reply
           /\ q.cmd = "send" => IsData(op[q.call])
           /\ \A v \in Vals \cup {InitVal, StatusVal, NoVal} : CommandReply(q, v) \in Reply
  <1> DEFINE q == Head(link[k].req)
  <1>1. q = link[k].req[1] /\ 1 \in DOMAIN link[k].req /\ q \in Request /\ q.call \in Calls
    BY OnTheWire, HeadFacts
  <1>2. ASSUME NEW h \in Handles \cup {NoHandle}
        PROVE  [call |-> q.call, cmd |-> "register", sess |-> h, val |-> NoVal] \in Reply
    BY <1>1 DEF Reply
  <1>3. q.cmd = "send" => IsData(op[q.call])
    BY <1>1 DEF Traced, RequestTraced
  <1>4. ASSUME NEW v \in Vals \cup {InitVal, StatusVal, NoVal}
        PROVE  CommandReply(q, v) \in Reply
    BY <1>1 DEF CommandReply, Reply, Request
  <1> QED
    BY <1>1, <1>2, <1>3, <1>4

\* What the device forgets is not of a connection that the client holds.
LEMMA ForgetFacts ==
    ASSUME TypeOK, Forget
    PROVE  /\ reg' \in [Conns -> Handles \cup {NoHandle}]
           /\ \A k \in Conns : link'[k].st # "down" => reg'[k] = reg[k]
  <1>1. Down.st = "down"
    BY DEF Down
  <1> QED
    BY <1>1 DEF TypeOK, Forget

\* What an execution changes besides the wire.
LEMMA ExecuteFacts ==
    ASSUME TypeOK, Traced, NEW k \in Conns, Execute(k)
    PROVE  LET q == Head(link[k].req) IN
           /\ store' \in [Tags -> Vals \cup {InitVal}]
           /\ seen' \in [Calls -> SUBSET (Vals \cup {InitVal, StatusVal})]
           /\ hits' \in [Calls -> Nat]
           /\ \A j \in Calls : seen[j] \subseteq seen'[j]
           /\ \E v \in Vals \cup {InitVal, NoVal} :
                 /\ link' = Answered(k, CommandReply(q, v))
                 /\ op[q.call].kind = "read" => v # NoVal /\ v \in seen'[q.call]
  <1> DEFINE q == Head(link[k].req)
  <1>0. link[k].req # <<>> /\ q.cmd = "send"
    BY DEF Execute
  <1>1. PICK c \in Calls : c = q.call /\ IsData(op[c])
    BY <1>0, AnswerType
  <1>2. PICK o \in Ops \cup {NoOp} : o = op[c]
    BY DEF TypeOK
  <1>3. o.tag \in Tags /\ (o.kind = "write" => o.val \in Vals)
    BY <1>1, <1>2, DataOps
  <1>4. /\ hits' = [hits EXCEPT ![c] = @ + 1]
        /\ link' = Answered(k, CommandReply(q, IF o.kind = "read" THEN store[o.tag] ELSE NoVal))
        /\ \/ /\ o.kind = "write"
              /\ store' = [store EXCEPT ![o.tag] = o.val]
              /\ seen' = seen
           \/ /\ o.kind = "read"
              /\ seen' = [seen EXCEPT ![c] = @ \cup {store[o.tag]}]
              /\ store' = store
    BY <1>1, <1>2 DEF Execute
  <1>5. hits' \in [Calls -> Nat]
    BY <1>4 DEF TypeOK
  <1>6. CASE o.kind = "write"
    <2>1. /\ store' \in [Tags -> Vals \cup {InitVal}] /\ seen' = seen
          /\ link' = Answered(k, CommandReply(q, NoVal))
      BY <1>3, <1>4, <1>6 DEF TypeOK
    <2> QED
      BY <1>1, <1>2, <1>5, <1>6, <2>1 DEF TypeOK
  <1>7. CASE o.kind = "read"
    <2>1. store[o.tag] \in Vals \cup {InitVal}
      BY <1>3 DEF TypeOK
    <2>2. /\ seen' = [seen EXCEPT ![c] = @ \cup {store[o.tag]}]
          /\ store' = store
      BY <1>4, <1>7
    <2>3. seen \in [Calls -> SUBSET (Vals \cup {InitVal, StatusVal})]
      BY DEF TypeOK
    <2>4. /\ seen' \in [Calls -> SUBSET (Vals \cup {InitVal, StatusVal})]
          /\ \A j \in Calls : seen[j] \subseteq seen'[j]
          /\ store[o.tag] \in seen'[c]
      BY <2>1, <2>2, <2>3
    <2>5. store[o.tag] # NoVal /\ link' = Answered(k, CommandReply(q, store[o.tag]))
      BY <1>4, <1>7, <2>1, ValAssumption
    <2> QED
      BY <1>1, <1>2, <1>5, <2>1, <2>2, <2>4, <2>5 DEF TypeOK
  <1> QED
    BY <1>4, <1>6, <1>7

\* The error replies: with nothing for a read, or with status words for one.
LEMMA RefuseFacts ==
    ASSUME TypeOK, Traced, NEW k \in Conns, Refuse(k)
    PROVE  LET q == Head(link[k].req) IN
           /\ seen' \in [Calls -> SUBSET (Vals \cup {InitVal, StatusVal})]
           /\ faults' \in [Calls -> Nat]
           /\ \A j \in Calls : seen[j] \subseteq seen'[j]
           /\ \E v \in {StatusVal, NoVal} :
                 /\ link' = Answered(k, CommandReply(q, v))
                 /\ op[q.call].kind = "read" => v = NoVal \/ v \in seen'[q.call]
  <1> DEFINE q == Head(link[k].req)
  <1>1. link[k].req # <<>> /\ q.cmd = "send"
    BY DEF Refuse
  <1>2. PICK c \in Calls : c = q.call
    BY <1>1, AnswerType
  <1>3. /\ \/ link' = Answered(k, CommandReply(q, NoVal)) /\ seen' = seen
           \/ /\ link' = Answered(k, CommandReply(q, StatusVal))
              /\ seen' = [seen EXCEPT ![c] = @ \cup {StatusVal}]
        /\ faults' = faults \/ faults' = [faults EXCEPT ![c] = budget[c] + 1]
    BY <1>2 DEF Refuse
  <1>4. /\ seen \in [Calls -> SUBSET (Vals \cup {InitVal, StatusVal})]
        /\ faults \in [Calls -> Nat] /\ budget[c] + 1 \in Nat
    BY DEF TypeOK
  <1>5. CASE link' = Answered(k, CommandReply(q, NoVal)) /\ seen' = seen
    BY <1>2, <1>3, <1>4, <1>5
  <1>6. CASE /\ link' = Answered(k, CommandReply(q, StatusVal))
             /\ seen' = [seen EXCEPT ![c] = @ \cup {StatusVal}]
    <2> HIDE DEF q
    <2>1. /\ seen' \in [Calls -> SUBSET (Vals \cup {InitVal, StatusVal})]
          /\ \A j \in Calls : seen[j] \subseteq seen'[j]
          /\ StatusVal \in seen'[c]
      BY <1>4, <1>6
    <2> QED
      BY <1>2, <1>3, <1>4, <1>6, <2>1 DEF q
  <1> QED
    BY <1>3, <1>5, <1>6

\* The steps that hang up, and what they do to the session and the mutex.
Failure(i) ==
    \/ ConnectFail(i) \/ RegisterFail(i) \/ TransmitFail(i) \/ ReceiveFail(i)

LEMMA FailureFacts ==
    ASSUME TypeOK, LockHeld, NEW i \in Calls, Failure(i)
    PROVE  /\ HangsUp
           /\ Forget
           /\ UNCHANGED <<maxRetries, op, built, val, budget, checks, store, seen, hits>>
           /\ session' \in Handles \cup {NoHandle}
           /\ mu = i /\ pc[i] \in Busy
           /\ \/ /\ mu' = mu /\ pc' = [pc EXCEPT ![i] = "attempt"]
                 /\ attempt' = attempt + 1 /\ IsData(op[i]) /\ MoreAttempts(i)
              \/ /\ mu' = NoCall /\ pc' = [pc EXCEPT ![i] = "failed"]
                 /\ attempt' = 0 /\ (IsData(op[i]) => ~ MoreAttempts(i))
           /\ faults' = faults \/ faults' = MoreFaults(i)
  <1>1. mu = i /\ pc[i] \in Busy
    BY DEF Failure, ConnectFail, RegisterFail, TransmitFail, ReceiveFail, LockHeld, Busy
  <1>2. ASSUME AttemptFailed(i)
        PROVE  /\ HangsUp
               /\ session' \in Handles \cup {NoHandle}
               /\ \/ /\ mu' = mu /\ pc' = [pc EXCEPT ![i] = "attempt"]
                     /\ attempt' = attempt + 1 /\ MoreAttempts(i)
                  \/ /\ mu' = NoCall /\ pc' = [pc EXCEPT ![i] = "failed"]
                     /\ attempt' = 0 /\ ~ MoreAttempts(i)
    BY <1>2 DEF AttemptFailed, CloseLocked, HangsUp, Return, TypeOK
  <1>3. CASE RegisterFail(i) /\ op[i].kind = "open"
    <2>1. session' \in Handles \cup {NoHandle}
      BY <1>3 DEF RegisterFail, TypeOK
    <2> QED
      BY <1>1, <1>3, <2>1 DEF RegisterFail, OpenFailed, HangsUp, Return, IsData
  <1>4. CASE RegisterFail(i) /\ op[i].kind # "open"
    <2>1. IsData(op[i])
      BY <1>1, <1>4 DEF LockHeld
    <2> QED
      BY <1>1, <1>2, <1>4, <2>1 DEF RegisterFail
  <1>5. CASE ConnectFail(i) \/ TransmitFail(i) \/ ReceiveFail(i)
    <2>1. IsData(op[i])
      BY <1>5 DEF ConnectFail, TransmitFail, ReceiveFail, LockHeld, Busy
    <2> QED
      BY <1>1, <1>2, <1>5, <2>1 DEF ConnectFail, TransmitFail, ReceiveFail
  <1> QED
    BY <1>3, <1>4, <1>5 DEF Failure

\* The steps that read a reply, and what they make of it.
LEMMA TakeFacts ==
    ASSUME TypeOK, LockHeld, NEW i \in Calls, TakeSession(i) \/ TakeReply(i)
    PROVE  LET r == Head(link[conn].rep) IN
           /\ conn \in Conns /\ link[conn].rep # <<>> /\ link' = Consumed(conn)
           /\ mu = i /\ r \in Reply
           /\ UNCHANGED <<device, conn, maxRetries, op, built, budget, history>>
           /\ \/ /\ pc[i] = "registering" /\ UNCHANGED val
                 /\ session' = r.sess /\ r.sess # NoHandle
                 /\ \/ /\ pc' = [pc EXCEPT ![i] = "ok"] /\ op[i].kind = "open"
                       /\ mu' = NoCall /\ attempt' = 0
                    \/ /\ pc' = [pc EXCEPT ![i] = "attempt"] /\ op[i].kind # "open"
                       /\ UNCHANGED <<mu, attempt>>
              \/ /\ pc[i] = "await" /\ UNCHANGED session
                 /\ mu' = NoCall /\ attempt' = 0
                 /\ \/ /\ pc' = [pc EXCEPT ![i] = "ok"]
                       /\ val' = [val EXCEPT ![i] = r.val]
                       /\ op[i].kind = "write" \/ r.val # NoVal
                    \/ /\ pc' = [pc EXCEPT ![i] = "rejected"] /\ UNCHANGED val
                       /\ op[i].kind # "write" /\ r.val = NoVal
  <1>1. conn \in Conns /\ link[conn].rep # <<>> /\ mu = i
    BY DEF TakeSession, TakeReply, LockHeld, TypeOK, Busy
  <1>2. Head(link[conn].rep) \in Reply
    BY <1>1, OnTheWire, HeadFacts
  <1>3. CASE TakeSession(i)
    BY <1>1, <1>2, <1>3 DEF TakeSession, SessionOf, Registered, Return
  <1>4. CASE TakeReply(i)
    BY <1>1, <1>2, <1>4 DEF TakeReply, Return
  <1> QED
    BY <1>3, <1>4

LEMMA NextType == TypeOK /\ LockHeld /\ SocketHeld /\ Traced /\ [Next]_vars => TypeOK'
  <1> SUFFICES ASSUME TypeOK, LockHeld, SocketHeld, Traced, [Next]_vars PROVE TypeOK'
    OBVIOUS
  <1>p. {"new"} \cup Waiting \cup Returned =
           {"new", "build", "blocked", "registering", "attempt", "await",
            "ok", "failed", "rejected"}
    BY DEF Waiting, Returned
  <1>1. ASSUME NEW i \in Calls, NEW o \in Ops, Invoke(i, o) PROVE TypeOK'
    BY <1>1, <1>p DEF TypeOK, Invoke, device, history
  <1>2. ASSUME NEW i \in Calls, ReturnLocally(i) \/ Build(i) \/ Acquire(i) PROVE TypeOK'
    BY <1>2, <1>p DEF TypeOK, ReturnLocally, Build, Acquire, device, history
  <1>3. ASSUME NEW i \in Calls, NEW k \in Conns, Connect(i, k) \/ Open(i, k) PROVE TypeOK'
    <2>1. link' \in [Conns -> Links(Request, Reply)] /\ conn' = k
      BY <1>3, DialFacts
    <2>2. reg' \in [Conns -> Handles \cup {NoHandle}]
      BY <1>3, ForgetFacts DEF TypeOK, Connect, Open, device
    <2> QED
      BY <1>3, <1>p, <2>1, <2>2 DEF TypeOK, Connect, Open, device, history
  <1>4. ASSUME NEW i \in Calls, OpenFail(i) \/ Close(i) PROVE TypeOK'
    <2>1. HangsUp
      BY <1>4 DEF OpenFail, OpenFailed, Close, HangsUp
    <2>2. link' \in [Conns -> Links(Request, Reply)] /\ conn' = NoConn
      BY <2>1, HangUpFacts DEF HangsUp
    <2>3. reg' \in [Conns -> Handles \cup {NoHandle}]
      BY <1>4, ForgetFacts DEF OpenFail, Close
    <2> QED
      BY <1>4, <1>p, <2>2, <2>3 DEF TypeOK, OpenFail, OpenFailed, Return, Close, history
  <1>5. ASSUME NEW i \in Calls, Failure(i) PROVE TypeOK'
    <2>1. link' \in [Conns -> Links(Request, Reply)] /\ conn' = NoConn
      BY <1>5, FailureFacts, HangUpFacts DEF HangsUp
    <2>2. faults' \in [Calls -> Nat]
      BY <1>5, FailureFacts, MoreFaultsType DEF TypeOK
    <2>3. /\ UNCHANGED <<maxRetries, op, built, val, budget, checks, store, seen, hits>>
          /\ session' \in Handles \cup {NoHandle}
          /\ mu' = mu \/ mu' = NoCall
          /\ attempt' = attempt + 1 \/ attempt' = 0
          /\ pc' = [pc EXCEPT ![i] = "attempt"] \/ pc' = [pc EXCEPT ![i] = "failed"]
      BY <1>5, FailureFacts
    <2>4. reg' \in [Conns -> Handles \cup {NoHandle}]
      BY <1>5, FailureFacts, ForgetFacts
    <2> QED
      BY <1>p, <2>1, <2>2, <2>3, <2>4 DEF TypeOK
  <1>6. ASSUME NEW i \in Calls, Transmit(i) PROVE TypeOK'
    <2>1. [call |-> i, cmd |-> "send", sess |-> built[i]] \in Request
      BY DEF Request, TypeOK
    <2>2. link' \in [Conns -> Links(Request, Reply)]
      BY <1>6, <2>1, WireTypes DEF Transmit, TypeOK
    <2> QED
      BY <1>6, <1>p, <2>2 DEF TypeOK, Transmit, device, history
  <1>7. ASSUME NEW i \in Calls, TakeSession(i) \/ TakeReply(i) PROVE TypeOK'
    <2> DEFINE r == Head(link[conn].rep)
    <2>1. /\ conn \in Conns /\ link[conn].rep # <<>> /\ link' = Consumed(conn)
          /\ UNCHANGED <<device, conn, maxRetries, op, built, budget, history>>
          /\ session' = session \/ session' = r.sess
          /\ val' = val \/ val' = [val EXCEPT ![i] = r.val]
          /\ mu' = mu \/ mu' = NoCall
          /\ attempt' = attempt \/ attempt' = 0
          /\ \E s \in {"ok", "attempt", "rejected"} : pc' = [pc EXCEPT ![i] = s]
      BY <1>7, TakeFacts
    <2>2. link' \in [Conns -> Links(Request, Reply)]
      BY <2>1, WireTypes DEF TypeOK
    <2>3. r.sess \in Handles \cup {NoHandle} /\ r.val \in Vals \cup {InitVal, StatusVal, NoVal}
      <3>1. r \in Reply
        BY <2>1, OnTheWire, HeadFacts
      <3> QED
        BY <3>1 DEF Reply
    <2>4. /\ session' \in Handles \cup {NoHandle}
          /\ val' \in [Calls -> Vals \cup {InitVal, StatusVal, NoVal}]
          /\ pc' \in [Calls -> {"new"} \cup Waiting \cup Returned]
      <3> HIDE DEF r
      <3> QED
        BY <1>p, <2>1, <2>3 DEF TypeOK
    <2> QED
      BY <2>1, <2>2, <2>4 DEF TypeOK, device, history
  <1>8. ASSUME NEW n \in Policies, SetRetryPolicy(n) PROVE TypeOK'
    BY <1>8, PolicyAssumption DEF TypeOK, SetRetryPolicy, Normalize, device, calls, history
  <1>9. ASSUME NEW k \in Conns, NEW h \in Handles \cup {NoHandle}, Register(k, h)
        PROVE  TypeOK'
    <2>1. link[k].req # <<>>
      BY <1>9 DEF Register
    <2>2. link' \in [Conns -> Links(Request, Reply)] /\ faults' \in [Calls -> Nat]
      BY <1>9, <2>1, AnswerType, WireTypes, MoreFaultsType DEF Register, TypeOK
    <2> QED
      BY <1>9, <2>2 DEF TypeOK, Register, calls
  <1>10. ASSUME NEW k \in Conns, Execute(k) PROVE TypeOK'
    <2>1. link[k].req # <<>>
      BY <1>10 DEF Execute
    <2>2. PICK v \in Vals \cup {InitVal, NoVal} :
              link' = Answered(k, CommandReply(Head(link[k].req), v))
      BY <1>10, ExecuteFacts
    <2>3. link' \in [Conns -> Links(Request, Reply)]
      BY <2>1, <2>2, AnswerType, WireTypes DEF TypeOK
    <2> QED
      BY <1>10, <2>3, ExecuteFacts, ForgetFacts DEF TypeOK, Execute, calls
  <1>11. ASSUME NEW k \in Conns, Refuse(k) PROVE TypeOK'
    <2>1. link[k].req # <<>>
      BY <1>11 DEF Refuse
    <2>2. PICK v \in {StatusVal, NoVal} :
              link' = Answered(k, CommandReply(Head(link[k].req), v))
      BY <1>11, RefuseFacts
    <2>3. link' \in [Conns -> Links(Request, Reply)]
      BY <2>1, <2>2, AnswerType, WireTypes DEF TypeOK
    <2> QED
      BY <1>11, <2>3, RefuseFacts, ForgetFacts DEF TypeOK, Refuse, calls
  <1>12. ASSUME NEW k \in Conns, Ignore(k) PROVE TypeOK'
    BY <1>12, WireTypes, ForgetFacts DEF TypeOK, Ignore, calls, history
  <1>13. ASSUME NEW k \in Conns, Sever(k) PROVE TypeOK'
    <2>1. link' \in [Conns -> Links(Request, Reply)] /\ faults' \in [Calls -> Nat]
      BY <1>13, WireTypes, MoreFaultsType DEF Sever, TypeOK
    <2> QED
      BY <1>13, <2>1 DEF TypeOK, Sever, calls
  <1>14. CASE UNCHANGED vars
    BY <1>14 DEF TypeOK, vars, device, calls, history
  <1> QED
    BY <1>1, <1>2, <1>3, <1>4, <1>5, <1>6, <1>7, <1>8, <1>9, <1>10, <1>11, <1>12,
       <1>13, <1>14
    DEF Next, Enter, Progress, Device, Failure

-----------------------------------------------------------------------------
\* The connection carries nothing while no exchange is going on.
LEMMA IdleConnection ==
    ASSUME Inductive, conn # NoConn, \A i \in Calls : pc[i] \notin {"registering", "await"}
    PROVE  link[conn].req = <<>> /\ link[conn].rep = <<>>
  <1>1. conn \in Conns
    BY DEF Inductive, TypeOK
  <1>2. DOMAIN link[conn].req = {} /\ DOMAIN link[conn].rep = {}
    BY <1>1, OnTheWire DEF Inductive, StreamInSync, Exchanged
  <1> QED
    BY <1>1, <1>2, OnTheWire, QueueFacts DEF Inductive

\* A connection that carries nothing is in step.
LEMMA StreamEmpty ==
    ASSUME conn' # NoConn => link'[conn'].req = <<>> /\ link'[conn'].rep = <<>>
    PROVE  StreamInSync'
  <1>1. \A s, t : s = <<>> /\ t = <<>> =>
            Len(s) + Len(t) <= 1 /\ DOMAIN s = {} /\ DOMAIN t = {}
    OBVIOUS
  <1>2. ASSUME conn' # NoConn
        PROVE  /\ Len(link'[conn'].req) + Len(link'[conn'].rep) <= 1
               /\ DOMAIN link'[conn'].req = {}
               /\ DOMAIN link'[conn'].rep = {}
    BY <1>1, <1>2, Zenon
  <1> QED
    BY <1>2, Zenon DEF StreamInSync

\* What comes on the wire has to be traced to a call, what was there stays so.
LEMMA TracedKept ==
    ASSUME Traced, TypeOK,
           \A k \in Conns :
               /\ \A n \in DOMAIN link'[k].req :
                     \/ \E m \in DOMAIN link[k].req : link'[k].req[n] = link[k].req[m]
                     \/ RequestTraced(link[k].req[n])'
               /\ \A n \in DOMAIN link'[k].rep :
                     \/ \E m \in DOMAIN link[k].rep : link'[k].rep[n] = link[k].rep[m]
                     \/ ReplyTraced(link[k].rep[n])',
           \A j \in Calls : pc[j] # "new" => pc'[j] # "new" /\ op'[j] = op[j],
           \A j \in Calls : seen[j] \subseteq seen'[j]
    PROVE  Traced'
  <1>1. ASSUME NEW k \in Conns, NEW n \in DOMAIN link'[k].req
        PROVE  RequestTraced(link[k].req[n])'
    <2>1. CASE \E m \in DOMAIN link[k].req : link'[k].req[n] = link[k].req[m]
      <3>1. PICK m \in DOMAIN link[k].req : link'[k].req[n] = link[k].req[m]
        BY <2>1
      <3>2. link[k].req[m].call \in Calls /\ RequestTraced(link[k].req[m])
        BY OnTheWire DEF Traced
      <3> QED
        BY <3>1, <3>2 DEF RequestTraced
    <2> QED
      BY <1>1, <2>1
  <1>2. ASSUME NEW k \in Conns, NEW n \in DOMAIN link'[k].rep
        PROVE  ReplyTraced(link[k].rep[n])'
    <2>1. CASE \E m \in DOMAIN link[k].rep : link'[k].rep[n] = link[k].rep[m]
      <3>1. PICK m \in DOMAIN link[k].rep : link'[k].rep[n] = link[k].rep[m]
        BY <2>1
      <3>2. link[k].rep[m].call \in Calls /\ ReplyTraced(link[k].rep[m])
        BY OnTheWire DEF Traced
      <3> QED
        BY <3>1, <3>2 DEF ReplyTraced
    <2> QED
      BY <1>2, <2>1
  <1> QED
    BY <1>1, <1>2 DEF Traced

\* A step outside the exchange: nothing happens on the wire.
LEMMA QuietStep ==
    ASSUME Inductive, TypeOK', UNCHANGED <<link, reg, conn, session, val, seen>>, LockHeld',
           \A j \in Calls : pc[j] \in {"registering", "await"} => mu' = mu /\ pc'[j] = pc[j],
           \A j \in Calls : pc[j] = "registering" <=> pc'[j] = "registering",
           \A j \in Calls : pc[j] # "new" => pc'[j] # "new" /\ op'[j] = op[j],
           \A j \in Calls : pc'[j] = "ok" /\ op'[j].kind = "read" => pc[j] = "ok" /\ op[j] = op'[j]
    PROVE  Inductive'
  <1>t. TypeOK
    BY DEF Inductive
  <1>1. SocketHeld' /\ SessionHeld'
    BY DEF Inductive, SocketHeld, SessionHeld, Live
  <1>2. StreamInSync'
    <2>1. CASE \A j \in Calls : pc[j] \notin {"registering", "await"}
      BY <2>1, IdleConnection, StreamEmpty
    <2>2. CASE \E j \in Calls : pc[j] \in {"registering", "await"}
      <3> SUFFICES ASSUME conn # NoConn PROVE StreamInSync'
        BY DEF StreamInSync
      <3>1. conn \in Conns /\ mu' = mu
        BY <1>t, <2>2 DEF TypeOK
      <3>2. /\ \A n \in DOMAIN link[conn].req : link[conn].req[n].call \in Calls
            /\ \A n \in DOMAIN link[conn].rep : link[conn].rep[n].call \in Calls
        BY <1>t, <3>1, OnTheWire
      <3>3. ASSUME NEW m, m.call \in Calls, Exchanged(m) PROVE Exchanged(m)'
        BY <3>1, <3>3 DEF Exchanged
      <3> QED
        BY <3>1, <3>2, <3>3 DEF Inductive, StreamInSync
    <2> QED
      BY <2>1, <2>2
  <1>3. Traced'
    BY <1>t, TracedKept DEF Inductive
  <1>4. ReadFresh'
    BY DEF Inductive, ReadFresh
  <1> QED
    BY <1>1, <1>2, <1>3, <1>4 DEF Inductive

\* A step that hangs up leaves no connection to be out of step.
LEMMA HangUpStep ==
    ASSUME Inductive, TypeOK', HangsUp, LockHeld', UNCHANGED <<op, val, seen>>,
           \A j \in Calls : pc[j] # "new" => pc'[j] # "new",
           \A j \in Calls : pc'[j] = "ok" /\ op[j].kind = "read" => pc[j] = "ok"
    PROVE  Inductive'
  <1>t. TypeOK
    BY DEF Inductive
  <1>1. \A k \in Conns :
           /\ link'[k].st = "down"
           /\ link'[k].req = link[k].req
           /\ link'[k].rep = link[k].rep \/ link'[k].rep = <<>>
    BY HangUpFacts DEF Inductive
  <1>2. SocketHeld' /\ StreamInSync' /\ SessionHeld'
    BY <1>1 DEF SocketHeld, StreamInSync, SessionHeld, Live, HangsUp
  <1>3. Traced'
    <2>1. DOMAIN <<>> = {}
      OBVIOUS
    <2> QED
      BY <1>t, <1>1, <2>1, TracedKept DEF Inductive
  <1>4. ReadFresh'
    BY DEF Inductive, ReadFresh
  <1> QED
    BY <1>2, <1>3, <1>4 DEF Inductive

-----------------------------------------------------------------------------
\* The mutex is held by the one call that has a connection to itself.
LEMMA LockNext == TypeOK /\ LockHeld /\ [Next]_vars => LockHeld'
  <1> SUFFICES ASSUME TypeOK, LockHeld, [Next]_vars PROVE LockHeld'
    OBVIOUS
  <1>t. /\ pc \in [Calls -> {"new"} \cup Waiting \cup Returned]
        /\ mu \in Calls \cup {NoCall} /\ op \in [Calls -> Ops \cup {NoOp}]
    BY DEF TypeOK
  <1>1. ASSUME NEW i \in Calls, NEW o \in Ops, Invoke(i, o) PROVE LockHeld'
    BY <1>t, <1>1 DEF Invoke, LockHeld, Busy
  <1>2. ASSUME NEW i \in Calls, ReturnLocally(i) \/ Build(i) PROVE LockHeld'
    BY <1>t, <1>2 DEF ReturnLocally, Build, LockHeld, Busy
  <1>3. ASSUME NEW i \in Calls, Acquire(i) PROVE LockHeld'
    BY <1>t, <1>3, CallAssumption DEF Acquire, LockHeld, Busy
  <1>4. ASSUME NEW i \in Calls, NEW k \in Conns, Connect(i, k) PROVE LockHeld'
    BY <1>t, <1>4, NoConnAssumption DEF Connect, LockHeld, Busy
  <1>5. ASSUME NEW i \in Calls, NEW k \in Conns, Open(i, k) PROVE LockHeld'
    BY <1>t, <1>5, NoConnAssumption, CallAssumption DEF Open, LockHeld, Busy
  <1>6. ASSUME NEW i \in Calls, OpenFail(i) \/ Close(i) PROVE LockHeld'
    BY <1>t, <1>6, CallAssumption DEF OpenFail, OpenFailed, Return, Close, LockHeld, Busy
  <1>7. ASSUME NEW i \in Calls, Failure(i) PROVE LockHeld'
    <2>1. /\ mu = i /\ pc[i] \in Busy /\ UNCHANGED op
          /\ \/ mu' = mu /\ pc' = [pc EXCEPT ![i] = "attempt"] /\ IsData(op[i])
             \/ mu' = NoCall /\ pc' = [pc EXCEPT ![i] = "failed"]
      BY <1>7, FailureFacts
    <2> QED
      BY <1>t, <2>1, CallAssumption DEF LockHeld, Busy
  <1>8. ASSUME NEW i \in Calls, Transmit(i) PROVE LockHeld'
    BY <1>t, <1>8 DEF Transmit, LockHeld, Busy
  <1>9. ASSUME NEW i \in Calls, TakeSession(i) \/ TakeReply(i) PROVE LockHeld'
    <2>1. /\ mu = i /\ pc[i] \in Busy /\ UNCHANGED <<conn, op>>
          /\ \/ /\ mu' = NoCall
                /\ pc' = [pc EXCEPT ![i] = "ok"] \/ pc' = [pc EXCEPT ![i] = "rejected"]
             \/ mu' = mu /\ pc' = [pc EXCEPT ![i] = "attempt"] /\ op[i].kind # "open"
      BY <1>9, TakeFacts DEF Busy
    <2> QED
      BY <1>t, <2>1, CallAssumption DEF LockHeld, Busy
  <1>10. ASSUME NEW n \in Policies, SetRetryPolicy(n) PROVE LockHeld'
    BY <1>10 DEF SetRetryPolicy, calls, LockHeld
  <1>11. ASSUME NEW k \in Conns, Device(k) PROVE LockHeld'
    BY <1>11 DEF Device, Register, Execute, Refuse, Ignore, Sever, calls, LockHeld
  <1>12. CASE UNCHANGED vars
    BY <1>12 DEF vars, calls, LockHeld
  <1> QED
    BY <1>1, <1>2, <1>3, <1>4, <1>5, <1>6, <1>7, <1>8, <1>9, <1>10, <1>11, <1>12
    DEF Next, Enter, Progress, Failure

\* A dial: nothing but the registration of the caller is on the new connection.
LEMMA DialStep ==
    ASSUME Inductive, TypeOK', LockHeld', NEW i \in Calls, NEW k \in Conns,
           Connect(i, k) \/ Open(i, k)
    PROVE  Inductive'
  <1>t. TypeOK /\ SocketHeld /\ Traced /\ ReadFresh
    BY DEF Inductive
  <1>1. /\ conn' = k /\ link'[k].st = "up"
        /\ link'[k].req = <<RegisterRequest(i)>> /\ link'[k].rep = <<>>
        /\ \A j \in Conns : j # k =>
              /\ link'[j].st = IF j = conn THEN "down" ELSE link[j].st
              /\ link'[j].req = link[j].req
              /\ link'[j].rep = link[j].rep \/ link'[j].rep = <<>>
    BY <1>t, DialFacts
  <1>2. /\ pc' = [pc EXCEPT ![i] = "registering"] /\ pc[i] # "new"
        /\ UNCHANGED <<op, val, seen>> /\ mu' = i
    BY DEF Connect, Open, history, Inductive, LockHeld, Busy
  <1>3. SocketHeld'
    BY <1>1, <1>t DEF SocketHeld
  <1>4. RegisterRequest(i).call = i /\ RegisterRequest(i).cmd = "register"
    BY DEF RegisterRequest
  <1>5. pc'[i] = "registering" /\ pc \in [Calls -> {"new"} \cup Waiting \cup Returned]
    BY <1>t, <1>2 DEF TypeOK
  <1>6. /\ Len(link'[k].req) + Len(link'[k].rep) <= 1
        /\ DOMAIN link'[k].rep = {}
        /\ \A n \in DOMAIN link'[k].req : link'[k].req[n] = RegisterRequest(i)
    BY <1>1
  <1>7. StreamInSync'
    BY <1>1, <1>2, <1>4, <1>5, <1>6 DEF StreamInSync, Exchanged
  <1>8. SessionHeld'
    BY <1>5 DEF SessionHeld
  <1>9. Traced'
    <2>1. DOMAIN <<>> = {}
      OBVIOUS
    <2>2. RequestTraced(RegisterRequest(i))'
      BY <1>4, <1>5 DEF RequestTraced
    <2>3. ASSUME NEW j \in Conns
          PROVE  /\ \A n \in DOMAIN link'[j].req :
                       \/ \E m \in DOMAIN link[j].req : link'[j].req[n] = link[j].req[m]
                       \/ RequestTraced(link[j].req[n])'
                 /\ \A n \in DOMAIN link'[j].rep :
                       \/ \E m \in DOMAIN link[j].rep : link'[j].rep[n] = link[j].rep[m]
                       \/ ReplyTraced(link[j].rep[n])'
      <3>1. CASE j = k
        <4>1. ASSUME NEW n \in DOMAIN link'[j].req PROVE RequestTraced(link[j].req[n])'
          BY <1>4, <1>5, <1>6, <3>1, <4>1 DEF RequestTraced
        <4> QED
          BY <1>6, <3>1, <4>1
      <3>2. CASE j # k
        BY <1>1, <2>1, <3>2
      <3> QED
        BY <3>1, <3>2
    <2> QED
      BY <1>t, <1>2, <1>5, <2>3, TracedKept
  <1>10. ReadFresh'
    BY <1>t, <1>2, <1>5 DEF ReadFresh
  <1> QED
    BY <1>3, <1>7, <1>8, <1>9, <1>10 DEF Inductive

\* A command goes out on a connection that carries nothing.
LEMMA TransmitStep ==
    ASSUME Inductive, TypeOK', LockHeld', NEW i \in Calls, Transmit(i)
    PROVE  Inductive'
  <1> DEFINE q == [call |-> i, cmd |-> "send", sess |-> built[i]]
  <1>t. TypeOK /\ LockHeld /\ SocketHeld /\ SessionHeld /\ Traced /\ ReadFresh
    BY DEF Inductive
  <1>1. /\ conn \in Conns /\ q \in Request /\ mu = i /\ IsData(op[i])
        /\ link' = Written(conn, q) /\ pc[i] = "attempt"
        /\ pc' = [pc EXCEPT ![i] = "await"]
        /\ UNCHANGED <<reg, mu, conn, session, op, val, seen>>
    <2>1. mu = i /\ IsData(op[i])
      BY <1>t DEF Transmit, LockHeld, Busy
    <2> QED
      BY <1>t, <2>1 DEF Transmit, TypeOK, Request, device, history
  <1>2. \A j \in Calls : pc[j] \notin {"registering", "await"}
    BY <1>1, <1>t DEF LockHeld, Busy
  <1>3. link[conn].req = <<>> /\ link[conn].rep = <<>>
    BY <1>1, <1>2, IdleConnection, NoConnAssumption
  <1>4. \A j \in Conns :
           /\ link'[j].st = link[j].st
           /\ link'[j].req = IF j = conn /\ link[j].st = "up"
                             THEN Append(link[j].req, q) ELSE link[j].req
           /\ link'[j].rep = link[j].rep
    BY <1>t, <1>1, WrittenFields DEF TypeOK
  <1>5. SocketHeld' /\ SessionHeld'
    BY <1>t, <1>1, <1>2, <1>4 DEF SocketHeld, SessionHeld, Live, TypeOK
  <1>6. /\ Len(link'[conn].req) + Len(link'[conn].rep) <= 1
        /\ DOMAIN link'[conn].rep = {}
        /\ \A n \in DOMAIN link'[conn].req : link'[conn].req[n] = q
    <2>1. link'[conn].req = <<>> \/ link'[conn].req = <<q>>
      <3>1. Append(<<>>, q) = <<q>>
        OBVIOUS
      <3> QED
        BY <1>1, <1>3, <1>4, <3>1
    <2>2. link'[conn].rep = <<>>
      BY <1>1, <1>3, <1>4
    <2> HIDE DEF q
    <2>3. CASE link'[conn].req = <<>>
      BY <2>2, <2>3
    <2>4. CASE link'[conn].req = <<q>>
      BY <2>2, <2>4
    <2> QED
      BY <2>1, <2>3, <2>4
  <1>7. q.call = i /\ q.cmd = "send" /\ pc'[i] = "await"
    BY <1>1, <1>t DEF TypeOK
  <1>8. StreamInSync'
    BY <1>1, <1>6, <1>7 DEF StreamInSync, Exchanged
  <1>9. Traced'
    <2>1. RequestTraced(q)'
      BY <1>1, <1>7 DEF RequestTraced
    <2>2. ASSUME NEW j \in Conns
          PROVE  /\ \A n \in DOMAIN link'[j].req :
                       \/ \E m \in DOMAIN link[j].req : link'[j].req[n] = link[j].req[m]
                       \/ RequestTraced(link[j].req[n])'
                 /\ \A n \in DOMAIN link'[j].rep :
                       \/ \E m \in DOMAIN link[j].rep : link'[j].rep[n] = link[j].rep[m]
                       \/ ReplyTraced(link[j].rep[n])'
      <3>1. CASE j = conn
        <4>1. ASSUME NEW n \in DOMAIN link'[j].req PROVE RequestTraced(link[j].req[n])'
          BY <1>1, <1>6, <1>7, <3>1, <4>1 DEF RequestTraced
        <4> QED
          BY <1>4, <3>1, <4>1
      <3>2. CASE j # conn
        BY <1>4, <3>2
      <3> QED
        BY <3>1, <3>2
    <2> QED
      BY <1>t, <1>1, <1>7, <2>2, TracedKept
  <1>10. ReadFresh'
    BY <1>t, <1>1, <1>7 DEF ReadFresh
  <1> QED
    BY <1>5, <1>8, <1>9, <1>10 DEF Inductive

\* The reply that is read is the one of this exchange, and the only message.
LEMMA TakeStep ==
    ASSUME Inductive, TypeOK', LockHeld', NEW i \in Calls, TakeSession(i) \/ TakeReply(i)
    PROVE  Inductive'
  <1> DEFINE r == Head(link[conn].rep)
  <1>t. /\ TypeOK /\ LockHeld /\ SocketHeld /\ StreamInSync /\ SessionHeld
        /\ Traced /\ ReadFresh
    BY DEF Inductive
  <1>1. /\ conn \in Conns /\ link[conn].rep # <<>> /\ link' = Consumed(conn)
        /\ mu = i /\ r \in Reply
        /\ UNCHANGED <<device, conn, op, history>>
    BY <1>t, TakeFacts
  <1>2. \/ /\ pc[i] = "registering" /\ UNCHANGED val
           /\ session' = r.sess /\ r.sess # NoHandle
           /\ \/ pc' = [pc EXCEPT ![i] = "ok"] /\ op[i].kind = "open"
              \/ pc' = [pc EXCEPT ![i] = "attempt"]
        \/ /\ pc[i] = "await" /\ UNCHANGED session
           /\ \/ /\ pc' = [pc EXCEPT ![i] = "ok"]
                 /\ val' = [val EXCEPT ![i] = r.val]
                 /\ op[i].kind = "write" \/ r.val # NoVal
              \/ pc' = [pc EXCEPT ![i] = "rejected"] /\ UNCHANGED val
    BY <1>t, TakeFacts
  <1>3. \A j \in Conns :
           /\ link'[j].st = link[j].st
           /\ link'[j].req = link[j].req
           /\ link'[j].rep = IF j = conn THEN Tail(link[j].rep) ELSE link[j].rep
    BY <1>t, <1>1, ConsumedFields DEF TypeOK
  <1>4. 1 \in DOMAIN link[conn].rep /\ r = link[conn].rep[1]
    BY <1>t, <1>1, OnTheWire, HeadFacts
  <1>5. link'[conn].req = <<>> /\ link'[conn].rep = <<>>
    <2>1. Len(link[conn].req) + Len(link[conn].rep) <= 1
      BY <1>1, <1>t, NoConnAssumption DEF StreamInSync
    <2>2. Tail(link[conn].rep) = <<>> /\ link[conn].req = <<>>
      BY <1>t, <1>1, <2>1, OnTheWire, LastMessage
    <2> QED
      BY <1>1, <1>3, <2>2
  <1>6. Exchanged(r) /\ ReplyTraced(r)
    BY <1>1, <1>4, <1>t, NoConnAssumption DEF StreamInSync, Traced
  <1>7. SocketHeld' /\ StreamInSync'
    BY <1>t, <1>1, <1>3, <1>5, StreamEmpty DEF SocketHeld
  <1>8. SessionHeld'
    <2>1. CASE pc[i] = "registering"
      <3>1. session' = r.sess /\ r.sess # NoHandle
        BY <1>2, <2>1
      <3>2. r.cmd = "register"
        BY <1>1, <1>6, <2>1 DEF Exchanged, Reply
      <3>3. link[conn].st = "up" => r.sess = reg[conn]
        BY <1>1, <1>4, <1>t, <3>2, NoConnAssumption DEF StreamInSync
      <3> QED
        BY <1>1, <1>3, <3>1, <3>3 DEF SessionHeld, Live, device
    <2>2. CASE pc[i] = "await"
      <3>1. session' = session
        BY <1>2, <2>2
      <3>2. \A j \in Calls : pc[j] # "registering"
        BY <1>1, <1>t, <2>2 DEF LockHeld, Busy
      <3> QED
        BY <1>1, <1>3, <1>t, <3>1, <3>2 DEF SessionHeld, Live, device
    <2> QED
      BY <1>2, <2>1, <2>2
  <1>9. Traced'
    <2>1. DOMAIN <<>> = {}
      OBVIOUS
    <2>2. \A j \in Conns : link'[j].rep = link[j].rep \/ link'[j].rep = <<>>
      BY <1>1, <1>3, <1>5
    <2>3. /\ \A j \in Calls : pc[j] # "new" => pc'[j] # "new" /\ op'[j] = op[j]
          /\ \A j \in Calls : seen[j] \subseteq seen'[j]
      BY <1>1, <1>2, <1>t DEF history, TypeOK
    <2> QED
      BY <1>t, <1>3, <2>1, <2>2, <2>3, TracedKept
  <1>10. ReadFresh'
    <2> SUFFICES ASSUME NEW j \in Calls, pc'[j] = "ok", op'[j].kind = "read"
                 PROVE  val'[j] \in seen'[j]
      BY DEF ReadFresh
    <2>1. UNCHANGED <<op, seen>> /\ pc \in [Calls -> {"new"} \cup Waiting \cup Returned]
          /\ val \in [Calls -> Vals \cup {InitVal, StatusVal, NoVal}]
      BY <1>1, <1>t DEF history, TypeOK
    <2>2. CASE j # i
      BY <1>2, <1>t, <2>1, <2>2 DEF ReadFresh
    <2>3. CASE j = i
      <3>1. pc[i] = "await" /\ val' = [val EXCEPT ![i] = r.val] /\ r.val # NoVal
        BY <1>2, <2>1, <2>3
      <3>2. r.cmd = "send" /\ r.call = i
        BY <1>1, <1>6, <3>1 DEF Exchanged, Reply
      <3>3. r.val \in seen[i]
        BY <1>6, <2>1, <2>3, <3>1, <3>2 DEF ReplyTraced
      <3> QED
        BY <2>1, <2>3, <3>1, <3>3
    <2> QED
      BY <2>2, <2>3
  <1> QED
    BY <1>7, <1>8, <1>9, <1>10 DEF Inductive

\* An answer has the call and the kind of the request it is for; a handle that
\* changes with it is the one that it carries.
LEMMA AnsweredStep ==
    ASSUME Inductive, TypeOK', LockHeld', NEW k \in Conns, NEW r \in Reply,
           link[k].req # <<>>, link' = Answered(k, r),
           r.call = Head(link[k].req).call, r.cmd = Head(link[k].req).cmd,
           ReplyTraced(r)',
           UNCHANGED <<mu, conn, session, pc, op, val>>,
           \A j \in Calls : seen[j] \subseteq seen'[j],
           \A j \in Conns : link'[j].st # "down" =>
               reg'[j] = IF j = k /\ r.cmd = "register" THEN r.sess ELSE reg[j]
    PROVE  Inductive'
  <1> DEFINE q == Head(link[k].req)
  <1>t. /\ TypeOK /\ LockHeld /\ SocketHeld /\ StreamInSync /\ SessionHeld
        /\ Traced /\ ReadFresh
    BY DEF Inductive
  <1>1. /\ q = link[k].req[1] /\ 1 \in DOMAIN link[k].req /\ q.call \in Calls
        /\ link[k].req \in Seq(Request) /\ link[k].rep \in Seq(Reply)
    BY <1>t, OnTheWire, HeadFacts
  <1>2. \A j \in Conns :
           /\ link'[j].st = link[j].st
           /\ link'[j].req = IF j = k THEN Tail(link[j].req) ELSE link[j].req
           /\ link'[j].rep = IF j = k /\ link[j].st = "up"
                             THEN Append(link[j].rep, r) ELSE link[j].rep
    <2>1. link \in [Conns -> Links(Request, Reply)]
      BY <1>t DEF TypeOK
    <2> QED
      BY <2>1, AnsweredFields
  <1>3. /\ \A n \in DOMAIN Tail(link[k].req) :
              \E m \in DOMAIN link[k].req : Tail(link[k].req)[n] = link[k].req[m]
        /\ \A n \in DOMAIN Append(link[k].rep, r) :
              \/ Append(link[k].rep, r)[n] = r
              \/ \E m \in DOMAIN link[k].rep : Append(link[k].rep, r)[n] = link[k].rep[m]
    BY <1>1, TailElements, QueueFacts
  <1>4. SocketHeld'
    <2>1. \A j \in Conns : link'[j].st = link[j].st
      BY <1>2
    <2>2. conn' = conn /\ conn \in Conns \cup {NoConn}
      BY <1>t DEF TypeOK
    <2> QED
      BY <1>t, <2>1, <2>2 DEF SocketHeld
  <1>5. ASSUME conn = k
        PROVE  /\ Tail(link[k].req) = <<>> /\ link[k].rep = <<>>
               /\ Exchanged(r)
    <2>1. Len(link[k].req) + Len(link[k].rep) <= 1 /\ Exchanged(q)
      BY <1>1, <1>5, <1>t, NoConnAssumption DEF StreamInSync
    <2>2. Tail(link[k].req) = <<>> /\ link[k].rep = <<>>
      BY <1>1, <2>1, LastMessage
    <2> QED
      BY <2>1, <2>2 DEF Exchanged
  <1>6. StreamInSync'
    <2>1. CASE conn = k
      <3>1. /\ link'[conn].req = <<>>
            /\ link'[conn].rep = <<>> \/ link'[conn].rep = <<r>>
        <4>1. Append(<<>>, r) = <<r>>
          OBVIOUS
        <4>2. /\ link'[k].req = Tail(link[k].req)
              /\ link'[k].rep = link[k].rep \/ link'[k].rep = Append(link[k].rep, r)
          BY <1>2
        <4> QED
          BY <1>5, <2>1, <4>1, <4>2
      <3>2. Exchanged(r)'
        BY <1>5, <2>1 DEF Exchanged
      <3>3. link'[k].st = "up" /\ r.cmd = "register" => r.sess = reg'[k]
        BY <1>t DEF TypeOK
      <3>4. CASE link'[conn].rep = <<>>
        BY <3>1, <3>4, StreamEmpty
      <3>5. CASE link'[conn].rep = <<r>>
        <4>1. /\ Len(link'[conn].req) + Len(link'[conn].rep) <= 1
              /\ DOMAIN link'[conn].req = {}
              /\ \A n \in DOMAIN link'[conn].rep : link'[conn].rep[n] = r
          BY <3>1, <3>5
        <4> QED
          BY <2>1, <3>2, <3>3, <4>1 DEF StreamInSync
      <3> QED
        BY <3>1, <3>4, <3>5
    <2>2. CASE conn # k
      <3> SUFFICES ASSUME conn # NoConn PROVE StreamInSync'
        BY DEF StreamInSync
      <3>1. /\ conn \in Conns /\ link'[conn].st = link[conn].st
            /\ link'[conn].req = link[conn].req
            /\ link'[conn].rep = link[conn].rep
            /\ link'[conn].st = "up" => reg'[conn] = reg[conn]
            /\ conn' = conn
        BY <1>t, <1>2, <2>2 DEF TypeOK
      <3>2. /\ \A n \in DOMAIN link[conn].req : Exchanged(link[conn].req[n])
            /\ \A n \in DOMAIN link[conn].rep : Exchanged(link[conn].rep[n])
        BY <1>t DEF StreamInSync
      <3>3. /\ \A n \in DOMAIN link'[conn].req : Exchanged(link[conn].req[n])'
            /\ \A n \in DOMAIN link'[conn].rep : Exchanged(link[conn].rep[n])'
        BY <3>1, <3>2 DEF Exchanged
      <3>4. /\ Len(link'[conn].req) + Len(link'[conn].rep) <= 1
            /\ \A n \in DOMAIN link'[conn].rep :
                  link'[conn].st = "up" /\ link'[conn].rep[n].cmd = "register" =>
                      link'[conn].rep[n].sess = reg'[conn]
        <4>1. /\ Len(link[conn].req) + Len(link[conn].rep) <= 1
              /\ \A n \in DOMAIN link[conn].rep :
                    link[conn].st = "up" /\ link[conn].rep[n].cmd = "register" =>
                        link[conn].rep[n].sess = reg[conn]
          BY <1>t DEF StreamInSync
        <4> QED
          BY <3>1, <4>1
      <3> QED
        BY <3>1, <3>3, <3>4, Zenon DEF StreamInSync
    <2> QED
      BY <2>1, <2>2
  <1>7. SessionHeld'
    <2> SUFFICES ASSUME Live', \A i \in Calls : pc[i] # "registering"
                 PROVE  session = reg'[conn] /\ reg'[conn] # NoHandle
      BY DEF SessionHeld
    <2>1. conn \in Conns /\ Live /\ link'[conn].st = "up"
      BY <1>t, <1>2 DEF Live, TypeOK
    <2>2. session = reg[conn] /\ reg[conn] # NoHandle
      BY <1>t, <2>1 DEF SessionHeld
    <2>3. conn = k => r.cmd # "register"
      BY <1>1, <1>5 DEF Exchanged
    <2> QED
      BY <1>t, <2>1, <2>2, <2>3 DEF TypeOK
  <1>8. Traced'
    <2>1. ASSUME NEW j \in Conns
          PROVE  /\ \A n \in DOMAIN link'[j].req :
                       \/ \E m \in DOMAIN link[j].req : link'[j].req[n] = link[j].req[m]
                       \/ RequestTraced(link[j].req[n])'
                 /\ \A n \in DOMAIN link'[j].rep :
                       \/ \E m \in DOMAIN link[j].rep : link'[j].rep[n] = link[j].rep[m]
                       \/ ReplyTraced(link[j].rep[n])'
      <3>1. CASE j = k /\ link[j].st = "up"
        <4>1. link'[j].rep = Append(link[k].rep, r) /\ link'[j].req = Tail(link[k].req)
          BY <1>2, <3>1
        <4>2. ASSUME NEW n \in DOMAIN link'[j].rep
              PROVE  \/ \E m \in DOMAIN link[j].rep : link'[j].rep[n] = link[j].rep[m]
                     \/ ReplyTraced(link[j].rep[n])'
          <5>1. CASE link'[j].rep[n] = r
            BY <5>1 DEF ReplyTraced
          <5> QED
            BY <1>3, <3>1, <4>1, <4>2, <5>1
        <4> QED
          BY <1>3, <3>1, <4>1, <4>2
      <3>2. CASE j = k /\ link[j].st # "up"
        <4>1. link'[j].rep = link[j].rep /\ link'[j].req = Tail(link[k].req)
          BY <1>2, <3>2
        <4> QED
          BY <1>3, <3>2, <4>1
      <3>3. CASE j # k
        <4>1. link'[j].rep = link[j].rep /\ link'[j].req = link[j].req
          BY <1>2, <3>3
        <4> QED
          BY <4>1
      <3> QED
        BY <3>1, <3>2, <3>3
    <2> QED
      BY <1>t, <2>1, TracedKept
  <1>9. ReadFresh'
    BY <1>t DEF ReadFresh
  <1> QED
    BY <1>4, <1>6, <1>7, <1>8, <1>9 DEF Inductive

\* A request that the device drops, or a connection that it ends, leaves less
\* to be out of step.
LEMMA LossStep ==
    ASSUME Inductive, TypeOK', LockHeld', NEW k \in Conns, Ignore(k) \/ Sever(k)
    PROVE  Inductive'
  <1>t. /\ TypeOK /\ LockHeld /\ SocketHeld /\ StreamInSync /\ SessionHeld
        /\ Traced /\ ReadFresh
    BY DEF Inductive
  <1>1. UNCHANGED <<mu, conn, session, pc, op, val, seen>>
    BY DEF Ignore, Sever, calls, history
  <1>2. \A j \in Conns : j # k =>
            link'[j] = link[j] /\ (link[j].st # "down" => reg'[j] = reg[j])
    BY <1>t, ForgetFacts DEF Ignore, Sever, Ignored, Severed, TypeOK
  <1>3. /\ link'[k].rep = link[k].rep
        /\ link'[k].req = <<>> \/ (link[k].req # <<>> /\ link'[k].req = Tail(link[k].req))
        /\ \/ /\ link'[k].st = link[k].st
              /\ link[k].st # "down" => reg'[k] = reg[k]
           \/ link'[k].st = "cut" /\ link[k].st = "up"
    <2>1. CASE Ignore(k)
      BY <1>t, <2>1, IgnoredFields, ForgetFacts DEF Ignore, TypeOK
    <2>2. CASE Sever(k)
      BY <1>t, <2>2, SeveredFields DEF Sever, TypeOK
    <2> QED
      BY <2>1, <2>2
  <1>4. link[k].req \in Seq(Request) /\ link[k].rep \in Seq(Reply)
    BY <1>t, OnTheWire
  <1>5. /\ \A n \in DOMAIN link'[k].req :
              \E m \in DOMAIN link[k].req : link'[k].req[n] = link[k].req[m]
        /\ Len(link'[k].req) <= Len(link[k].req)
    <2>1. CASE link'[k].req = <<>>
      BY <1>4, <2>1, QueueFacts
    <2>2. CASE link[k].req # <<>> /\ link'[k].req = Tail(link[k].req)
      BY <1>4, <2>2, QueueFacts, TailElements
    <2> QED
      BY <1>3, <2>1, <2>2
  <1>6. SocketHeld'
    BY <1>t, <1>1, <1>2, <1>3 DEF SocketHeld, TypeOK
  <1>7. StreamInSync'
    <2>1. CASE conn = k
      <3>1. /\ Len(link[k].req) + Len(link[k].rep) <= 1
            /\ \A n \in DOMAIN link[k].req : Exchanged(link[k].req[n])
            /\ \A n \in DOMAIN link[k].rep : Exchanged(link[k].rep[n])
            /\ \A n \in DOMAIN link[k].rep :
                  link[k].st = "up" /\ link[k].rep[n].cmd = "register" =>
                      link[k].rep[n].sess = reg[k]
        BY <1>t, <2>1, NoConnAssumption DEF StreamInSync
      <3>2. Len(link'[k].req) + Len(link'[k].rep) <= 1
        <4>1. /\ Len(link'[k].req) \in Nat
              /\ Len(link[k].req) \in Nat /\ Len(link[k].rep) \in Nat
          BY <1>3, <1>4, <1>5, QueueFacts, HeadFacts
        <4>2. PICK a \in Nat, b \in Nat, d \in Nat :
                  a = Len(link'[k].req) /\ b = Len(link[k].req) /\ d = Len(link[k].rep)
          BY <4>1
        <4>3. a <= b /\ b + d <= 1
          BY <1>5, <3>1, <4>2
        <4>4. a + d <= 1
          BY <4>3
        <4>5. link'[k].rep = link[k].rep
          BY <1>3
        <4> QED
          BY <4>2, <4>4, <4>5
      <3>3. \A n \in DOMAIN link'[k].req : Exchanged(link[k].req[n])'
        BY <1>1, <1>5, <3>1 DEF Exchanged
      <3>4. \A n \in DOMAIN link'[k].rep : Exchanged(link[k].rep[n])'
        BY <1>1, <1>3, <3>1 DEF Exchanged
      <3> QED
        BY <1>1, <1>3, <2>1, <3>1, <3>2, <3>3, <3>4 DEF StreamInSync
    <2>2. CASE conn # k
      <3> SUFFICES ASSUME conn # NoConn PROVE StreamInSync'
        BY <1>1 DEF StreamInSync
      <3>1. /\ link'[conn] = link[conn] /\ conn' = conn
            /\ link[conn].st = "up" => reg'[conn] = reg[conn]
        BY <1>t, <1>1, <1>2, <2>2 DEF TypeOK
      <3>2. \A m : Exchanged(m)' <=> Exchanged(m)
        BY <1>1 DEF Exchanged
      <3> QED
        BY <1>t, <3>1, <3>2 DEF StreamInSync
    <2> QED
      BY <2>1, <2>2
  <1>8. SessionHeld'
    BY <1>t, <1>1, <1>2, <1>3 DEF SessionHeld, Live, TypeOK
  <1>9. Traced'
    BY <1>t, <1>1, <1>2, <1>3, <1>5, TracedKept
  <1>10. ReadFresh'
    BY <1>t, <1>1 DEF ReadFresh
  <1> QED
    BY <1>6, <1>7, <1>8, <1>9, <1>10 DEF Inductive

-----------------------------------------------------------------------------
LEMMA InductiveNext == Inductive /\ [Next]_vars => Inductive'
  <1> SUFFICES ASSUME Inductive, [Next]_vars PROVE Inductive'
    OBVIOUS
  <1>t. /\ TypeOK /\ LockHeld /\ Traced /\ ReadFresh /\ SocketHeld
        /\ TypeOK' /\ LockHeld'
    BY NextType, LockNext DEF Inductive
  <1>p. /\ pc \in [Calls -> {"new"} \cup Waiting \cup Returned]
        /\ op \in [Calls -> Ops \cup {NoOp}]
    BY <1>t DEF TypeOK
  <1>1. ASSUME NEW i \in Calls, NEW o \in Ops, Invoke(i, o) PROVE Inductive'
    <2>1. /\ UNCHANGED <<link, reg, conn, session, val, seen, mu>>
          /\ pc[i] = "new" /\ op' = [op EXCEPT ![i] = o]
          /\ \E s \in {"build", "blocked"} : pc' = [pc EXCEPT ![i] = s]
      BY <1>1 DEF Invoke, device, history
    <2> QED
      BY <1>t, <1>p, <2>1, QuietStep
  <1>2. ASSUME NEW i \in Calls, ReturnLocally(i) \/ Build(i) PROVE Inductive'
    <2>1. /\ UNCHANGED <<link, reg, conn, session, val, seen, mu, op>>
          /\ pc[i] = "build"
          /\ \E s \in {"rejected", "blocked"} : pc' = [pc EXCEPT ![i] = s]
      BY <1>2 DEF ReturnLocally, Build, device, history
    <2> QED
      BY <1>t, <1>p, <2>1, QuietStep
  <1>3. ASSUME NEW i \in Calls, Acquire(i) PROVE Inductive'
    <2>1. /\ UNCHANGED <<link, reg, conn, session, val, seen, op>>
          /\ pc[i] = "blocked" /\ pc' = [pc EXCEPT ![i] = "attempt"]
          /\ mu = NoCall
      BY <1>3 DEF Acquire, device
    <2>2. \A j \in Calls : pc[j] \notin {"registering", "await"}
      BY <1>t, <2>1, CallAssumption DEF LockHeld, Busy
    <2> QED
      BY <1>t, <1>p, <2>1, <2>2, QuietStep
  <1>4. ASSUME NEW i \in Calls, OpenFail(i) \/ Close(i) PROVE Inductive'
    <2>1. /\ HangsUp /\ UNCHANGED <<op, val, seen>>
          /\ op[i].kind # "read"
          /\ \E s \in {"ok", "failed"} : pc' = [pc EXCEPT ![i] = s]
      BY <1>4 DEF OpenFail, OpenFailed, Return, Close, HangsUp, history
    <2> QED
      BY <1>t, <1>p, <2>1, HangUpStep
  <1>5. ASSUME NEW i \in Calls, Failure(i) PROVE Inductive'
    <2>1. /\ HangsUp /\ UNCHANGED <<op, val, seen>>
          /\ \E s \in {"attempt", "failed"} : pc' = [pc EXCEPT ![i] = s]
      BY <1>5, <1>t, FailureFacts
    <2> QED
      BY <1>t, <1>p, <2>1, HangUpStep
  <1>6. ASSUME NEW n \in Policies, SetRetryPolicy(n) PROVE Inductive'
    <2>1. UNCHANGED <<link, reg, conn, session, val, seen, mu, pc, op>>
      BY <1>6 DEF SetRetryPolicy, device, calls, history
    <2> QED
      BY <1>t, <2>1, QuietStep
  <1>7. CASE UNCHANGED vars
    <2>1. UNCHANGED <<link, reg, conn, session, val, seen, mu, pc, op>>
      BY <1>7 DEF vars, device, calls, history
    <2> QED
      BY <1>t, <2>1, QuietStep
  <1>8. ASSUME NEW k \in Conns, NEW h \in Handles \cup {NoHandle}, Register(k, h)
        PROVE  Inductive'
    <2>1. link[k].req # <<>> /\ Head(link[k].req).cmd = "register"
      BY <1>8 DEF Register
    <2>2. PICK q \in Request : q = Head(link[k].req) /\ q.call \in Calls /\ pc[q.call] # "new"
      <3>1. /\ Head(link[k].req) = link[k].req[1] /\ 1 \in DOMAIN link[k].req
            /\ Head(link[k].req) \in Request /\ Head(link[k].req).call \in Calls
        BY <1>t, <2>1, OnTheWire, HeadFacts
      <3> QED
        BY <1>t, <3>1 DEF Traced, RequestTraced
    <2>3. PICK r \in Reply : r = [call |-> q.call, cmd |-> "register",
                                  sess |-> h, val |-> NoVal]
      BY <1>t, <2>1, <2>2, AnswerType
    <2>4. /\ link' = Answered(k, r)
          /\ reg' = [reg EXCEPT ![k] = IF link'[k] = Down THEN NoHandle ELSE r.sess]
          /\ UNCHANGED <<mu, conn, session, pc, op, val, seen>>
      BY <1>8, <2>2, <2>3 DEF Register, calls
    <2>5. r.call = q.call /\ r.cmd = "register" /\ q.cmd = "register"
      BY <2>1, <2>2, <2>3
    <2>6. ReplyTraced(r)'
      BY <2>2, <2>4, <2>5 DEF ReplyTraced
    <2>7. \A j \in Conns : link'[j].st # "down" => reg'[j] = IF j = k THEN r.sess ELSE reg[j]
      <3>1. Down.st = "down"
        BY DEF Down
      <3> QED
        BY <1>t, <2>4, <3>1 DEF TypeOK
    <2> QED
      BY <1>t, <2>1, <2>2, <2>4, <2>5, <2>6, <2>7, AnsweredStep
  <1>9. ASSUME NEW k \in Conns, Execute(k) \/ Refuse(k) PROVE Inductive'
    <2>1. /\ link[k].req # <<>> /\ Head(link[k].req).cmd = "send" /\ Forget
          /\ UNCHANGED <<mu, conn, session, pc, op, val>>
      BY <1>9 DEF Execute, Refuse, calls
    <2>2. PICK q \in Request : q = Head(link[k].req) /\ q.call \in Calls /\ pc[q.call] # "new"
      <3>1. /\ Head(link[k].req) = link[k].req[1] /\ 1 \in DOMAIN link[k].req
            /\ Head(link[k].req) \in Request /\ Head(link[k].req).call \in Calls
        BY <1>t, <2>1, OnTheWire, HeadFacts
      <3> QED
        BY <1>t, <3>1 DEF Traced, RequestTraced
    <2>3. PICK v \in Vals \cup {InitVal, StatusVal, NoVal} :
              /\ link' = Answered(k, CommandReply(q, v))
              /\ op[q.call].kind = "read" => v = NoVal \/ v \in seen'[q.call]
      BY <1>9, <1>t, <2>2, ExecuteFacts, RefuseFacts
    <2>4. PICK r \in Reply : r = CommandReply(q, v)
      BY <1>t, <2>1, <2>2, AnswerType
    <2>5. r.call = q.call /\ r.cmd = "send" /\ q.cmd = "send" /\ r.val = v
      BY <2>1, <2>2, <2>4 DEF CommandReply
    <2>6. ReplyTraced(r)'
      BY <2>1, <2>2, <2>3, <2>5 DEF ReplyTraced
    <2>7. \A j \in Calls : seen[j] \subseteq seen'[j]
      BY <1>9, <1>t, ExecuteFacts, RefuseFacts
    <2>8. \A j \in Conns : link'[j].st # "down" => reg'[j] = reg[j]
      BY <1>t, <2>1, ForgetFacts
    <2>9. link' = Answered(k, r)
      BY <2>3, <2>4
    <2> QED
      BY <1>t, <2>1, <2>2, <2>5, <2>6, <2>7, <2>8, <2>9, AnsweredStep
  <1> QED
    BY <1>1, <1>2, <1>3, <1>4, <1>5, <1>6, <1>7, <1>8, <1>9, <1>t,
       DialStep, TransmitStep, TakeStep, LossStep
    DEF Next, Enter, Progress, Device, Failure

LEMMA InductiveInit == Init => Inductive
  <1> SUFFICES ASSUME Init PROVE Inductive
    OBVIOUS
  <1>1. TypeOK
    BY InitType
  <1>2. /\ mu = NoCall /\ conn = NoConn /\ pc = [i \in Calls |-> "new"]
        /\ link = [k \in Conns |-> Down]
    BY DEF Init
  <1>3. \A k \in Conns :
           link[k].st = "down" /\ DOMAIN link[k].req = {} /\ DOMAIN link[k].rep = {}
    BY <1>2 DEF Down
  <1>4. LockHeld /\ ReadFresh
    BY <1>2, CallAssumption DEF LockHeld, Busy, ReadFresh
  <1>5. SocketHeld /\ StreamInSync /\ SessionHeld /\ Traced
    BY <1>2, <1>3 DEF SocketHeld, StreamInSync, SessionHeld, Live, Traced
  <1> QED
    BY <1>1, <1>4, <1>5 DEF Inductive

THEOREM InductiveInvariant == Spec => []Inductive
  <1>1. Init => Inductive
    BY InductiveInit
  <1>2. Inductive /\ [Next]_vars => Inductive'
    BY InductiveNext
  <1> QED
    BY <1>1, <1>2, PTL DEF Spec

\* Every variable keeps its type, through every action of the client, the
\* device and the network.
THEOREM TypeCorrect == Spec => []TypeOK
  <1>1. Inductive => TypeOK
    BY DEF Inductive
  <1> QED
    BY <1>1, InductiveInvariant, PTL

\* Open, Close and ensureConnLocked leave no socket open that the client does
\* not hold; on the one it holds there is at most one message, of the call that
\* has the mutex, and no command before the device registered the connection.
THEOREM ConnectionsStayInStep == Spec => []ConnectionInStep
  <1>1. Inductive => ConnectionInStep
    <2> SUFFICES ASSUME Inductive PROVE ConnectionInStep
      OBVIOUS
    <2>1. /\ TypeOK /\ LockHeld /\ SocketHeld /\ StreamInSync /\ SessionHeld
      BY DEF Inductive
    <2>2. ASSUME Live, NEW n \in DOMAIN link[conn].req, link[conn].req[n].cmd = "send"
          PROVE  reg[conn] # NoHandle
      <3>1. conn \in Conns /\ Exchanged(link[conn].req[n])
        BY <2>1, <2>2 DEF StreamInSync, Live, TypeOK
      <3>2. pc[mu] = "await" /\ mu \in Calls
        BY <2>1, <2>2, <3>1, OnTheWire DEF Exchanged
      <3>3. \A i \in Calls : pc[i] # "registering"
        BY <2>1, <3>2 DEF LockHeld, Busy
      <3> QED
        BY <2>1, <2>2, <3>3 DEF SessionHeld
    <2> QED
      BY <2>1, <2>2 DEF ConnectionInStep, SocketHeld, StreamInSync, Exchanged
  <1> QED
    BY <1>1, InductiveInvariant, PTL

\* registerSessionLocked and closeLocked keep the session field: between calls
\* it is the handle that the device gave the connection the client holds.
THEOREM SessionIsOfConnection == Spec => []SessionOfConnection
  <1>1. Inductive => SessionOfConnection
    BY CallAssumption DEF Inductive, LockHeld, Busy, SessionHeld, SessionOfConnection
  <1> QED
    BY <1>1, InductiveInvariant, PTL

\* A read that succeeds returns what the device answered to that very read, the
\* value of its tag or the status words of an error, though sendCommand checks
\* no identifier of the reply and readRaw no status.
THEOREM ReadsAreFresh == Spec => []ReadFresh
  <1>1. Inductive => ReadFresh
    BY DEF Inductive
  <1> QED
    BY <1>1, InductiveInvariant, PTL

-----------------------------------------------------------------------------
(***************************************************************************)
(* sendCommand keeps its policy: the device executes a command at most     *)
(* once per attempt, and a call whose device ignores handles fails only    *)
(* when it met more faults than it was allowed retries.  The first needs   *)
(* an account of the requests on connections that were given up, the       *)
(* second one of the faults that each failed attempt has cost.             *)
(***************************************************************************)

\* A connection carries one request at a time, given up or not.
OneRequest == \A k \in Conns : Len(link[k].req) <= 1

\* The loop of sendCommand does not run once too often.
AttemptsLeft == mu # NoCall /\ IsData(op[mu]) => attempt <= budget[mu]

\* The attempts call i has begun to transmit, or may have when it has returned.
Begun(i) ==
    CASE pc[i] \in {"registering", "attempt"} /\ IsData(op[i]) -> attempt
      [] pc[i] = "await"       -> attempt + 1
      [] pc[i] \in Returned    -> budget[i] + 1
      [] OTHER                 -> 0

\* Executions and requests that can still become one are no more than attempts.
Counted ==
    \A i \in Calls :
        /\ IsFiniteSet(Copies(i))
        /\ hits[i] + Cardinality(Copies(i)) <= Begun(i)

Tallied == Inductive /\ OneRequest /\ AttemptsLeft /\ Counted

\* The attempt cannot succeed any more.
Doomed ==
    conn # NoConn /\ (\/ link[conn].st # "up"
                      \/ \E n \in DOMAIN link[conn].rep :
                            link[conn].rep[n].cmd = "register" /\ link[conn].rep[n].sess = NoHandle)

\* Each attempt that failed, or will, has cost the call a fault, and a reply in
\* which a read finds nothing has cost it all it had retries for.
FaultsCharged ==
    mu # NoCall /\ IsData(op[mu]) =>
        /\ faults[mu] >= attempt
        /\ Doomed => faults[mu] >= attempt + 1
        /\ conn # NoConn => \A n \in DOMAIN link[conn].rep :
              link[conn].rep[n].cmd = "send" /\ op[mu].kind = "read"
                      /\ link[conn].rep[n].val = NoVal =>
                  faults[mu] > budget[mu]

\* On a device that ignores handles.
Charged == ~ checks => FaultsCharged /\ RetryMasksFaults

-----------------------------------------------------------------------------
\* The call that holds the mutex is the only one with a connection to itself.
LEMMA Holder ==
    ASSUME TypeOK, LockHeld, NEW i \in Calls, pc[i] \in Busy
    PROVE  /\ mu = i /\ i # NoCall
           /\ \A j \in Calls \ {i} : pc[j] \notin Busy
           /\ IsData(op[i]) \/ (pc[i] = "registering" /\ op[i].kind = "open" /\ ~ IsData(op[i]))
           /\ pc[i] \in {"registering", "await"} => conn \in Conns
  BY CallAssumption DEF LockHeld, TypeOK, IsData

LEMMA NobodyBusy ==
    ASSUME LockHeld, mu = NoCall
    PROVE  \A j \in Calls : pc[j] \notin Busy
  BY CallAssumption DEF LockHeld

LEMMA MoreFaultsFacts ==
    ASSUME TypeOK, NEW i \in Calls
    PROVE  /\ MoreFaults(i) \in [Calls -> Nat]
           /\ \A j \in Calls : MoreFaults(i)[j] >= faults[j]
           /\ \A a \in Nat : a <= faults[i] /\ a <= budget[i] => MoreFaults(i)[i] >= a + 1
  <1>1. faults \in [Calls -> Nat] /\ budget \in [Calls -> Nat]
    BY DEF TypeOK
  <1> QED
    BY <1>1 DEF MoreFaults

LEMMA BegunType ==
    ASSUME NEW i \in Calls
    PROVE  (TypeOK => Begun(i) \in Nat) /\ (TypeOK' => Begun(i)' \in Nat)
  BY DEF TypeOK, Begun, Returned

-----------------------------------------------------------------------------
\* What is left to show of a step that executes nothing and sends no command.
LEMMA QuietTally ==
    ASSUME Tallied, Inductive', OneRequest', AttemptsLeft', hits' = hits,
           \A i \in Calls : Copies(i)' \subseteq Copies(i) /\ Begun(i)' >= Begun(i)
    PROVE  Tallied'
  <1> SUFFICES ASSUME NEW i \in Calls
               PROVE  IsFiniteSet(Copies(i)') /\ hits'[i] + Cardinality(Copies(i)') <= Begun(i)'
    BY DEF Tallied, Counted
  <1>1. IsFiniteSet(Copies(i)) /\ hits[i] + Cardinality(Copies(i)) <= Begun(i)
    BY DEF Tallied, Counted
  <1>2. IsFiniteSet(Copies(i)') /\ Cardinality(Copies(i)') <= Cardinality(Copies(i))
    BY <1>1, FS_Subset
  <1>3. Cardinality(Copies(i)) \in Nat /\ Cardinality(Copies(i)') \in Nat
    BY <1>1, <1>2, FS_CardinalityType
  <1>4. hits[i] \in Nat /\ Begun(i) \in Nat
    BY BegunType DEF Tallied, Inductive, TypeOK
  <1>5. Begun(i)' \in Nat
    BY BegunType DEF Inductive
  <1>6. Begun(i)' >= Begun(i)
    OBVIOUS
  <1> QED
    BY <1>1, <1>2, <1>3, <1>4, <1>5, <1>6

\* Requests that stay or go make no copies.
LEMMA FewerRequests ==
    ASSUME OneRequest,
           \A k \in Conns : link'[k].req = link[k].req \/ link'[k].req = <<>>
    PROVE  OneRequest' /\ \A i \in Calls : Copies(i)' \subseteq Copies(i)
  <1>1. OneRequest'
    BY Empty DEF OneRequest
  <1>2. \A i \in Calls : Copies(i)' \subseteq Copies(i)
    BY Empty DEF Copies
  <1> QED
    BY <1>1, <1>2

\* Such a step of one call.
LEMMA ClientQuiet ==
    ASSUME Tallied, Inductive', hits' = hits, NEW i \in Calls,
           \A k \in Conns : link'[k].req = link[k].req \/ link'[k].req = <<>>,
           AttemptsLeft', Begun(i)' >= Begun(i),
           \A j \in Calls \ {i} : pc'[j] = pc[j] /\ budget'[j] = budget[j] /\ op'[j] = op[j],
           attempt' = attempt \/ \A j \in Calls \ {i} : pc[j] \notin Busy
    PROVE  Tallied'
  <1>1. ASSUME NEW j \in Calls \ {i}
        PROVE  Begun(j)' >= Begun(j)
    <2>1. Begun(j)' = Begun(j)
      BY DEF Begun, Busy
    <2>2. Begun(j) \in Nat
      BY BegunType DEF Tallied, Inductive
    <2> QED
      BY <2>1, <2>2
  <1>2. \A j \in Calls : Begun(j)' >= Begun(j)
    BY <1>1
  <1> QED
    BY <1>2, QuietTally, FewerRequests DEF Tallied, Inductive

-----------------------------------------------------------------------------
\* A step of the client that sends no command: it begins no attempt unseen.
LEMMA ClientTally ==
    ASSUME Tallied, Inductive', NEW i \in Calls,
           \/ \E o \in Ops : Invoke(i, o)
           \/ ReturnLocally(i) \/ Build(i) \/ Acquire(i) \/ OpenFail(i) \/ Close(i)
           \/ Failure(i) \/ TakeSession(i) \/ TakeReply(i)
    PROVE  Tallied'
  <1>t. Inductive /\ TypeOK /\ TypeOK' /\ LockHeld /\ LockHeld' /\ SocketHeld /\ AttemptsLeft
    BY DEF Tallied, Inductive
  <1>p. /\ pc \in [Calls -> {"new"} \cup Waiting \cup Returned]
        /\ op \in [Calls -> Ops \cup {NoOp}]
        /\ budget \in [Calls -> Nat] /\ attempt \in Nat /\ maxRetries \in Nat
        /\ Begun(i) \in Nat /\ Begun(i)' \in Nat
    BY <1>t, BegunType DEF TypeOK
  <1>1. CASE \/ \E o \in Ops : Invoke(i, o)
             \/ ReturnLocally(i) \/ Build(i)
    <2>1. /\ pc[i] \in {"new", "build"} /\ hits' = hits
          /\ \A j \in Calls \ {i} : pc'[j] = pc[j] /\ op'[j] = op[j]
          /\ UNCHANGED <<link, attempt, budget, mu>>
      BY <1>p, <1>1 DEF Invoke, ReturnLocally, Build, history
    <2>2. Begun(i) = 0 /\ Begun(i)' >= Begun(i)
      BY <1>p, <2>1 DEF Begun, Returned
    <2>3. mu # i
      BY <1>t, <2>1 DEF LockHeld, Busy
    <2>4. AttemptsLeft'
      BY <1>t, <2>1, <2>3 DEF AttemptsLeft, TypeOK
    <2> QED
      BY <2>1, <2>2, <2>4, ClientQuiet
  <1>2. CASE Acquire(i)
    <2>1. /\ pc[i] = "blocked" /\ mu = NoCall /\ mu' = i /\ attempt' = 0 /\ budget'[i] = maxRetries
          /\ \A j \in Calls \ {i} : pc'[j] = pc[j] /\ budget'[j] = budget[j]
          /\ UNCHANGED <<link, op, hits>>
      BY <1>p, <1>2 DEF Acquire
    <2>2. Begun(i) = 0 /\ Begun(i)' >= Begun(i)
      BY <1>p, <2>1 DEF Begun, Returned
    <2>3. \A j \in Calls : pc[j] \notin Busy
      BY <1>t, <2>1, NobodyBusy
    <2>4. AttemptsLeft'
      BY <1>p, <2>1 DEF AttemptsLeft
    <2> QED
      BY <2>1, <2>2, <2>3, <2>4, ClientQuiet
  <1>3. CASE OpenFail(i) \/ Close(i)
    <2>1. /\ HangsUp /\ pc[i] = "blocked" /\ mu = NoCall /\ mu' = NoCall
          /\ \A j \in Calls \ {i} : pc'[j] = pc[j]
          /\ UNCHANGED <<op, budget, hits>>
      BY <1>p, <1>3 DEF OpenFail, OpenFailed, Close, Return, HangsUp, history
    <2>2. Begun(i) = 0 /\ Begun(i)' >= Begun(i)
      BY <1>p, <2>1 DEF Begun, Returned
    <2>3. \A j \in Calls : pc[j] \notin Busy
      BY <1>t, <2>1, NobodyBusy
    <2>4. AttemptsLeft'
      BY <2>1 DEF AttemptsLeft
    <2>5. \A k \in Conns : link'[k].req = link[k].req
      BY <1>t, <2>1, HangUpFacts
    <2> QED
      BY <2>1, <2>2, <2>3, <2>4, <2>5, ClientQuiet
  <1>4. CASE Failure(i)
    <2>1. /\ HangsUp /\ mu = i /\ pc[i] \in Busy
          /\ UNCHANGED <<op, budget, hits>>
          /\ \/ /\ mu' = mu /\ pc' = [pc EXCEPT ![i] = "attempt"]
                /\ attempt' = attempt + 1 /\ IsData(op[i]) /\ MoreAttempts(i)
             \/ /\ mu' = NoCall /\ pc' = [pc EXCEPT ![i] = "failed"]
      BY <1>t, <1>4, FailureFacts
    <2>2. /\ i # NoCall /\ \A j \in Calls \ {i} : pc[j] \notin Busy
          /\ pc[i] = "await" => IsData(op[i])
          /\ IsData(op[i]) => attempt <= budget[i]
      BY <1>t, <2>1, Holder DEF AttemptsLeft
    <2>3. \A k \in Conns : link'[k].req = link[k].req
      BY <1>t, <2>1, HangUpFacts
    <2>4. \A j \in Calls \ {i} : pc'[j] = pc[j]
      BY <1>p, <2>1
    <2>5. CASE mu' = mu
      <3>1. pc'[i] = "attempt" /\ attempt' = attempt + 1 /\ IsData(op[i]) /\ attempt < budget[i]
        BY <1>p, <2>1, <2>2, <2>5 DEF MoreAttempts
      <3>2. Begun(i)' = attempt + 1
        BY <2>1, <3>1 DEF Begun, IsData, Returned
      <3>3. Begun(i) <= attempt + 1
        BY <1>p, <2>1, <3>1 DEF Begun, Busy, Returned
      <3>4. AttemptsLeft'
        BY <1>p, <2>1, <2>5, <3>1 DEF AttemptsLeft
      <3> QED
        BY <1>p, <2>1, <2>2, <2>3, <2>4, <3>2, <3>3, <3>4, ClientQuiet
    <2>6. CASE mu' # mu
      <3>1. pc'[i] = "failed" /\ mu' = NoCall
        BY <1>p, <2>1, <2>6
      <3>2. Begun(i)' = budget[i] + 1
        BY <2>1, <3>1 DEF Begun, Returned
      <3>3. Begun(i) <= budget[i] + 1
        BY <1>p, <2>1, <2>2 DEF Begun, Busy, Returned
      <3>4. AttemptsLeft'
        BY <3>1 DEF AttemptsLeft
      <3> QED
        BY <1>p, <2>1, <2>2, <2>3, <2>4, <3>2, <3>3, <3>4, ClientQuiet
    <2> QED
      BY <2>5, <2>6
  <1>5. CASE TakeSession(i) \/ TakeReply(i)
    <2>1. /\ conn \in Conns /\ link' = Consumed(conn) /\ mu = i
          /\ UNCHANGED <<op, budget, hits>>
          /\ \/ /\ pc[i] = "registering" /\ op[i].kind # "open"
                /\ pc' = [pc EXCEPT ![i] = "attempt"] /\ UNCHANGED <<mu, attempt>>
             \/ /\ pc[i] \in {"registering", "await"} /\ mu' = NoCall
                /\ pc' = [pc EXCEPT ![i] = "ok"] \/ pc' = [pc EXCEPT ![i] = "rejected"]
      BY <1>t, <1>5, TakeFacts DEF history
    <2>2. /\ pc[i] \in Busy /\ \A j \in Calls \ {i} : pc[j] \notin Busy
          /\ op[i].kind # "open" => IsData(op[i])
          /\ i # NoCall /\ IsData(op[i]) => attempt <= budget[i]
          /\ pc[i] = "await" => IsData(op[i])
      BY <1>t, <2>1, Holder DEF AttemptsLeft, Busy
    <2>3. \A k \in Conns : link'[k].req = link[k].req
      BY <1>t, <2>1, ConsumedFields DEF TypeOK
    <2>4. \A j \in Calls \ {i} : pc'[j] = pc[j]
      BY <1>p, <2>1
    <2>5. CASE mu' = mu
      <3>1. pc[i] = "registering" /\ pc'[i] = "attempt" /\ attempt' = attempt /\ IsData(op[i])
        BY <1>p, <1>t, <2>1, <2>2, <2>5, Holder
      <3>2. Begun(i)' = attempt /\ Begun(i) = attempt
        BY <2>1, <3>1 DEF Begun, IsData, Returned
      <3>3. AttemptsLeft'
        BY <1>t, <2>1, <2>5, <3>1 DEF AttemptsLeft
      <3> QED
        BY <1>p, <2>1, <2>2, <2>3, <2>4, <3>2, <3>3, ClientQuiet
    <2>6. CASE mu' # mu
      <3>1. pc'[i] \in {"ok", "rejected"} /\ mu' = NoCall
        BY <1>p, <2>1, <2>6
      <3>2. Begun(i)' = budget[i] + 1
        BY <2>1, <3>1 DEF Begun, Returned
      <3>3. Begun(i) <= budget[i] + 1
        <4>1. i # NoCall
          BY <1>t, <2>2, Holder
        <4> QED
          BY <1>p, <2>2, <4>1 DEF Begun, Busy, Returned
      <3>4. AttemptsLeft'
        BY <3>1 DEF AttemptsLeft
      <3> QED
        BY <1>p, <2>1, <2>2, <2>3, <2>4, <3>2, <3>3, <3>4, ClientQuiet
    <2> QED
      BY <2>5, <2>6
  <1> QED
    BY <1>1, <1>2, <1>3, <1>4, <1>5

\* A dial puts a registration on a connection that had nothing.
LEMMA DialTally ==
    ASSUME Tallied, Inductive', NEW i \in Calls, NEW k \in Conns, Connect(i, k) \/ Open(i, k)
    PROVE  Tallied'
  <1>t. Inductive /\ TypeOK /\ TypeOK' /\ LockHeld /\ OneRequest /\ AttemptsLeft
    BY DEF Tallied, Inductive
  <1>p. /\ pc \in [Calls -> {"new"} \cup Waiting \cup Returned]
        /\ budget \in [Calls -> Nat] /\ attempt \in Nat
    BY <1>t DEF TypeOK
  <1>1. /\ link'[k].req = <<RegisterRequest(i)>>
        /\ \A j \in Conns : j # k => link'[j].req = link[j].req
    BY <1>t, DialFacts
  <1>2. RegisterRequest(i).cmd = "register"
    BY DEF RegisterRequest
  <1>3. /\ Len(link'[k].req) <= 1
        /\ \A n \in DOMAIN link'[k].req : link'[k].req[n].cmd = "register"
    <2> HIDE DEF RegisterRequest
    <2> QED
      BY <1>1, <1>2, OneAppended
  <1>4. OneRequest'
    <2> SUFFICES ASSUME NEW j \in Conns PROVE Len(link'[j].req) <= 1
      BY DEF OneRequest
    <2>1. CASE j = k
      BY <1>3, <2>1
    <2>2. CASE j # k
      BY <1>t, <1>1, <2>2 DEF OneRequest
    <2> QED
      BY <2>1, <2>2
  <1>5. \A j \in Calls : Copies(j)' \subseteq Copies(j)
    BY <1>1, <1>3 DEF Copies
  <1>6. UNCHANGED <<attempt, op, budget, hits>>
    BY DEF Connect, Open, history
  <1>7. \A j \in Calls \ {i} : pc'[j] = pc[j]
    BY <1>p DEF Connect, Open
  <1>8. \/ pc[i] = "attempt" /\ pc'[i] = "registering" /\ mu = i /\ mu' = i /\ IsData(op[i])
        \/ pc[i] = "blocked" /\ pc'[i] = "registering" /\ mu' = i /\ ~ IsData(op[i])
    BY <1>t, <1>p, Holder DEF Connect, Open, Busy, IsData
  <1>9. AttemptsLeft'
    BY <1>t, <1>6, <1>8 DEF AttemptsLeft
  <1>10. Begun(i)' = Begun(i)
    BY <1>6, <1>8 DEF Begun, Returned, IsData
  <1>11. \A j \in Calls \ {i} : Begun(j)' = Begun(j)
    BY <1>6, <1>7 DEF Begun
  <1>12. ASSUME NEW j \in Calls
         PROVE  Begun(j)' >= Begun(j)
    <2>1. Begun(j)' = Begun(j)
      BY <1>10, <1>11
    <2>2. Begun(j) \in Nat
      BY <1>t, BegunType
    <2> QED
      BY <2>1, <2>2
  <1> QED
    BY <1>4, <1>5, <1>6, <1>9, <1>12, QuietTally

\* The command of an attempt goes out on a connection that carries nothing.
LEMMA TransmitTally ==
    ASSUME Tallied, Inductive', NEW i \in Calls, Transmit(i)
    PROVE  Tallied'
  <1>t. Inductive /\ TypeOK /\ TypeOK' /\ LockHeld /\ OneRequest /\ AttemptsLeft
    BY DEF Tallied, Inductive
  <1>p. /\ pc \in [Calls -> {"new"} \cup Waiting \cup Returned]
        /\ budget \in [Calls -> Nat] /\ attempt \in Nat /\ hits \in [Calls -> Nat]
    BY <1>t DEF TypeOK
  <1>0. /\ pc[i] = "attempt" /\ pc'[i] = "await" /\ conn # NoConn
        /\ \A j \in Calls \ {i} : pc'[j] = pc[j]
        /\ UNCHANGED <<mu, attempt, op, budget, hits>>
    BY <1>p DEF Transmit, history
  <1>1. /\ mu = i /\ IsData(op[i]) /\ conn \in Conns
        /\ \A j \in Calls : pc[j] \notin {"registering", "await"}
    BY <1>t, <1>0, Holder DEF Busy, TypeOK
  <1>2. PICK q \in Request : q = [call |-> i, cmd |-> "send", sess |-> built[i]]
    BY <1>t DEF Request, TypeOK
  <1>3. link' = Written(conn, q) /\ q.call = i
    BY <1>2 DEF Transmit
  <1>4. \A k \in Conns : link'[k].req = IF k = conn /\ link[k].st = "up"
                                        THEN Append(link[k].req, q) ELSE link[k].req
    BY <1>1, <1>3, <1>t, WrittenFields DEF TypeOK
  <1>5. link[conn].req = <<>>
    BY <1>0, <1>1, <1>t, IdleConnection
  <1>6. link'[conn].req = IF link[conn].st = "up" THEN <<q>> ELSE <<>>
    BY <1>1, <1>4, <1>5, OneAppended
  <1>7. /\ Len(link'[conn].req) <= 1
        /\ \A n \in DOMAIN link'[conn].req : link'[conn].req[n].call = i
    BY <1>3, <1>6, Empty, OneAppended
  <1>8. OneRequest'
    <2> SUFFICES ASSUME NEW j \in Conns PROVE Len(link'[j].req) <= 1
      BY DEF OneRequest
    <2>1. CASE j = conn
      BY <1>7, <2>1
    <2>2. CASE j # conn
      BY <1>t, <1>4, <2>2 DEF OneRequest
    <2> QED
      BY <2>1, <2>2
  <1>9. AttemptsLeft'
    BY <1>t, <1>0 DEF AttemptsLeft
  <1>10. Copies(i)' \subseteq Copies(i) \cup {conn}
    BY <1>4 DEF Copies
  <1>11. \A j \in Calls \ {i} : Copies(j)' \subseteq Copies(j)
    BY <1>4, <1>7 DEF Copies
  <1>12. Begun(i) = attempt /\ Begun(i)' = attempt + 1
    BY <1>0, <1>1 DEF Begun, Returned
  <1>13. \A j \in Calls \ {i} : Begun(j)' = Begun(j)
    BY <1>0 DEF Begun
  <1> SUFFICES ASSUME NEW j \in Calls
               PROVE  IsFiniteSet(Copies(j)') /\ hits'[j] + Cardinality(Copies(j)') <= Begun(j)'
    BY <1>8, <1>9 DEF Tallied, Counted
  <1>14. /\ IsFiniteSet(Copies(j)) /\ Cardinality(Copies(j)) \in Nat
         /\ hits[j] + Cardinality(Copies(j)) <= Begun(j)
    BY FS_CardinalityType DEF Tallied, Counted
  <1>15. CASE j = i
    <2>1. /\ IsFiniteSet(Copies(i) \cup {conn})
          /\ Cardinality(Copies(i) \cup {conn}) <= Cardinality(Copies(i)) + 1
      <3>1. IsFiniteSet(Copies(i)) /\ Cardinality(Copies(i)) \in Nat
        BY <1>14, <1>15
      <3>2. /\ IsFiniteSet(Copies(i) \cup {conn})
            /\ \/ Cardinality(Copies(i) \cup {conn}) = Cardinality(Copies(i))
               \/ Cardinality(Copies(i) \cup {conn}) = Cardinality(Copies(i)) + 1
        BY <3>1, FS_AddElement
      <3> QED
        BY <3>1, <3>2
    <2>2. IsFiniteSet(Copies(i)') /\ Cardinality(Copies(i)') <= Cardinality(Copies(i) \cup {conn})
      BY <1>10, <2>1, FS_Subset
    <2>3. Cardinality(Copies(i)') \in Nat /\ Cardinality(Copies(i) \cup {conn}) \in Nat
      BY <2>1, <2>2, FS_CardinalityType
    <2> QED
      BY <1>0, <1>p, <1>12, <1>14, <1>15, <2>1, <2>2, <2>3
  <1>16. CASE j # i
    <2>1. IsFiniteSet(Copies(j)') /\ Cardinality(Copies(j)') <= Cardinality(Copies(j))
      BY <1>11, <1>14, <1>16, FS_Subset
    <2>2. Cardinality(Copies(j)') \in Nat
      BY <2>1, FS_CardinalityType
    <2>3. hits[j] \in Nat /\ Begun(j) \in Nat /\ Begun(j)' = Begun(j) /\ hits' = hits
      BY <1>0, <1>p, <1>13, <1>16, <1>t, BegunType
    <2> QED
      BY <1>14, <2>1, <2>2, <2>3
  <1> QED
    BY <1>15, <1>16

\* The device takes the one request of a connection.
LEMMA Taken ==
    ASSUME TypeOK, OneRequest, NEW k \in Conns, link[k].req # <<>>,
           \/ link' = Ignored(k)
           \/ \E r \in Reply : link' = Answered(k, r)
    PROVE  /\ link'[k].req = <<>>
           /\ \A j \in Conns : j # k => link'[j].req = link[j].req
  <1>1. Tail(link[k].req) = <<>>
    BY OnTheWire, Single DEF OneRequest
  <1>t. link \in [Conns -> Links(Request, Reply)]
    BY DEF TypeOK
  <1>2. /\ link'[k].req = Tail(link[k].req)
        /\ \A j \in Conns : j # k => link'[j].req = link[j].req
    <2>1. CASE link' = Ignored(k)
      BY <1>t, <2>1, IgnoredFields
    <2>2. ASSUME NEW r \in Reply, link' = Answered(k, r)
          PROVE  /\ link'[k].req = Tail(link[k].req)
                 /\ \A j \in Conns : j # k => link'[j].req = link[j].req
      BY <1>t, <2>2, AnsweredFields
    <2> QED
      BY <2>1, <2>2
  <1> QED
    BY <1>1, <1>2

\* An execution uses up the command it is of.
LEMMA ExecuteTally ==
    ASSUME Tallied, Inductive', NEW k \in Conns, Execute(k)
    PROVE  Tallied'
  <1>t. Inductive /\ TypeOK /\ TypeOK' /\ Traced /\ OneRequest /\ AttemptsLeft
    BY DEF Tallied, Inductive
  <1>0. link[k].req # <<>> /\ Head(link[k].req).cmd = "send"
    BY DEF Execute
  <1>1. PICK q \in Request : q = Head(link[k].req) /\ q.call \in Calls
    BY <1>t, <1>0, AnswerType
  <1>2. PICK i \in Calls : i = q.call
    BY <1>1
  <1>3. PICK r \in Reply : link' = Answered(k, r)
    BY <1>t, <1>0, ExecuteFacts, AnswerType
  <1>4. /\ link' = Answered(k, r) /\ hits' = [hits EXCEPT ![i] = @ + 1]
        /\ UNCHANGED <<pc, op, mu, attempt, budget>>
    BY <1>1, <1>2, <1>3 DEF Execute, calls
  <1>5. link'[k].req = <<>> /\ \A j \in Conns : j # k => link'[j].req = link[j].req
    BY <1>t, <1>0, <1>4, Taken
  <1>6. OneRequest'
    <2>1. \A j \in Conns : link'[j].req = link[j].req \/ link'[j].req = <<>>
      BY <1>5
    <2> QED
      BY <1>t, <2>1, FewerRequests
  <1>7. AttemptsLeft'
    BY <1>t, <1>4 DEF AttemptsLeft
  <1>8. k \in Copies(i)
    <2>1. 1 \in DOMAIN link[k].req /\ Head(link[k].req) = link[k].req[1]
      BY <1>t, <1>0, OnTheWire, HeadFacts
    <2> QED
      BY <1>0, <1>1, <1>2, <2>1 DEF Copies
  <1>9. \A j \in Calls : Copies(j)' \subseteq Copies(j) \ {k}
    BY <1>5, Empty DEF Copies
  <1>10. \A j \in Calls : Begun(j)' = Begun(j) /\ Begun(j) \in Nat
    BY <1>4, <1>t, BegunType DEF Begun
  <1> SUFFICES ASSUME NEW j \in Calls
               PROVE  IsFiniteSet(Copies(j)') /\ hits'[j] + Cardinality(Copies(j)') <= Begun(j)'
    BY <1>6, <1>7 DEF Tallied, Counted
  <1>11. /\ IsFiniteSet(Copies(j)) /\ Cardinality(Copies(j)) \in Nat
         /\ hits[j] + Cardinality(Copies(j)) <= Begun(j)
    BY FS_CardinalityType DEF Tallied, Counted
  <1>12. hits \in [Calls -> Nat]
    BY <1>t DEF TypeOK
  <1>13. CASE j = i
    <2>1. /\ IsFiniteSet(Copies(i) \ {k})
          /\ Cardinality(Copies(i) \ {k}) = Cardinality(Copies(i)) - 1
      BY <1>8, <1>11, <1>13, FS_RemoveElement
    <2>2. IsFiniteSet(Copies(i)') /\ Cardinality(Copies(i)') <= Cardinality(Copies(i) \ {k})
      BY <1>9, <2>1, FS_Subset
    <2>3. Cardinality(Copies(i)') \in Nat
      BY <2>2, FS_CardinalityType
    <2>4. hits'[i] = hits[i] + 1 /\ hits[i] \in Nat
      BY <1>4, <1>12
    <2>5. Cardinality(Copies(i)') <= Cardinality(Copies(i)) - 1
      BY <2>1, <2>2
    <2> QED
      BY <1>10, <1>11, <1>13, <2>2, <2>3, <2>4, <2>5
  <1>14. CASE j # i
    <2>1. Copies(j)' \subseteq Copies(j)
      BY <1>9
    <2>2. IsFiniteSet(Copies(j)') /\ Cardinality(Copies(j)') <= Cardinality(Copies(j))
      BY <1>11, <2>1, FS_Subset
    <2>3. Cardinality(Copies(j)') \in Nat
      BY <2>2, FS_CardinalityType
    <2>4. hits'[j] = hits[j] /\ hits[j] \in Nat
      BY <1>4, <1>12, <1>14
    <2> QED
      BY <1>10, <1>11, <2>2, <2>3, <2>4
  <1> QED
    BY <1>13, <1>14

\* Whatever else the device or the network does makes no copies.
LEMMA DeviceTally ==
    ASSUME Tallied, Inductive',
           \/ \E k \in Conns : \/ \E h \in Handles \cup {NoHandle} : Register(k, h)
                               \/ Refuse(k) \/ Ignore(k) \/ Sever(k)
           \/ \E n \in Policies : SetRetryPolicy(n)
           \/ UNCHANGED vars
    PROVE  Tallied'
  <1>t. Inductive /\ TypeOK /\ Traced /\ OneRequest /\ AttemptsLeft
    BY DEF Tallied, Inductive
  <1>1. UNCHANGED <<pc, op, mu, attempt, budget, hits>>
    BY DEF Register, Refuse, Ignore, Sever, SetRetryPolicy, vars, calls, history
  <1>2. \A j \in Conns : link'[j].req = link[j].req \/ link'[j].req = <<>>
    <2>1. ASSUME NEW k \in Conns, NEW h \in Handles \cup {NoHandle}, Register(k, h)
          PROVE  \A j \in Conns : link'[j].req = link[j].req \/ link'[j].req = <<>>
      <3>1. link[k].req # <<>>
        BY <2>1 DEF Register
      <3>2. \E r \in Reply : link' = Answered(k, r)
        BY <1>t, <2>1, <3>1, AnswerType DEF Register
      <3> QED
        BY <1>t, <3>1, <3>2, Taken
    <2>2. ASSUME NEW k \in Conns, Refuse(k)
          PROVE  \A j \in Conns : link'[j].req = link[j].req \/ link'[j].req = <<>>
      <3>1. link[k].req # <<>> /\ Head(link[k].req).cmd = "send"
        BY <2>2 DEF Refuse
      <3>2. \E r \in Reply : link' = Answered(k, r)
        BY <1>t, <2>2, <3>1, AnswerType DEF Refuse
      <3> QED
        BY <1>t, <3>1, <3>2, Taken
    <2>3. ASSUME NEW k \in Conns, Ignore(k)
          PROVE  \A j \in Conns : link'[j].req = link[j].req \/ link'[j].req = <<>>
      BY <1>t, <2>3, Taken DEF Ignore
    <2>4. ASSUME NEW k \in Conns, Sever(k)
          PROVE  \A j \in Conns : link'[j].req = link[j].req \/ link'[j].req = <<>>
      BY <1>t, <2>4, SeveredFields DEF Sever, TypeOK
    <2>5. (\E n \in Policies : SetRetryPolicy(n)) \/ UNCHANGED vars => link' = link
      BY DEF SetRetryPolicy, vars
    <2> QED
      BY <2>1, <2>2, <2>3, <2>4, <2>5
  <1>3. OneRequest' /\ \A i \in Calls : Copies(i)' \subseteq Copies(i)
    BY <1>t, <1>2, FewerRequests
  <1>4. AttemptsLeft'
    BY <1>t, <1>1 DEF AttemptsLeft
  <1>5. ASSUME NEW i \in Calls
        PROVE  Begun(i)' >= Begun(i)
    <2>1. Begun(i)' = Begun(i)
      BY <1>1 DEF Begun
    <2>2. Begun(i) \in Nat
      BY <1>t, BegunType
    <2> QED
      BY <2>1, <2>2
  <1> QED
    BY <1>1, <1>3, <1>4, <1>5, QuietTally

LEMMA TalliedInvariant == Spec => []Tallied
  <1>1. Init => Tallied
    <2> SUFFICES ASSUME Init PROVE OneRequest /\ AttemptsLeft /\ Counted
      BY InductiveInit DEF Tallied
    <2>1. \A k \in Conns : link[k].req = <<>>
      BY DEF Init, Down
    <2>2. \A i \in Calls : Copies(i) = {} /\ hits[i] = 0 /\ Begun(i) = 0
      BY <2>1, Empty DEF Init, Copies, Begun, Returned
    <2>3. Counted
      BY <2>2, FS_EmptySet DEF Counted
    <2> QED
      BY <2>1, <2>3, Empty DEF Init, OneRequest, AttemptsLeft
  <1>2. Tallied /\ [Next]_vars => Tallied'
    <2> SUFFICES ASSUME Tallied, [Next]_vars PROVE Tallied'
      OBVIOUS
    <2>1. Inductive'
      BY InductiveNext DEF Tallied
    <2> QED
      BY <2>1, ClientTally, DialTally, TransmitTally, ExecuteTally, DeviceTally
      DEF Next, Enter, Progress, Device, Failure
  <1> QED
    BY <1>1, <1>2, PTL DEF Spec

-----------------------------------------------------------------------------
\* A call that had returned without success keeps its reason.
LEMMA ReasonsKept ==
    ASSUME RetryMasksFaults, TypeOK, TypeOK',
           \A j \in Calls :
               pc'[j] \in {"failed", "rejected"} /\ IsData(op'[j]) =>
                   \/ /\ pc[j] = pc'[j] /\ op[j] = op'[j]
                      /\ budget'[j] = budget[j] /\ faults'[j] >= faults[j]
                   \/ faults'[j] > budget'[j]
    PROVE  RetryMasksFaults'
  <1> SUFFICES ASSUME NEW j \in Calls, pc'[j] \in {"failed", "rejected"}, IsData(op'[j])
               PROVE  faults'[j] > budget'[j]
    BY DEF RetryMasksFaults, IsData
  <1>1. CASE /\ pc[j] = pc'[j] /\ op[j] = op'[j]
             /\ budget'[j] = budget[j] /\ faults'[j] >= faults[j]
    <2>1. faults[j] > budget[j]
      BY <1>1 DEF RetryMasksFaults
    <2>2. faults[j] \in Nat /\ faults'[j] \in Nat /\ budget[j] \in Nat
      BY DEF TypeOK
    <2> QED
      BY <1>1, <2>1, <2>2
  <1> QED
    BY <1>1

\* A step off the wire, of a call that does not hold the mutex, or takes it.
LEMMA LocalCharged ==
    ASSUME Tallied, Tallied', FaultsCharged, RetryMasksFaults, NEW i \in Calls,
           \/ \E o \in Ops : Invoke(i, o)
           \/ ReturnLocally(i) \/ Build(i) \/ Acquire(i) \/ OpenFail(i) \/ Close(i)
    PROVE  FaultsCharged' /\ RetryMasksFaults'
  <1>t. Inductive /\ TypeOK /\ TypeOK' /\ LockHeld
    BY DEF Tallied, Inductive
  <1>p. /\ pc \in [Calls -> {"new"} \cup Waiting \cup Returned]
        /\ op \in [Calls -> Ops \cup {NoOp}] /\ mu \in Calls \cup {NoCall}
        /\ faults \in [Calls -> Nat] /\ budget \in [Calls -> Nat]
    BY <1>t DEF TypeOK
  <1>1. CASE \/ \E o \in Ops : Invoke(i, o)
             \/ ReturnLocally(i) \/ Build(i)
    <2>1. /\ pc[i] \in {"new", "build"} /\ pc'[i] \in {"build", "blocked", "rejected"}
          /\ pc'[i] = "rejected" => ~ IsData(op'[i])
          /\ \A j \in Calls \ {i} : pc'[j] = pc[j] /\ op'[j] = op[j]
          /\ UNCHANGED <<link, conn, attempt, budget, faults, mu>>
      BY <1>p, <1>1 DEF Invoke, ReturnLocally, Build, history, IsData
    <2>2. mu # i
      BY <1>t, <2>1 DEF LockHeld, Busy
    <2>3. FaultsCharged'
      BY <1>p, <2>1, <2>2 DEF FaultsCharged, Doomed
    <2>4. RetryMasksFaults'
      BY <1>p, <1>t, <2>1, ReasonsKept
    <2> QED
      BY <2>3, <2>4
  <1>2. CASE Acquire(i)
    <2>1. /\ mu = NoCall /\ mu' = i /\ attempt' = 0 /\ pc'[i] = "attempt"
          /\ faults'[i] = IF conn = NoConn \/ Live THEN 0 ELSE 1
          /\ \A j \in Calls \ {i} :
                pc'[j] = pc[j] /\ budget'[j] = budget[j] /\ faults'[j] = faults[j]
          /\ UNCHANGED <<link, conn, op>>
      BY <1>p, <1>2 DEF Acquire
    <2>2. conn # NoConn => link[conn].rep = <<>>
      BY <1>t, <2>1, NobodyBusy, IdleConnection DEF Busy
    <2>3. conn # NoConn => DOMAIN link[conn].rep = {}
      BY <2>2, Empty
    <2>4. FaultsCharged'
      BY <2>1, <2>3 DEF FaultsCharged, Doomed, Live
    <2>5. RetryMasksFaults'
      BY <1>p, <1>t, <2>1, ReasonsKept
    <2> QED
      BY <2>4, <2>5
  <1>3. CASE OpenFail(i) \/ Close(i)
    <2>1. /\ ~ IsData(op[i]) /\ mu' = NoCall
          /\ \A j \in Calls \ {i} : pc'[j] = pc[j]
          /\ UNCHANGED <<op, budget, faults>>
      BY <1>p, <1>3 DEF OpenFail, OpenFailed, Close, Return, history, IsData
    <2>2. RetryMasksFaults'
      BY <1>p, <1>t, <2>1, ReasonsKept
    <2> QED
      BY <2>1, <2>2 DEF FaultsCharged
  <1> QED
    BY <1>1, <1>2, <1>3

\* A failed attempt has cost a fault: its own, or the one that doomed it.
LEMMA FailureCharged ==
    ASSUME Tallied, Tallied', FaultsCharged, RetryMasksFaults, NEW i \in Calls, Failure(i)
    PROVE  FaultsCharged' /\ RetryMasksFaults'
  <1>t. Inductive /\ TypeOK /\ TypeOK' /\ LockHeld /\ StreamInSync /\ AttemptsLeft
    BY DEF Tallied, Inductive
  <1>p. /\ pc \in [Calls -> {"new"} \cup Waiting \cup Returned]
        /\ faults \in [Calls -> Nat] /\ budget \in [Calls -> Nat] /\ attempt \in Nat
        /\ faults' \in [Calls -> Nat]
    BY <1>t DEF TypeOK
  <1>1. /\ conn' = NoConn /\ mu = i /\ pc[i] \in Busy
        /\ UNCHANGED <<op, budget>>
        /\ \/ /\ mu' = mu /\ pc' = [pc EXCEPT ![i] = "attempt"]
              /\ attempt' = attempt + 1 /\ IsData(op[i]) /\ MoreAttempts(i)
           \/ /\ mu' = NoCall /\ pc' = [pc EXCEPT ![i] = "failed"]
              /\ IsData(op[i]) => ~ MoreAttempts(i)
        /\ faults' = faults \/ faults' = MoreFaults(i)
    BY <1>t, FailureFacts DEF HangsUp
  <1>2. i # NoCall /\ (pc[i] \in {"registering", "await"} => conn \in Conns)
    BY <1>t, <1>1, Holder
  <1>3. \A j \in Calls : faults'[j] >= faults[j]
    <2>1. CASE faults' = faults
      BY <1>p, <2>1
    <2>2. CASE faults' = MoreFaults(i)
      BY <1>t, <2>2, MoreFaultsFacts
    <2> QED
      BY <1>1, <2>1, <2>2
  <1>4. ASSUME IsData(op[i])
        PROVE  faults'[i] >= attempt + 1
    <2>1. faults[i] >= attempt /\ attempt <= budget[i] /\ (Doomed => faults[i] >= attempt + 1)
      BY <1>t, <1>1, <1>2, <1>4 DEF FaultsCharged, AttemptsLeft
    <2>2. CASE faults' = MoreFaults(i)
      BY <1>p, <1>t, <2>1, <2>2, MoreFaultsFacts
    <2>3. CASE faults' # MoreFaults(i)
      <3>1. \/ conn # NoConn /\ ~ Live
            \/ pc[i] = "registering" /\ link[conn].rep # <<>> /\ Head(link[conn].rep).sess = NoHandle
        BY <1>2, <2>3, NoConnAssumption
        DEF Failure, ConnectFail, RegisterFail, TransmitFail, ReceiveFail
      <3>2. CASE conn # NoConn /\ ~ Live
        BY <1>1, <2>1, <2>3, <3>2 DEF Doomed, Live
      <3>3. CASE pc[i] = "registering" /\ link[conn].rep # <<>> /\ Head(link[conn].rep).sess = NoHandle
        <4>1. conn \in Conns /\ conn # NoConn
          BY <1>2, <3>3, NoConnAssumption
        <4>2. /\ 1 \in DOMAIN link[conn].rep /\ Head(link[conn].rep) = link[conn].rep[1]
              /\ link[conn].rep[1] \in Reply
          BY <1>t, <3>3, <4>1, OnTheWire, HeadFacts
        <4>3. PICK r \in Reply : r = link[conn].rep[1]
          BY <4>2
        <4>4. r.cmd \in {"register", "send"}
          BY DEF Reply
        <4>5. mu = r.call /\ pc[r.call] = IF r.cmd = "register" THEN "registering" ELSE "await"
          BY <1>t, <4>1, <4>2, <4>3 DEF StreamInSync, Exchanged
        <4>6. r.cmd = "register" /\ r.sess = NoHandle
          BY <1>1, <3>3, <4>2, <4>3, <4>4, <4>5
        <4> QED
          BY <1>1, <2>1, <2>3, <4>1, <4>2, <4>3, <4>6 DEF Doomed
      <3> QED
        BY <3>1, <3>2, <3>3
    <2> QED
      BY <2>2, <2>3
  <1>5. FaultsCharged'
    BY <1>1, <1>2, <1>4 DEF FaultsCharged, Doomed
  <1>6. ASSUME pc'[i] \in {"failed", "rejected"}, IsData(op[i])
        PROVE  faults'[i] > budget'[i]
    <2>1. ~ (attempt < budget[i]) /\ budget' = budget
      BY <1>p, <1>1, <1>6 DEF MoreAttempts
    <2> QED
      BY <1>p, <1>4, <1>6, <2>1
  <1>7. \A j \in Calls \ {i} : pc'[j] = pc[j]
    BY <1>p, <1>1
  <1>8. RetryMasksFaults'
    BY <1>1, <1>3, <1>6, <1>7, <1>t, ReasonsKept
  <1> QED
    BY <1>5, <1>8

\* Dialling and sending give an attempt no fault, and neither does a reply.
LEMMA WireCharged ==
    ASSUME Tallied, Tallied', FaultsCharged, RetryMasksFaults, NEW i \in Calls,
           \/ Transmit(i) \/ TakeSession(i) \/ TakeReply(i)
           \/ \E k \in Conns : Connect(i, k) \/ Open(i, k)
    PROVE  FaultsCharged' /\ RetryMasksFaults'
  <1>t. Inductive /\ TypeOK /\ TypeOK' /\ LockHeld /\ StreamInSync
    BY DEF Tallied, Inductive
  <1>p. /\ pc \in [Calls -> {"new"} \cup Waiting \cup Returned]
        /\ faults \in [Calls -> Nat] /\ budget \in [Calls -> Nat] /\ attempt \in Nat
        /\ link \in [Conns -> Links(Request, Reply)]
    BY <1>t DEF TypeOK
  <1>0. faults' = faults /\ op' = op /\ budget' = budget
    BY DEF Transmit, TakeSession, TakeReply, Connect, Open, history
  <1>1. ASSUME NEW k \in Conns, Connect(i, k) \/ Open(i, k)
        PROVE  FaultsCharged' /\ RetryMasksFaults'
    <2>1. conn' = k /\ link'[k].st = "up" /\ link'[k].rep = <<>>
      BY <1>t, <1>1, DialFacts
    <2>2. DOMAIN link'[k].rep = {}
      BY <2>1, Empty
    <2>3. /\ pc'[i] = "registering" /\ \A j \in Calls \ {i} : pc'[j] = pc[j]
          /\ attempt' = attempt
          /\ (mu' = mu) \/ (mu' = i /\ ~ IsData(op[i]))
      BY <1>p, <1>1 DEF Connect, Open, IsData
    <2>4. FaultsCharged'
      BY <1>0, <2>1, <2>2, <2>3 DEF FaultsCharged, Doomed
    <2>5. RetryMasksFaults'
      BY <1>p, <1>0, <1>t, <2>3, ReasonsKept
    <2> QED
      BY <2>4, <2>5
  <1>2. CASE Transmit(i)
    <2>1. /\ conn \in Conns /\ conn' = conn /\ UNCHANGED <<mu, attempt>>
          /\ pc'[i] = "await" /\ \A j \in Calls \ {i} : pc'[j] = pc[j]
          /\ link' = Written(conn, [call |-> i, cmd |-> "send", sess |-> built[i]])
      BY <1>p, <1>2, <1>t DEF Transmit, TypeOK
    <2>2. [call |-> i, cmd |-> "send", sess |-> built[i]] \in Request
      BY <1>t DEF Request, TypeOK
    <2>3. link'[conn].st = link[conn].st /\ link'[conn].rep = link[conn].rep
      BY <1>p, <2>1, <2>2, WrittenFields
    <2>4. FaultsCharged'
      BY <1>0, <2>1, <2>3 DEF FaultsCharged, Doomed
    <2>5. RetryMasksFaults'
      BY <1>p, <1>0, <1>t, <2>1, ReasonsKept
    <2> QED
      BY <2>4, <2>5
  <1>3. CASE TakeSession(i) \/ TakeReply(i)
    <2>1. PICK r \in Reply : r = Head(link[conn].rep)
      BY <1>t, <1>3, TakeFacts
    <2>2. /\ conn \in Conns /\ link[conn].rep # <<>> /\ link' = Consumed(conn)
          /\ mu = i /\ conn' = conn
          /\ \/ mu' = mu /\ attempt' = attempt
             \/ mu' = NoCall
          /\ \E s \in {"ok", "attempt", "rejected"} :
                /\ pc' = [pc EXCEPT ![i] = s]
                /\ s = "rejected" => pc[i] = "await" /\ op[i].kind # "write" /\ r.val = NoVal
      BY <1>t, <1>3, <2>1, TakeFacts
    <2>3. /\ 1 \in DOMAIN link[conn].rep /\ link[conn].rep[1] = r
          /\ link[conn].rep \in Seq(Reply) /\ link[conn].req \in Seq(Request)
      BY <1>t, <2>1, <2>2, OnTheWire, HeadFacts
    <2>4. conn # NoConn
      BY <2>2, NoConnAssumption
    <2>5. Tail(link[conn].rep) = <<>>
      BY <1>t, <2>2, <2>3, <2>4, LastMessage DEF StreamInSync
    <2>6. link'[conn].st = link[conn].st /\ link'[conn].rep = <<>>
      BY <1>p, <2>2, <2>5, ConsumedFields
    <2>7. DOMAIN link'[conn].rep = {}
      BY <2>6, Empty
    <2>8. FaultsCharged'
      BY <1>0, <2>2, <2>6, <2>7 DEF FaultsCharged, Doomed
    <2>9. ASSUME pc'[i] \in {"failed", "rejected"}, IsData(op[i])
          PROVE  faults[i] > budget[i]
      <3>1. pc[i] = "await" /\ op[i].kind # "write" /\ r.val = NoVal
        BY <1>p, <2>2, <2>9
      <3>2. op[i].kind = "read" /\ r.cmd \in {"register", "send"}
        BY <2>9, <3>1 DEF Reply, IsData
      <3>3. mu = r.call /\ pc[r.call] = IF r.cmd = "register" THEN "registering" ELSE "await"
        BY <1>t, <2>3, <2>4 DEF StreamInSync, Exchanged
      <3>4. r.cmd = "send"
        BY <2>2, <3>1, <3>2, <3>3
      <3>5. i # NoCall
        BY CallAssumption
      <3> QED
        BY <2>2, <2>3, <2>4, <2>9, <3>1, <3>2, <3>4, <3>5 DEF FaultsCharged
    <2>10. \A j \in Calls \ {i} : pc'[j] = pc[j]
      BY <1>p, <2>2
    <2>11. RetryMasksFaults'
      BY <1>p, <1>0, <1>t, <2>9, <2>10, ReasonsKept
    <2> QED
      BY <2>8, <2>11
  <1> QED
    BY <1>1, <1>2, <1>3

\* What a reply on the client's connection finds there.
LEMMA AnswerCharged ==
    ASSUME Tallied, NEW q, NEW r \in Reply, conn # NoConn, link[conn].req # <<>>,
           q = Head(link[conn].req), link' = Answered(conn, r)
    PROVE  /\ mu = q.call /\ mu \in Calls /\ mu # NoCall
           /\ link[conn].rep = <<>> /\ link'[conn].st = link[conn].st
           /\ \A n \in DOMAIN link'[conn].rep : link'[conn].rep[n] = r
  <1>t. TypeOK /\ StreamInSync /\ conn \in Conns
    BY DEF Tallied, Inductive, TypeOK
  <1>1. /\ 1 \in DOMAIN link[conn].req /\ q = link[conn].req[1] /\ q.call \in Calls
        /\ link[conn].rep \in Seq(Reply) /\ link[conn].req \in Seq(Request)
    BY <1>t, OnTheWire, HeadFacts
  <1>2. mu = q.call
    BY <1>t, <1>1 DEF StreamInSync, Exchanged
  <1>3. link[conn].rep = <<>>
    BY <1>t, <1>1, LastMessage DEF StreamInSync
  <1>4. /\ link'[conn].st = link[conn].st
        /\ link'[conn].rep = IF link[conn].st = "up" THEN <<r>> ELSE <<>>
    <2>1. link \in [Conns -> Links(Request, Reply)]
      BY <1>t DEF TypeOK
    <2>2. /\ link'[conn].st = link[conn].st
          /\ link'[conn].rep = IF link[conn].st = "up" THEN Append(link[conn].rep, r)
                                                       ELSE link[conn].rep
      BY <1>t, <2>1, AnsweredFields
    <2> QED
      BY <1>3, <2>2, OneAppended
  <1>5. \A n \in DOMAIN link'[conn].rep : link'[conn].rep[n] = r
    BY <1>4, Empty, OneAppended
  <1> QED
    BY <1>1, <1>2, <1>3, <1>4, <1>5, CallAssumption

\* The device and the network: what keeps an attempt from succeeding costs a
\* fault in the same step.
LEMMA DeviceCharged ==
    ASSUME Tallied, Tallied', ~ checks, FaultsCharged, RetryMasksFaults,
           NEW k \in Conns, Device(k)
    PROVE  FaultsCharged' /\ RetryMasksFaults'
  <1>t. Inductive /\ TypeOK /\ TypeOK' /\ LockHeld /\ SocketHeld /\ Traced /\ AttemptsLeft
    BY DEF Tallied, Inductive
  <1>p. /\ faults \in [Calls -> Nat] /\ budget \in [Calls -> Nat] /\ attempt \in Nat
        /\ link \in [Conns -> Links(Request, Reply)]
        /\ mu \in Calls \cup {NoCall} /\ conn \in Conns \cup {NoConn}
        /\ faults' \in [Calls -> Nat]
    BY <1>t DEF TypeOK
  <1>0. UNCHANGED <<mu, conn, attempt, pc, op, budget>>
    BY DEF Device, Register, Execute, Refuse, Ignore, Sever, calls
  \* The client's connection, the faults or both stay as they are.
  <1>s. ASSUME faults' = faults,
               conn # NoConn =>
                   /\ link'[conn].st = link[conn].st
                   /\ \/ link'[conn].rep = link[conn].rep
                      \/ \A n \in DOMAIN link'[conn].rep :
                            /\ link'[conn].rep[n].cmd = "register" =>
                                  link'[conn].rep[n].sess # NoHandle
                            /\ link'[conn].rep[n].cmd = "send" /\ op[mu].kind = "read" =>
                                  link'[conn].rep[n].val # NoVal
        PROVE  FaultsCharged' /\ RetryMasksFaults'
    <2>1. RetryMasksFaults'
      BY <1>0, <1>p, <1>s, <1>t, ReasonsKept
    <2>2. Doomed' => Doomed
      BY <1>0, <1>s DEF Doomed
    <2>3. FaultsCharged'
      BY <1>0, <1>s, <2>2 DEF FaultsCharged
    <2> QED
      BY <2>1, <2>3
  \* The call with the mutex is charged.
  <1>c. ASSUME mu # NoCall, \A j \in Calls : faults'[j] >= faults[j] \/ j = mu,
               IsData(op[mu]) =>
                   /\ faults'[mu] >= attempt + 1
                   /\ conn # NoConn => \A n \in DOMAIN link'[conn].rep :
                         link'[conn].rep[n].cmd = "send" /\ op[mu].kind = "read"
                                 /\ link'[conn].rep[n].val = NoVal =>
                             faults'[mu] > budget[mu]
        PROVE  FaultsCharged' /\ RetryMasksFaults'
    <2>1. pc[mu] \in Busy
      BY <1>t, <1>p, <1>c DEF LockHeld
    <2>2. \A j \in Calls : pc[j] \in {"failed", "rejected"} => faults'[j] >= faults[j]
      BY <1>c, <2>1 DEF Busy
    <2>3. RetryMasksFaults'
      BY <1>0, <1>t, <2>2, ReasonsKept
    <2>4. IsData(op[mu]) => faults'[mu] >= attempt
      BY <1>p, <1>c
    <2>5. FaultsCharged'
      BY <1>0, <1>c, <2>4 DEF FaultsCharged
    <2> QED
      BY <2>3, <2>5
  <1>m. ASSUME mu # NoCall, IsData(op[mu])
        PROVE  /\ MoreFaults(mu)[mu] >= attempt + 1
               /\ faults[mu] >= attempt /\ attempt <= budget[mu] /\ mu \in Calls
    <2>1. faults[mu] >= attempt /\ attempt <= budget[mu] /\ mu \in Calls
      BY <1>m, <1>p, <1>t DEF FaultsCharged, AttemptsLeft
    <2> QED
      BY <1>p, <1>t, <2>1, MoreFaultsFacts
  <1>1. ASSUME NEW h \in Handles \cup {NoHandle}, Register(k, h)
        PROVE  FaultsCharged' /\ RetryMasksFaults'
    <2>1. link[k].req # <<>>
      BY <1>1 DEF Register
    <2>2. PICK q \in Request : q = Head(link[k].req)
      BY <1>t, <2>1, AnswerType
    <2>3. PICK r \in Reply : r = [call |-> q.call, cmd |-> "register",
                                  sess |-> h, val |-> NoVal]
      BY <1>t, <2>1, <2>2, AnswerType
    <2>4. /\ link' = Answered(k, r) /\ r.cmd = "register" /\ r.sess = h
          /\ faults' = IF k = conn /\ h = NoHandle THEN MoreFaults(q.call) ELSE faults
      BY <1>1, <2>2, <2>3 DEF Register
    <2>5. CASE k # conn
      <3>1. conn # NoConn => link'[conn].st = link[conn].st /\ link'[conn].rep = link[conn].rep
        BY <1>p, <2>4, <2>5, AnsweredFields
      <3> QED
        BY <1>s, <2>4, <2>5, <3>1
    <2>6. CASE k = conn
      <3>0. conn # NoConn
        BY <2>6, NoConnAssumption
      <3>1. /\ mu = q.call /\ mu \in Calls /\ mu # NoCall
            /\ link'[conn].st = link[conn].st
            /\ \A n \in DOMAIN link'[conn].rep : link'[conn].rep[n] = r
        BY <2>1, <2>2, <2>4, <2>6, <3>0, AnswerCharged
      <3>2. \A n \in DOMAIN link'[conn].rep :
               link'[conn].rep[n].cmd = "register" /\ link'[conn].rep[n].sess = h
        BY <2>4, <3>1
      <3>3. CASE h = NoHandle
        <4>1. faults' = MoreFaults(mu)
          BY <2>4, <2>6, <3>1, <3>3
        <4>2. \A j \in Calls : faults'[j] >= faults[j]
          BY <1>t, <3>1, <4>1, MoreFaultsFacts
        <4> QED
          BY <1>c, <1>m, <3>1, <3>2, <4>1, <4>2
      <3>4. CASE h # NoHandle
        BY <1>s, <2>4, <3>1, <3>2, <3>4
      <3> QED
        BY <3>3, <3>4
    <2> QED
      BY <2>5, <2>6
  <1>2. ASSUME Execute(k) \/ Refuse(k)
        PROVE  FaultsCharged' /\ RetryMasksFaults'
    <2>1. link[k].req # <<>> /\ Head(link[k].req).cmd = "send"
      BY <1>2 DEF Execute, Refuse
    <2>2. PICK q \in Request : q = Head(link[k].req)
      BY <1>t, <2>1, AnswerType
    <2>3. PICK v \in Vals \cup {InitVal, StatusVal, NoVal} :
             /\ link' = Answered(k, CommandReply(q, v))
             /\ \/ faults' = faults /\ (op[q.call].kind = "read" => v # NoVal)
                \/ faults' = IF k = conn /\ Admits(k, q)
                             THEN [faults EXCEPT ![q.call] = budget[q.call] + 1]
                             ELSE faults
      <3>1. CASE Execute(k)
        BY <1>t, <2>2, <3>1, ExecuteFacts DEF Execute
      <3>2. CASE Refuse(k)
        BY <2>2, <3>2 DEF Refuse
      <3> QED
        BY <1>2, <3>1, <3>2
    <2>4. PICK r \in Reply : r = CommandReply(q, v)
      BY <1>t, <2>1, <2>2, AnswerType
    <2>5. link' = Answered(k, r) /\ r.cmd = "send" /\ r.val = v
      BY <2>3, <2>4 DEF CommandReply
    <2>6. CASE k # conn
      <3>1. conn # NoConn => link'[conn].st = link[conn].st /\ link'[conn].rep = link[conn].rep
        BY <1>p, <2>5, <2>6, AnsweredFields
      <3> QED
        BY <1>s, <2>3, <2>6, <3>1
    <2>7. CASE k = conn
      <3>0. conn # NoConn
        BY <2>7, NoConnAssumption
      <3>1. /\ mu = q.call /\ mu \in Calls /\ mu # NoCall
            /\ link'[conn].st = link[conn].st
            /\ \A n \in DOMAIN link'[conn].rep : link'[conn].rep[n] = r
        BY <2>1, <2>2, <2>5, <2>7, <3>0, AnswerCharged
      <3>2. CASE faults' # faults \/ ~ (op[q.call].kind = "read" => v # NoVal)
        <4>1. faults' = [faults EXCEPT ![mu] = budget[mu] + 1]
          BY <2>3, <2>7, <3>1, <3>2 DEF Admits
        <4>2. faults'[mu] = budget[mu] + 1 /\ \A j \in Calls \ {mu} : faults'[j] = faults[j]
          BY <1>p, <3>1, <4>1
        <4>3. IsData(op[mu]) => faults'[mu] >= attempt + 1 /\ faults'[mu] > budget[mu]
          BY <1>m, <1>p, <3>1, <4>2
        <4>4. \A j \in Calls : faults'[j] >= faults[j] \/ j = mu
          BY <1>p, <4>2
        <4> QED
          BY <1>c, <3>1, <4>3, <4>4
      <3>3. CASE faults' = faults /\ (op[q.call].kind = "read" => v # NoVal)
        BY <1>s, <2>3, <2>5, <3>1, <3>3
      <3> QED
        BY <3>2, <3>3
    <2> QED
      BY <2>6, <2>7
  <1>3. CASE Ignore(k)
    <2>1. \A j \in Conns : link'[j].st = link[j].st /\ link'[j].rep = link[j].rep
      BY <1>p, <1>3, IgnoredFields DEF Ignore
    <2> QED
      BY <1>p, <1>s, <1>3, <2>1 DEF Ignore, history
  <1>4. CASE Sever(k)
    <2>1. /\ k = conn /\ conn # NoConn
          /\ faults' = IF mu # NoCall THEN MoreFaults(mu) ELSE faults
      BY <1>t, <1>4, NoConnAssumption DEF Sever, SocketHeld
    <2>2. link'[conn].rep = link[conn].rep
      BY <1>p, <1>4, <2>1, SeveredFields DEF Sever
    <2>3. CASE mu = NoCall
      BY <1>0, <1>p, <1>t, <2>1, <2>3, ReasonsKept DEF FaultsCharged
    <2>4. CASE mu # NoCall
      <3>1. faults' = MoreFaults(mu) /\ mu \in Calls
        BY <1>p, <2>1, <2>4
      <3>2. \A j \in Calls : faults'[j] >= faults[j]
        BY <1>t, <3>1, MoreFaultsFacts
      <3>3. ASSUME IsData(op[mu]), NEW n \in DOMAIN link'[conn].rep,
                   link'[conn].rep[n].cmd = "send", op[mu].kind = "read",
                   link'[conn].rep[n].val = NoVal
            PROVE  faults'[mu] > budget[mu]
        <4>1. faults[mu] > budget[mu]
          BY <2>1, <2>2, <2>4, <3>3 DEF FaultsCharged
        <4>2. faults'[mu] >= faults[mu]
          BY <3>1, <3>2
        <4> QED
          BY <1>p, <3>1, <4>1, <4>2
      <3> QED
        BY <1>c, <1>m, <2>4, <3>1, <3>2, <3>3
    <2> QED
      BY <2>3, <2>4
  <1> QED
    BY <1>1, <1>2, <1>3, <1>4 DEF Device

LEMMA ChargedInvariant == Spec => [](Tallied /\ Charged)
  <1>1. Init => Charged
    BY DEF Init, Charged, FaultsCharged, RetryMasksFaults
  <1>2. Tallied /\ Tallied' /\ Charged /\ [Next]_vars => Charged'
    <2> SUFFICES ASSUME Tallied, Tallied', Charged, [Next]_vars, ~ checks'
                 PROVE  FaultsCharged' /\ RetryMasksFaults'
      BY DEF Charged
    <2>1. checks' = checks
      BY DEF Next, Enter, Progress, Device, Invoke, ReturnLocally, Build, Acquire, Open, OpenFail,
             Close, Connect, ConnectFail, TakeSession, RegisterFail, Transmit, TransmitFail,
             TakeReply, ReceiveFail, SetRetryPolicy, Register, Execute, Refuse, Ignore, Sever,
             device, vars
    <2>2. FaultsCharged /\ RetryMasksFaults /\ ~ checks
      BY <2>1 DEF Charged
    <2>3. CASE (\E n \in Policies : SetRetryPolicy(n)) \/ UNCHANGED vars
      <3>1. UNCHANGED <<link, conn, mu, attempt, pc, op, budget, faults>>
        BY <2>3 DEF SetRetryPolicy, vars, calls, history
      <3> QED
        BY <2>2, <3>1 DEF FaultsCharged, Doomed, RetryMasksFaults
    <2> QED
      BY <2>2, <2>3, LocalCharged, FailureCharged, WireCharged, DeviceCharged
      DEF Next, Enter, Progress, Failure
  <1> QED
    BY <1>1, <1>2, TalliedInvariant, PTL DEF Spec

\* The device executes a call no more often than the policy allows, commands on
\* connections that were given up included, and on a device that ignores
\* handles a call fails only when it met more faults than sendCommand was
\* allowed retries.
THEOREM PolicyKept == Spec => []RetriesAsAllowed
  <1>1. ASSUME Tallied
        PROVE  AttemptsBounded
    <2> SUFFICES ASSUME NEW i \in Calls, IsData(op[i])
                 PROVE  hits[i] + Cardinality(Copies(i)) <= budget[i] + 1
      BY DEF AttemptsBounded
    <2>t. Inductive /\ TypeOK /\ LockHeld /\ AttemptsLeft
      BY <1>1 DEF Tallied, Inductive
    <2>1. hits[i] + Cardinality(Copies(i)) <= Begun(i) /\ Cardinality(Copies(i)) \in Nat
      BY <1>1, FS_CardinalityType DEF Tallied, Counted
    <2>2. hits[i] \in Nat /\ budget[i] \in Nat /\ attempt \in Nat
      BY <2>t DEF TypeOK
    <2>3. pc[i] \in Busy => attempt <= budget[i]
      BY <2>t, Holder DEF AttemptsLeft
    <2>4. Begun(i) \in Nat /\ Begun(i) <= budget[i] + 1
      BY <2>2, <2>3 DEF Begun, Busy, Returned
    <2> QED
      BY <2>1, <2>2, <2>4
  <1>2. Tallied /\ Charged => RetriesAsAllowed
    BY <1>1 DEF Charged, RetriesAsAllowed
  <1> QED
    BY <1>2, ChargedInvariant, PTL

=============================================================================
