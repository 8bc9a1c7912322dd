---------------------------- MODULE ModbusClient ----------------------------
(***************************************************************************)
(* The Modbus client over TCP and RTU-over-TCP: one modbusClient shared by *)
(* goroutines, and the device at the other end of its connection.          *)
(*                                                                         *)
(* A member of Calls is one goroutine making one method call.  Reads and   *)
(* writes of registers run sendPDU, which holds the mutex through all its  *)
(* attempts, the pauses between them included.  The steps of sendPDU that  *)
(* the network or the device can come between are actions of their own;    *)
(* Open, Close and the setters are one critical section each.              *)
(*                                                                         *)
(* Deadlines are abstract: a dial, a write or a read may fail at any time. *)
(* What the code can tell about a frame is its kind, see Reply; the frames *)
(* themselves are left out.  autoClose is never set in the code, so the    *)
(* close after a success that it would cause does not appear.              *)
(***************************************************************************)
EXTENDS Wire

CONSTANTS
    Calls,        \* Method calls, each made by a goroutine of its own.
    NoCall,       \* The mutex is free.
    Addrs,        \* Register blocks of the device (coils count as such).
    NoAddr,       \* The address of a call that has none.
    Vals,         \* What callers write.
    InitVal,      \* What every block holds at first.
    NoVal,        \* The value of a call that carries none.
    Mode,         \* The wire mode of the client.
    TransMod,     \* Transaction identifiers are taken modulo this, 2^16.
    Policies,     \* The MaxRetries callers hand to SetRetryPolicy.
    InitRetries   \* The MaxRetries of the constructors, 2.

ASSUME CallAssumption == NoCall \notin Calls
ASSUME ModeAssumption == Mode \in {"modeTCP", "modeRTUOverTCP", "modeRTU", "modeASCII"}
ASSUME TransAssumption == TransMod \in Nat \ {0}
ASSUME PolicyAssumption == Policies \subseteq Int /\ InitRetries \in Nat
ASSUME ValAssumption == NoVal \notin Vals \cup {InitVal}

VARIABLES
    mu,           \* The holder of modbusClient.mu.
    conn,         \* modbusClient.conn.
    transID,      \* modbusClient.transID.
    maxRetries,   \* modbusClient.retry.MaxRetries.
    attempt,      \* sendPDU's loop variable, of the holder of mu.
    pc,           \* Where each call is.
    op,           \* What each call was asked to do.
    val,          \* The value each read returned.
    budget,       \* sendPDU's copy of the policy: its MaxRetries.
    store         \* The device's registers.

\* History, read by no action of the program: the values the device reported
\* when it executed a request of the call, how often it executed one, and how
\* many faults of the network or the device the call met (counted up to the
\* first it has no retry for).
VARIABLES seen, hits, faults

history == <<seen, hits, faults>>
client  == <<mu, conn, transID, maxRetries, attempt>>
calls   == <<pc, op, val, budget>>
vars    == <<link, client, calls, store, history>>

Ops ==
    [kind : {"read"}, addr : Addrs, val : {NoVal}]
        \cup [kind : {"write"}, addr : Addrs, val : Vals]
        \cup [kind : {"open", "close", "invalid", "empty"},
              addr : {NoAddr}, val : {NoVal}]

NoOp == [kind |-> "none", addr |-> NoAddr, val |-> NoVal]

Waiting  == {"blocked", "attempt", "await"}
Returned == {"ok", "failed", "rejected"}

IsData(o) == o.kind \in {"read", "write"}

\* A request names the call it serves so that properties can follow it; only
\* the transaction identifier travels, and only in modeTCP.
Request == [call : Calls, tid : 0 .. TransMod - 1]

\* "exception": the device refused, an exception frame.  "garbled": a frame
\* the client recognises as bad (CRC, unit or transaction id, length).
\* "misfit": a sound frame that is not the answer to the PDU, such as a byte
\* count that does not fit.
ReplyKinds == {"normal", "exception", "garbled", "misfit"}
Reply == [call : Calls, tid : 0 .. TransMod - 1, kind : ReplyKinds,
          val : Vals \cup {InitVal, NoVal}]

-----------------------------------------------------------------------------
Init ==
    /\ link = [k \in Conns |-> Down]
    /\ mu = NoCall
    /\ conn = NoConn
    /\ transID = 0
    /\ maxRetries = InitRetries
    /\ attempt = 0
    /\ pc = [i \in Calls |-> "new"]
    /\ op = [i \in Calls |-> NoOp]
    /\ val = [i \in Calls |-> NoVal]
    /\ budget = [i \in Calls |-> 0]
    /\ store = [a \in Addrs |-> InitVal]
    /\ seen = [i \in Calls |-> {}]
    /\ hits = [i \in Calls |-> 0]
    /\ faults = [i \in Calls |-> 0]

\* One more fault for call i, counted up to the first it has no retry for.
MoreFaults(i) ==
    [faults EXCEPT ![i] = IF @ <= budget[i] THEN @ + 1 ELSE @]

\* The connection of the client is one the device still serves.
Live == conn # NoConn /\ link[conn].st = "up"

-----------------------------------------------------------------------------
\* The public methods up to the mutex.

Invoke(i, o) ==
    /\ pc[i] = "new"
    /\ op' = [op EXCEPT ![i] = o]
    /\ pc' = [pc EXCEPT ![i] = "blocked"]
    /\ UNCHANGED <<link, client, val, budget, store, history>>

\* parseAddress, an unsupported type or more than 123 registers fail a call,
\* and an empty write succeeds, before sendPDU is reached.
ReturnLocally(i) ==
    /\ pc[i] = "blocked"
    /\ \/ /\ op[i].kind = "invalid"
          /\ pc' = [pc EXCEPT ![i] = "rejected"]
       \/ /\ op[i].kind = "empty"
          /\ pc' = [pc EXCEPT ![i] = "ok"]
    /\ UNCHANGED <<link, client, op, val, budget, store, history>>

-----------------------------------------------------------------------------
\* sendPDU

\* A connection that the device closed while it was idle looks like any other
\* to the client; inheriting one counts as a fault the call meets.
Acquire(i) ==
    /\ pc[i] = "blocked"
    /\ IsData(op[i])
    /\ mu = NoCall
    /\ mu' = i
    /\ attempt' = 0
    /\ budget' = [budget EXCEPT ![i] = maxRetries]
    /\ pc' = [pc EXCEPT ![i] = "attempt"]
    /\ faults' = [faults EXCEPT ![i] = IF conn = NoConn \/ Live THEN 0 ELSE 1]
    /\ UNCHANGED <<link, conn, transID, maxRetries, op, val, store, seen, hits>>

\* Variant: the mutex is not released.
ReturnLocked(i, outcome) ==
    /\ attempt' = 0
    /\ pc' = [pc EXCEPT ![i] = outcome]
    /\ UNCHANGED mu

\* The deferred Unlock and the return of call i.
Return(i, outcome) ==
    /\ mu' = NoCall
    /\ attempt' = 0
    /\ pc' = [pc EXCEPT ![i] = outcome]

\* Variant: the connection of a failed attempt is kept.
KeepConn == UNCHANGED <<link, conn>>

\* closeLocked
CloseLocked ==
    /\ link' = HungUp(conn)
    /\ conn' = NoConn

\* Variants: the loop runs once too often, and once too seldom.
MoreAttemptsByOne(i) == attempt <= budget[i]
FewerAttempts(i) == attempt + 1 < budget[i]

\* The loop of sendPDU goes on.
MoreAttempts(i) == attempt < budget[i]

\* sendPDU after sendPDUOnceLocked returned an error: closeLocked, then the
\* pause and the next attempt, or the error.
AttemptFailed(i) ==
    /\ CloseLocked
    /\ IF MoreAttempts(i)
       THEN /\ attempt' = attempt + 1
            /\ pc' = [pc EXCEPT ![i] = "attempt"]
            /\ UNCHANGED mu
       ELSE Return(i, "failed")

Connect(i, k) ==
    /\ pc[i] = "attempt"
    /\ conn = NoConn
    /\ Free(k)
    /\ link' = Dialled(k)
    /\ conn' = k
    /\ UNCHANGED <<mu, transID, maxRetries, attempt, calls, store, history>>

ConnectFail(i) ==
    /\ pc[i] = "attempt"
    /\ conn = NoConn
    /\ AttemptFailed(i)
    /\ faults' = MoreFaults(i)
    /\ UNCHANGED <<transID, maxRetries, op, val, budget, store, seen, hits>>

NextTransID ==
    IF Mode = "modeTCP" THEN (transID + 1) % TransMod ELSE transID

\* Variant: the header carries the identifier of the request before.
OldTransID == transID

\* The identifier in the header of the request.
SentTransID == NextTransID

Transmit(i) ==
    /\ pc[i] = "attempt"
    /\ conn # NoConn
    /\ transID' = NextTransID
    /\ link' = Written(conn, [call |-> i, tid |-> SentTransID])
    /\ pc' = [pc EXCEPT ![i] = "await"]
    /\ UNCHANGED <<mu, conn, maxRetries, attempt, op, val, budget, store, history>>

\* The Write fails, or SetDeadline before the identifier is taken.
TransmitFail(i) ==
    /\ pc[i] = "attempt"
    /\ conn # NoConn
    /\ transID' \in {transID, NextTransID}
    /\ AttemptFailed(i)
    /\ faults' = IF Live THEN MoreFaults(i) ELSE faults
    /\ UNCHANGED <<maxRetries, op, val, budget, store, seen, hits>>

\* What sendTCPFrameLocked and sendRTUFrameLocked accept as the answer.
Accepts(r) == r.tid = transID /\ r.kind \in {"normal", "misfit"}

\* Variant: the function and the length of a reply are not looked at.
FitsAlways(i, r) == TRUE

\* What readRegisters, writeRegisters and writeCoil accept after that: a
\* reply of the right function and length.
Fits(i, r) == r.kind = "normal" /\ op[r.call].kind = op[i].kind

\* The reply is not one to accept: the attempt has failed.
RefuseReply(i) ==
    /\ pc[i] = "await"
    /\ link[conn].rep # <<>>
    /\ ~ Accepts(Head(link[conn].rep))
    /\ AttemptFailed(i)
    /\ UNCHANGED <<transID, maxRetries, op, val, budget, store, history>>

\* sendPDU succeeds; a reply that does not fit is an error of the call all
\* the same, without another attempt and with the connection kept.
TakeReply(i) ==
    /\ pc[i] = "await"
    /\ link[conn].rep # <<>>
    /\ LET r == Head(link[conn].rep) IN
          /\ Accepts(r)
          /\ IF Fits(i, r)
             THEN /\ Return(i, "ok")
                  /\ val' = [val EXCEPT ![i] = r.val]
             ELSE /\ Return(i, "rejected")
                  /\ UNCHANGED val
    /\ link' = Consumed(conn)
    /\ UNCHANGED <<conn, transID, maxRetries, op, budget, store, history>>

\* The deadline passes, or the connection ends under the read.
ReceiveFail(i) ==
    /\ pc[i] = "await"
    /\ AttemptFailed(i)
    /\ faults' = IF Live THEN MoreFaults(i) ELSE faults
    /\ UNCHANGED <<transID, maxRetries, op, val, budget, store, seen, hits>>

-----------------------------------------------------------------------------
\* Open, Close and SetRetryPolicy: one critical section each.

\* Variant: Open does not close the connection before.
OldKept == link

\* Open closes the connection before it dials.
OldClosed == HungUp(conn)

Open(i, k) ==
    /\ pc[i] = "blocked"
    /\ op[i].kind = "open"
    /\ mu = NoCall
    /\ Free(k)
    /\ link' = [OldClosed EXCEPT ![k].st = "up"]
    /\ conn' = k
    /\ pc' = [pc EXCEPT ![i] = "ok"]
    /\ UNCHANGED <<mu, transID, maxRetries, attempt, op, val, budget, store, history>>

\* The old connection is closed before the dial that fails.
OpenFail(i) ==
    /\ pc[i] = "blocked"
    /\ op[i].kind = "open"
    /\ mu = NoCall
    /\ link' = OldClosed
    /\ conn' = NoConn
    /\ pc' = [pc EXCEPT ![i] = "failed"]
    /\ UNCHANGED <<mu, transID, maxRetries, attempt, op, val, budget, store, history>>

\* An error of the socket's Close is reported, and the socket forgotten.
Close(i) ==
    /\ pc[i] = "blocked"
    /\ op[i].kind = "close"
    /\ mu = NoCall
    /\ link' = HungUp(conn)
    /\ conn' = NoConn
    /\ \E outcome \in {"ok", "failed"} :
          /\ outcome = "failed" => conn # NoConn
          /\ pc' = [pc EXCEPT ![i] = outcome]
    /\ UNCHANGED <<mu, transID, maxRetries, attempt, op, val, budget, store, history>>

\* Variant: a negative MaxRetries is kept.
NormalizeNothing(n) == n

\* core.RetryPolicy.Normalize
Normalize(n) == IF n < 0 THEN 0 ELSE n

SetRetryPolicy(n) ==
    /\ mu = NoCall
    /\ maxRetries' = Normalize(n)
    /\ UNCHANGED <<link, mu, conn, transID, attempt, calls, store, history>>

-----------------------------------------------------------------------------
\* The device and the network.

\* The device executes the request q.
Execute(q) ==
    LET o == op[q.call] IN
    /\ hits' = [hits EXCEPT ![q.call] = @ + 1]
    /\ IF o.kind = "write"
       THEN /\ store' = [store EXCEPT ![o.addr] = o.val]
            /\ UNCHANGED seen
       ELSE /\ seen' = [seen EXCEPT ![q.call] = @ \cup {store[o.addr]}]
            /\ UNCHANGED store

ReplyTo(q, kind) ==
    [call |-> q.call, tid |-> q.tid, kind |-> kind,
     val |-> IF kind = "normal" /\ op[q.call].kind = "read"
             THEN store[op[q.call].addr] ELSE NoVal]

\* The device answers the first request of connection k, even of one the
\* client has closed.  An exception leaves the registers alone; a frame may be
\* damaged on its way after the request was executed.
Serve(k, kind) ==
    /\ link[k].req # <<>>
    /\ LET q == Head(link[k].req) IN
          /\ link' = Answered(k, ReplyTo(q, kind))
          /\ IF kind = "exception"
             THEN UNCHANGED <<store, seen, hits>>
             ELSE Execute(q)
          /\ faults' = IF k = conn /\ kind # "normal"
                       THEN MoreFaults(q.call) ELSE faults
    /\ UNCHANGED <<client, calls>>

\* The device never answers the first request of k.
Ignore(k) ==
    /\ link[k].req # <<>>
    /\ link' = Ignored(k)
    /\ UNCHANGED <<client, calls, store, history>>

\* The device, or the network, ends the client's connection.
Sever(k) ==
    /\ link[k].st = "up"
    /\ link' = Severed(k)
    /\ faults' = IF mu # NoCall THEN MoreFaults(mu) ELSE faults
    /\ UNCHANGED <<client, calls, store, seen, hits>>

-----------------------------------------------------------------------------
Progress(i) ==
    \/ \E k \in Conns : Connect(i, k)
    \/ ConnectFail(i)
    \/ Transmit(i)
    \/ TransmitFail(i)
    \/ RefuseReply(i)
    \/ TakeReply(i)
    \/ ReceiveFail(i)

Enter(i) ==
    \/ ReturnLocally(i)
    \/ Acquire(i)
    \/ \E k \in Conns : Open(i, k)
    \/ OpenFail(i)
    \/ Close(i)

Device(k) ==
    \/ \E kind \in ReplyKinds : Serve(k, kind)
    \/ Ignore(k)
    \/ Sever(k)

Next ==
    \/ \E i \in Calls : (\E o \in Ops : Invoke(i, o)) \/ Enter(i) \/ Progress(i)
    \/ \E n \in Policies : SetRetryPolicy(n)
    \/ \E k \in Conns : Device(k)

Spec == Init /\ [][Next]_vars

\* A call that holds the mutex moves on, because every dial, write and read of
\* it has a timeout; a goroutine waiting for a mutex that keeps coming free
\* gets it (the starvation mode of sync.Mutex).  Nothing is asked of the
\* device, nor that anyone calls.
Fairness == \A i \in Calls : WF_vars(Progress(i)) /\ SF_vars(Enter(i))

FairSpec == Spec /\ Fairness

-----------------------------------------------------------------------------
TypeOK ==
    /\ link \in [Conns -> Links(Request, Reply)]
    /\ mu \in Calls \cup {NoCall}
    /\ conn \in Conns \cup {NoConn}
    /\ transID \in 0 .. TransMod - 1
    /\ maxRetries \in Nat
    /\ attempt \in Nat
    /\ pc \in [Calls -> {"new"} \cup Waiting \cup Returned]
    /\ op \in [Calls -> Ops \cup {NoOp}]
    /\ val \in [Calls -> Vals \cup {InitVal, NoVal}]
    /\ budget \in [Calls -> Nat]
    /\ store \in [Addrs -> Vals \cup {InitVal}]
    /\ seen \in [Calls -> SUBSET (Vals \cup {InitVal})]
    /\ hits \in [Calls -> Nat]
    /\ faults \in [Calls -> Nat]

\* No socket leaks: the only connection the client still holds open is the
\* one in its conn field, whatever Open, Close and failed attempts overlap.
OneSocket == \A k \in Conns : link[k].st # "down" => k = conn

\* The connections on which the device may still execute a request of call i.
Copies(i) ==
    {k \in Conns : \E n \in DOMAIN link[k].req : link[k].req[n].call = i}

\* The request or reply m is that of the exchange now going on.
Awaited(m) == mu = m.call /\ pc[m.call] = "await" /\ m.tid = transID

\* Replies cannot be taken for one another: a connection in use carries at
\* most one message, and that belongs to the call that is waiting for it.
\* Without this, modeRTUOverTCP, which has no identifiers, would hand one
\* call the answer to another.
StreamInSync ==
    conn # NoConn =>
        /\ Len(link[conn].req) + Len(link[conn].rep) <= 1
        /\ \A n \in DOMAIN link[conn].req : Awaited(link[conn].req[n])
        /\ \A n \in DOMAIN link[conn].rep : Awaited(link[conn].rep[n])

\* A read that succeeds returns what the device reported for a request of
\* this very call: not the answer to an earlier attempt of somebody else, nor
\* one from before the call.
ReadFresh ==
    \A i \in Calls :
        pc[i] = "ok" /\ op[i].kind = "read" => val[i] \in seen[i]

\* A write that reports success has been executed by the device.
WriteTookEffect ==
    \A i \in Calls : pc[i] = "ok" /\ op[i].kind = "write" => hits[i] >= 1

\* The device executes a call at most once per attempt the policy allows,
\* requests it still holds after the call has returned included.
AttemptsBounded ==
    \A i \in Calls :
        IsData(op[i]) => hits[i] + Cardinality(Copies(i)) <= budget[i] + 1

\* Repetition has a cause: a call that met no fault and succeeded was
\* executed exactly once, and nothing of it is left on the wire.
OnceWithoutFaults ==
    \A i \in Calls :
        pc[i] = "ok" /\ IsData(op[i]) /\ faults[i] = 0 =>
            hits[i] = 1 /\ Copies(i) = {}

\* A call that met no fault leaves nothing behind: the device executes a request
\* of a call that has returned only if some attempt of it was abandoned, so only
\* then can a late write overwrite a newer one.
LateOnlyAfterFault ==
    [][\A i \in Calls :
          pc[i] \in Returned /\ hits'[i] # hits[i] => faults[i] > 0]_vars

\* Retry and reconnect hide faults: a call fails only after more faults than
\* the retries it was allowed, a connection found dead counting as one.
RetryMasksFaults ==
    \A i \in Calls : pc[i] = "failed" /\ IsData(op[i]) => faults[i] > budget[i]

\* The inductive invariant, in parts.

\* The mutex is held by the one call that is inside sendPDU, and a call that
\* waits for a reply has a connection.
LockHeld ==
    /\ \A i \in Calls : pc[i] \in {"attempt", "await"} <=> mu = i
    /\ \A i \in Calls : mu = i => IsData(op[i]) /\ attempt <= budget[i]
    /\ \A i \in Calls : pc[i] = "await" => conn # NoConn

\* The client's connection is open, and a closed one holds no reply.
SocketHeld ==
    /\ conn # NoConn => link[conn].st # "down"
    /\ \A k \in Conns : link[k].st = "down" => link[k].rep = <<>>

\* Whatever is on the wire was sent by a call that had been made, and a normal
\* reply means that the device executed a request of that call.
Traced ==
    \A k \in Conns :
        /\ \A n \in DOMAIN link[k].req :
              LET i == link[k].req[n].call IN pc[i] # "new" /\ IsData(op[i])
        /\ \A n \in DOMAIN link[k].rep :
              LET r == link[k].rep[n] IN
              /\ pc[r.call] # "new"
              /\ r.kind = "normal" =>
                    /\ hits[r.call] >= 1
                    /\ op[r.call].kind = "read" => r.val \in seen[r.call]

\* The attempt under way is bound to fail: its connection is dead, or the
\* reply waiting on it is none to accept.
Doomed ==
    conn # NoConn /\
        \/ link[conn].st = "cut"
        \/ link[conn].rep # <<>> /\ Head(link[conn].rep).kind # "normal"

\* Every failed attempt of the call inside sendPDU, and the one under way if
\* it is doomed, has met a fault.
FaultsCharged ==
    \A i \in Calls : mu = i =>
        faults[i] >= IF Doomed THEN attempt + 1 ELSE attempt

Inductive ==
    /\ TypeOK
    /\ LockHeld
    /\ SocketHeld
    /\ OneSocket
    /\ StreamInSync
    /\ Traced
    /\ FaultsCharged
    /\ ReadFresh
    /\ WriteTookEffect
    /\ RetryMasksFaults

\* A call of ModbusClient as a call of the service.
Status(i) ==
    CASE pc[i] = "new" -> "new"
      [] pc[i] \in Waiting -> "pending"
      [] pc[i] = "ok" -> "ok"
      [] OTHER -> "failed"

Service == INSTANCE DataService WITH
    status   <- [i \in Calls |-> Status(i)],
    inFlight <- [i \in Calls |-> Cardinality(Copies(i))]

\* The client, its connections and its device together implement the service.
ImplementsService == Service!Spec

\* Every call returns, however the device behaves and whoever else calls.
EveryCallReturns ==
    \A i \in Calls : pc[i] \in Waiting ~> pc[i] \in Returned

=============================================================================
