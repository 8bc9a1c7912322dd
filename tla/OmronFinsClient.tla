-------------------------- MODULE OmronFinsClient --------------------------
(***************************************************************************)
(* The Omron FINS/TCP client: an OmronFinsClient shared by goroutines, and *)
(* the device at the other end.  A new connection begins with a handshake, *)
(* in which the device names its node; the client keeps the number in da1, *)
(* which commands carry as their destination and SetRouting also assigns.  *)
(*                                                                         *)
(* A command is put together, da1 included, before sendCommand takes the   *)
(* mutex and before it connects, and all attempts send the same bytes.     *)
(* da1 is read there without the mutex; the read is a step of its own, so  *)
(* it sees any value the field takes.  sa1 and unitAddress are bytes that  *)
(* no device of this model looks at.                                       *)
(***************************************************************************)
EXTENDS Wire

CONSTANTS
    Calls,         \* Method calls, each made by a goroutine of its own.
    NoCall,        \* The mutex is free.
    Addrs,         \* Memory blocks of the device.
    NoAddr,        \* The address of a call that has none.
    Vals,          \* What callers write.
    InitVal,       \* What every block holds at first.
    NoVal,         \* The value of a call that carries none.
    Node,          \* The node of the device.
    InitNode,      \* The da1 of the constructor, 1.
    Routes,        \* The da1 callers hand to SetRouting.
    Devices,       \* The devices there may be: TRUE serves only commands
                   \* for its own node, FALSE any.
    Policies,      \* The MaxRetries callers hand to SetRetryPolicy.
    InitRetries    \* The MaxRetries of the constructor, 2.

ASSUME CallAssumption == NoCall \notin Calls
ASSUME DeviceAssumption == Devices \subseteq BOOLEAN
ASSUME PolicyAssumption == Policies \subseteq Int /\ InitRetries \in Nat

VARIABLES
    checks,       \* Which of Devices it is.
    store,        \* The device's memory.
    greeted,      \* greeted[k]: the device has seen the handshake of k.
    mu,           \* The holder of OmronFinsClient.mu.
    conn,         \* OmronFinsClient.conn
    da1,          \* OmronFinsClient.da1
    maxRetries,   \* OmronFinsClient.retry.MaxRetries
    attempt,      \* sendCommand's loop variable, of the holder of mu.
    call          \* Each call: where it is (pc), what it was asked (op), the
                  \* node in its command, the value it read, and sendCommand's
                  \* copy of the policy (budget).

\* History, read by no action of the program: what the device reported to the
\* call, how often it executed a command of it, and the faults the call met.
VARIABLES seen, hits, faults

history == <<seen, hits, faults>>
device  == <<checks, store, greeted>>
fields  == <<mu, conn, da1, maxRetries, attempt>>
vars    == <<link, device, fields, call, history>>

Ops ==
    [kind : {"read"}, addr : Addrs, val : {NoVal}]
        \cup [kind : {"write"}, addr : Addrs, val : Vals]
        \cup [kind : {"open", "close", "invalid"}, addr : {NoAddr}, val : {NoVal}]

NoOp == [kind |-> "none", addr |-> NoAddr, val |-> NoVal]

Waiting  == {"build", "blocked", "greeting", "attempt", "await"}
Returned == {"ok", "failed", "rejected"}

IsData(o) == o.kind \in {"read", "write"}

Nodes == Routes \cup {Node, InitNode}

\* A handshake, or a command with its destination.  The call is there for the
\* device to find the operation and for the properties to follow.
Request == [call : Calls, cmd : {"handshake", "send"}, node : Nodes]

\* "bad": no FINS frame, or one with a status or an end code.  "short": of a
\* handshake, too short to hold a node, of a read, too short for its words.
Reply == [call : Calls, kind : {"normal", "bad", "short"}, val : Vals \cup {InitVal, NoVal}]

-----------------------------------------------------------------------------
Init ==
    /\ link = [k \in Conns |-> Down]
    /\ checks \in Devices
    /\ store = [a \in Addrs |-> InitVal]
    /\ greeted = [k \in Conns |-> FALSE]
    /\ mu = NoCall
    /\ conn = NoConn
    /\ da1 = InitNode
    /\ maxRetries = InitRetries
    /\ attempt = 0
    /\ call = [i \in Calls |-> [pc |-> "new", op |-> NoOp, node |-> InitNode,
                                val |-> NoVal, budget |-> 0]]
    /\ seen = [i \in Calls |-> {}]
    /\ hits = [i \in Calls |-> 0]
    /\ faults = [i \in Calls |-> 0]

\* One more fault for call i, counted up to the first it has no retry for.
MoreFaults(i) ==
    [faults EXCEPT ![i] = IF @ <= call[i].budget THEN @ + 1 ELSE @]

\* The connection of the client is one the device still serves.
Live == conn # NoConn /\ link[conn].st = "up"

\* Call i is at p, and goes on to q.
At(i, p) == call[i].pc = p
Goto(i, q) == call' = [call EXCEPT ![i].pc = q]

-----------------------------------------------------------------------------
\* The public methods up to the mutex.

Invoke(i, o) ==
    /\ At(i, "new")
    /\ call' = [call EXCEPT ![i].op = o,
                            ![i].pc = IF o.kind \in {"open", "close"} THEN "blocked" ELSE "build"]
    /\ UNCHANGED <<link, device, fields, history>>

\* parseOmronAddress, a length or the type of the value stops the call.
ReturnLocally(i) ==
    /\ At(i, "build")
    /\ call[i].op.kind = "invalid"
    /\ Goto(i, "rejected")
    /\ UNCHANGED <<link, device, fields, history>>

\* buildMemoryCommand takes da1 as it is.
Build(i) ==
    /\ At(i, "build")
    /\ IsData(call[i].op)
    /\ call' = [call EXCEPT ![i].node = da1, ![i].pc = "blocked"]
    /\ UNCHANGED <<link, device, fields, history>>

-----------------------------------------------------------------------------
\* sendCommand

\* A connection that the device closed while it was idle looks like any other
\* to the client; inheriting one counts as a fault the call meets.
Acquire(i) ==
    /\ At(i, "blocked")
    /\ IsData(call[i].op)
    /\ mu = NoCall
    /\ mu' = i
    /\ call' = [call EXCEPT ![i].budget = maxRetries, ![i].pc = "attempt"]
    /\ faults' = [faults EXCEPT ![i] = IF conn = NoConn \/ Live THEN 0 ELSE 1]
    /\ UNCHANGED <<link, device, conn, da1, maxRetries, attempt, seen, hits>>

\* Variant: the mutex is not released.
ReturnLocked(i, outcome) ==
    /\ attempt' = 0
    /\ Goto(i, outcome)
    /\ UNCHANGED mu

\* The deferred Unlock and the return of call i.
Return(i, outcome) ==
    /\ mu' = NoCall
    /\ attempt' = 0
    /\ Goto(i, outcome)

\* Variant: the connection of a failed attempt is kept.
KeepConn == UNCHANGED <<link, conn>>

\* closeLocked
CloseLocked ==
    /\ link' = HungUp(conn)
    /\ conn' = NoConn

\* Variant: the loop runs once too seldom.
FewerAttempts(i) == attempt + 1 < call[i].budget

\* The loop of sendCommand goes on.
MoreAttempts(i) == attempt < call[i].budget

\* sendCommand after an error, and Open after one of its handshake: closeLocked,
\* then the pause and the next attempt, or the error.
AttemptFailed(i) ==
    /\ CloseLocked
    /\ IF IsData(call[i].op) /\ MoreAttempts(i)
       THEN /\ attempt' = attempt + 1
            /\ Goto(i, "attempt")
            /\ UNCHANGED mu
       ELSE Return(i, "failed")
    /\ UNCHANGED <<device, da1, maxRetries, seen, hits>>

\* The steps that may fail without an answer, at any time: a dial, a write, a
\* read.  On a connection that the device serves no more it is no new fault.
Fail(i) ==
    /\ call[i].pc \in {"attempt", "greeting", "await"}
    /\ AttemptFailed(i)
    /\ faults' = IF conn = NoConn \/ Live THEN MoreFaults(i) ELSE faults

Handshake(i) == [call |-> i, cmd |-> "handshake", node |-> InitNode]

\* ensureConnLocked up to the write of handshakeLocked.
Connect(i, k) ==
    /\ At(i, "attempt")
    /\ conn = NoConn
    /\ Free(k)
    /\ link' = [link EXCEPT ![k].st = "up", ![k].req = <<Handshake(i)>>]
    /\ greeted' = [greeted EXCEPT ![k] = FALSE]
    /\ conn' = k
    /\ Goto(i, "greeting")
    /\ UNCHANGED <<checks, store, mu, da1, maxRetries, attempt, history>>

\* io.ReadFull has something to read on the connection in use.
Answer == link[conn].rep # <<>>

\* handshakeLocked reads the answer, whatever code it carries; the node is in
\* it unless it is short.  For Open that is the end of the call, and for a
\* command the start of its transmission.
Greeted(i) ==
    /\ At(i, "greeting")
    /\ Answer
    /\ Head(link[conn].rep).kind # "bad"
    /\ link' = Consumed(conn)
    /\ da1' = IF Head(link[conn].rep).kind = "normal" THEN Node ELSE da1
    /\ IF call[i].op.kind = "open"
       THEN Return(i, "ok")
       ELSE Goto(i, "attempt") /\ UNCHANGED <<mu, attempt>>
    /\ UNCHANGED <<device, conn, maxRetries, history>>

Transmit(i) ==
    /\ At(i, "attempt")
    /\ conn # NoConn
    /\ link' = Written(conn, [call |-> i, cmd |-> "send", node |-> call[i].node])
    /\ Goto(i, "await")
    /\ UNCHANGED <<device, fields, history>>

\* An answer that the frame, the status or the end code of gives away.
RefuseReply(i) ==
    /\ call[i].pc \in {"greeting", "await"}
    /\ Answer
    /\ Head(link[conn].rep).kind = "bad"
    /\ AttemptFailed(i)
    /\ UNCHANGED faults

\* The answer of sendCommand.  A read that finds too few words in it is an error
\* without another attempt and with the connection kept.
TakeReply(i) ==
    /\ At(i, "await")
    /\ Answer
    /\ LET r == Head(link[conn].rep) IN
          /\ r.kind # "bad"
          /\ LET fits == r.kind = "normal" \/ call[i].op.kind = "write" IN
                call' = [call EXCEPT ![i].pc  = IF fits THEN "ok" ELSE "rejected",
                                     ![i].val = IF fits THEN r.val ELSE @]
    /\ mu' = NoCall
    /\ attempt' = 0
    /\ link' = Consumed(conn)
    /\ UNCHANGED <<device, conn, da1, maxRetries, history>>

-----------------------------------------------------------------------------
\* Open, Close and the setters.

\* Variant: Open does not close the connection before.
OldKept == link

\* Open closes the connection before it dials.
OldClosed == HungUp(conn)

\* Open up to the write of its handshake, which ends as for a command.
Open(i, k) ==
    /\ At(i, "blocked")
    /\ call[i].op.kind = "open"
    /\ mu = NoCall
    /\ Free(k)
    /\ link' = [OldClosed EXCEPT ![k].st = "up", ![k].req = <<Handshake(i)>>]
    /\ greeted' = [greeted EXCEPT ![k] = FALSE]
    /\ conn' = k
    /\ mu' = i
    /\ Goto(i, "greeting")
    /\ UNCHANGED <<checks, store, da1, maxRetries, attempt, history>>

\* Open whose dial fails, and Close; an error of the socket's Close is reported
\* and the socket forgotten.
CloseOrFail(i) ==
    /\ At(i, "blocked")
    /\ mu = NoCall
    /\ CloseLocked
    /\ \/ call[i].op.kind = "open" /\ Goto(i, "failed")
       \/ call[i].op.kind = "close" /\ Goto(i, "ok")
       \/ call[i].op.kind = "close" /\ conn # NoConn /\ Goto(i, "failed")
    /\ UNCHANGED <<device, mu, da1, maxRetries, attempt, history>>

\* Variant: a negative MaxRetries is kept.
NormalizeNothing(n) == n

\* core.RetryPolicy.Normalize
Normalize(n) == IF n < 0 THEN 0 ELSE n

SetRetryPolicy(n) ==
    /\ mu = NoCall
    /\ maxRetries' = Normalize(n)
    /\ UNCHANGED <<link, device, mu, conn, da1, attempt, call, history>>

SetRouting(n) ==
    /\ mu = NoCall
    /\ da1' = n
    /\ UNCHANGED <<link, device, mu, conn, maxRetries, attempt, call, history>>

-----------------------------------------------------------------------------
\* The device and the network.

\* The device answers the handshake of k.
Greet(k, kind) ==
    /\ link[k].req # <<>>
    /\ LET q == Head(link[k].req) IN
          /\ q.cmd = "handshake"
          /\ link' = Answered(k, [call |-> q.call, kind |-> kind, val |-> NoVal])
          /\ faults' = IF k = conn /\ kind = "bad" THEN MoreFaults(q.call) ELSE faults
    /\ greeted' = [greeted EXCEPT ![k] = TRUE]
    /\ UNCHANGED <<checks, store, fields, call, seen, hits>>

\* The command q is for this device, or the device does not mind.
Admits(q) == checks => q.node = Node

\* The device executes the command at the head of k; the answer may be damaged.
Execute(k, kind) ==
    /\ link[k].req # <<>>
    /\ LET q == Head(link[k].req)  o == call[Head(link[k].req).call].op IN
          /\ q.cmd = "send"
          /\ Admits(q)
          /\ link' = Answered(k,
                [call |-> q.call, kind |-> kind,
                 val |-> IF kind = "normal" /\ o.kind = "read" THEN store[o.addr] ELSE NoVal])
          /\ hits' = [hits EXCEPT ![q.call] = @ + 1]
          /\ store' = IF o.kind = "write" THEN [store EXCEPT ![o.addr] = o.val] ELSE store
          /\ seen' = IF o.kind = "read"
                     THEN [seen EXCEPT ![q.call] = @ \cup {store[o.addr]}] ELSE seen
          /\ faults' = IF k = conn /\ kind = "bad" THEN MoreFaults(q.call) ELSE faults
    /\ UNCHANGED <<checks, greeted, fields, call>>

\* The device answers the command at the head of k with an end code: for a
\* reason of its own, or because of the node, which is none of its faults.
Refuse(k) ==
    /\ link[k].req # <<>>
    /\ LET q == Head(link[k].req) IN
          /\ q.cmd = "send"
          /\ link' = Answered(k, [call |-> q.call, kind |-> "bad", val |-> NoVal])
          /\ faults' = IF k = conn /\ Admits(q) THEN MoreFaults(q.call) ELSE faults
    /\ UNCHANGED <<device, fields, call, seen, hits>>

\* The device never answers the first request of k.
Ignore(k) ==
    /\ link[k].req # <<>>
    /\ link' = Ignored(k)
    /\ UNCHANGED <<device, fields, call, history>>

\* The device, or the network, ends the client's connection.
Sever(k) ==
    /\ link[k].st = "up"
    /\ link' = Severed(k)
    /\ faults' = IF mu # NoCall THEN MoreFaults(mu) ELSE faults
    /\ UNCHANGED <<device, fields, call, seen, hits>>

-----------------------------------------------------------------------------
Progress(i) ==
    \/ \E k \in Conns : Connect(i, k)
    \/ Greeted(i)
    \/ Transmit(i)
    \/ TakeReply(i)
    \/ RefuseReply(i)
    \/ Fail(i)

Enter(i) ==
    \/ ReturnLocally(i)
    \/ Build(i)
    \/ Acquire(i)
    \/ \E k \in Conns : Open(i, k)
    \/ CloseOrFail(i)

Device(k) ==
    \/ \E kind \in {"normal", "bad", "short"} : Greet(k, kind) \/ Execute(k, kind)
    \/ Refuse(k)
    \/ Ignore(k)
    \/ Sever(k)

Next ==
    \/ \E i \in Calls : (\E o \in Ops : Invoke(i, o)) \/ Enter(i) \/ Progress(i)
    \/ \E n \in Policies : SetRetryPolicy(n)
    \/ \E n \in Routes : SetRouting(n)
    \/ \E k \in Conns : Device(k)

Spec == Init /\ [][Next]_vars

\* As for the Modbus client: every dial, write and read has a timeout, and the
\* mutex goes to a goroutine that keeps waiting for it.
Fairness == \A i \in Calls : WF_vars(Progress(i)) /\ SF_vars(Enter(i))

FairSpec == Spec /\ Fairness

-----------------------------------------------------------------------------
TypeOK ==
    /\ link \in [Conns -> Links(Request, Reply)]
    /\ checks \in Devices
    /\ store \in [Addrs -> Vals \cup {InitVal}]
    /\ greeted \in [Conns -> BOOLEAN]
    /\ mu \in Calls \cup {NoCall}
    /\ conn \in Conns \cup {NoConn}
    /\ da1 \in Nodes
    /\ maxRetries \in Nat
    /\ attempt \in Nat
    /\ call \in [Calls -> [pc : {"new"} \cup Waiting \cup Returned, op : Ops \cup {NoOp},
                           node : Nodes, val : Vals \cup {InitVal, NoVal}, budget : Nat]]
    /\ seen \in [Calls -> SUBSET (Vals \cup {InitVal})]
    /\ hits \in [Calls -> Nat]
    /\ faults \in [Calls -> Nat]

\* No socket leaks, and the connection in use carries at most one message, of
\* the exchange of the call that holds the mutex, a command only once the
\* device has seen the handshake: the client checks neither the SID nor the
\* command of a reply.
ConnectionInStep ==
    /\ \A k \in Conns : link[k].st # "down" => k = conn
    /\ conn # NoConn =>
          /\ Len(link[conn].req) + Len(link[conn].rep) <= 1
          /\ \A n \in DOMAIN link[conn].req :
                /\ link[conn].req[n].call = mu
                /\ link[conn].req[n].cmd = "send" => greeted[conn]
          /\ \A n \in DOMAIN link[conn].rep : link[conn].rep[n].call = mu

\* The commands of call i the device may still execute.
Copies(i) ==
    {k \in Conns : \E n \in DOMAIN link[k].req :
        link[k].req[n].call = i /\ link[k].req[n].cmd = "send"}

\* Retry and reconnect hide faults, as doc/api/README.md and the parity matrix
\* say, but for the stale node: a command fails only after more faults than
\* its retries, or when a device that checks nodes got one for another node.
RetryMasksFaultsUnlessStale ==
    \A i \in Calls :
        At(i, "failed") /\ IsData(call[i].op) =>
            faults[i] > call[i].budget \/ (checks /\ call[i].node # Node)

\* A call of OmronFinsClient as a call of the service.
Status(i) ==
    CASE At(i, "new") -> "new"
      [] call[i].pc \in Waiting -> "pending"
      [] At(i, "ok") -> "ok"
      [] OTHER -> "failed"

Service == INSTANCE DataService WITH
    op       <- [i \in Calls |-> call[i].op],
    status   <- [i \in Calls |-> Status(i)],
    val      <- [i \in Calls |-> call[i].val],
    inFlight <- [i \in Calls |-> Cardinality(Copies(i))]

\* Handshakes, routing and reconnections included, the client implements the
\* service: reads return what the device reported to that call, and a write
\* that succeeds was executed.
ImplementsService == Service!Spec

\* Every call returns, however the device behaves and whoever else calls.
EveryCallReturns ==
    \A i \in Calls : call[i].pc \in Waiting ~> call[i].pc \in Returned

=============================================================================
