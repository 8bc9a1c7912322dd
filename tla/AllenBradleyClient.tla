------------------------- MODULE AllenBradleyClient -------------------------
(***************************************************************************)
(* The EtherNet/IP client: an AllenBradleyClient shared by goroutines, and *)
(* the device at the other end.  A connection must be registered before it *)
(* carries commands; the device answers the registration with a session    *)
(* handle, which every command repeats in its header.                      *)
(*                                                                         *)
(* A command is built, its session handle included, before sendCommand     *)
(* takes the mutex and before it connects, and all attempts send the same  *)
(* bytes.  c.session is read there without the mutex; the read is a step   *)
(* of its own, so it sees any value the field takes.                       *)
(*                                                                         *)
(* Replies are taken to be well framed, and tags to be read as the type    *)
(* they have.  The client never looks at the status of a reply.  A read    *)
(* only needs the reply to be long enough to hold data, and the extended   *)
(* status words of an error stand where data would.                        *)
(***************************************************************************)
EXTENDS Wire

CONSTANTS
    Calls,         \* Method calls, each made by a goroutine of its own.
    NoCall,        \* The mutex is free.
    Tags,          \* Tags of the device.
    NoTag,         \* The tag of a call that has none.
    Vals,          \* What callers write.
    InitVal,       \* What every tag holds at first.
    StatusVal,     \* What a read makes of the extended status of an error.
    NoVal,         \* The value of a call, or of a reply, that carries none.
    Handles,       \* Session handles the device may give out.
    NoHandle,      \* The handle 0: no session.
    Devices,       \* The devices there may be: TRUE refuses a handle that is
                   \* not registered on the connection, as EtherNet/IP has
                   \* it, FALSE ignores handles.
    Policies,      \* The MaxRetries callers hand to SetRetryPolicy.
    InitRetries    \* The MaxRetries of the constructor, 2.

ASSUME CallAssumption == NoCall \notin Calls
ASSUME HandleAssumption == NoHandle \notin Handles
ASSUME DeviceAssumption == Devices \subseteq BOOLEAN
ASSUME ValAssumption == NoVal \notin Vals \cup {InitVal, StatusVal}
ASSUME PolicyAssumption == Policies \subseteq Int /\ InitRetries \in Nat

VARIABLES
    checks,       \* Which of Devices it is.
    reg,          \* reg[k]: the handle the device registered on connection k.
    mu,           \* The holder of AllenBradleyClient.mu.
    conn,         \* AllenBradleyClient.conn.
    session,      \* AllenBradleyClient.session.
    maxRetries,   \* AllenBradleyClient.retry.MaxRetries.
    attempt,      \* sendCommand's loop variable, of the holder of mu.
    pc,           \* Where each call is.
    op,           \* What each call was asked to do.
    built,        \* The session handle in the command of each call.
    val,          \* The value each read returned.
    budget,       \* sendCommand's copy of the policy: its MaxRetries.
    store         \* The device's tags.

\* History, read by no action of the program: what the device answered the call,
\* values and status words, how often it executed a command of it, and the faults
\* the call met.
VARIABLES seen, hits, faults

history == <<seen, hits, faults>>
calls   == <<pc, op, built, val, budget>>
device  == <<checks, reg, store>>
vars    == <<link, device, mu, conn, session, maxRetries, attempt, calls, history>>

Ops ==
    [kind : {"read"}, tag : Tags, val : {NoVal}]
        \cup [kind : {"write"}, tag : Tags, val : Vals]
        \cup [kind : {"open", "close", "invalid"}, tag : {NoTag}, val : {NoVal}]

NoOp == [kind |-> "none", tag |-> NoTag, val |-> NoVal]

Waiting  == {"build", "blocked", "registering", "attempt", "await"}
Returned == {"ok", "failed", "rejected"}

IsData(o) == o.kind \in {"read", "write"}

\* What the client writes: a registration, or a command with its handle.  The
\* call is there for the properties to follow.
Request == [call : Calls, cmd : {"register", "send"}, sess : Handles \cup {NoHandle}]

\* The reply to a registration carries a handle, 0 if it is refused; that to a
\* command what a read finds in it: a value, the status words of an error that
\* has enough of them, or nothing.
Reply == [call : Calls, cmd : {"register", "send"},
          sess : Handles \cup {NoHandle}, val : Vals \cup {InitVal, StatusVal, NoVal}]

-----------------------------------------------------------------------------
Init ==
    /\ link = [k \in Conns |-> Down]
    /\ checks \in Devices
    /\ reg = [k \in Conns |-> NoHandle]
    /\ mu = NoCall
    /\ conn = NoConn
    /\ session = NoHandle
    /\ maxRetries = InitRetries
    /\ attempt = 0
    /\ pc = [i \in Calls |-> "new"]
    /\ op = [i \in Calls |-> NoOp]
    /\ built = [i \in Calls |-> NoHandle]
    /\ val = [i \in Calls |-> NoVal]
    /\ budget = [i \in Calls |-> 0]
    /\ store = [t \in Tags |-> InitVal]
    /\ seen = [i \in Calls |-> {}]
    /\ hits = [i \in Calls |-> 0]
    /\ faults = [i \in Calls |-> 0]

\* One more fault for call i, counted up to the first it has no retry for.
MoreFaults(i) ==
    [faults EXCEPT ![i] = IF @ <= budget[i] THEN @ + 1 ELSE @]

\* The device forgets the session of a connection of which nothing is left.
Forget == reg' = [k \in Conns |-> IF link'[k] = Down THEN NoHandle ELSE reg[k]]

\* The connection of the client is one the device still serves.
Live == conn # NoConn /\ link[conn].st = "up"

-----------------------------------------------------------------------------
\* The public methods up to the mutex.

Invoke(i, o) ==
    /\ pc[i] = "new"
    /\ op' = [op EXCEPT ![i] = o]
    /\ pc' = [pc EXCEPT ![i] = IF o.kind \in {"open", "close"} THEN "blocked" ELSE "build"]
    /\ UNCHANGED <<link, device, mu, conn, session, maxRetries, attempt,
                   built, val, budget, history>>

\* validateAllenTag or the type of the value stops the call.
ReturnLocally(i) ==
    /\ pc[i] = "build"
    /\ op[i].kind = "invalid"
    /\ pc' = [pc EXCEPT ![i] = "rejected"]
    /\ UNCHANGED <<link, device, mu, conn, session, maxRetries, attempt,
                   op, built, val, budget, history>>

\* buildReadCommand, buildWriteCommand: the header takes c.session as it is.
Build(i) ==
    /\ pc[i] = "build"
    /\ IsData(op[i])
    /\ built' = [built EXCEPT ![i] = session]
    /\ pc' = [pc EXCEPT ![i] = "blocked"]
    /\ UNCHANGED <<link, device, mu, conn, session, maxRetries, attempt,
                   op, val, budget, history>>

-----------------------------------------------------------------------------
\* sendCommand

Acquire(i) ==
    /\ pc[i] = "blocked"
    /\ IsData(op[i])
    /\ mu = NoCall
    /\ mu' = i
    /\ attempt' = 0
    /\ budget' = [budget EXCEPT ![i] = maxRetries]
    /\ pc' = [pc EXCEPT ![i] = "attempt"]
    /\ faults' = [faults EXCEPT ![i] = IF conn = NoConn \/ Live THEN 0 ELSE 1]
    /\ UNCHANGED <<link, device, conn, session, maxRetries, op, built, val, seen, hits>>

\* Variant: the mutex is not released.
ReturnLocked(i, outcome) ==
    /\ attempt' = 0
    /\ pc' = [pc EXCEPT ![i] = outcome]
    /\ UNCHANGED mu

\* The deferred Unlock and the return of call i.
Return(i, outcome) ==
    /\ mu' = NoCall
    /\ attempt' = 0
    /\ pc' = [pc EXCEPT ![i] = outcome]

\* Variant: the connection of a failed attempt is kept.
KeepConn == UNCHANGED <<link, conn, session>>

\* closeLocked, which forgets the session if there is a connection to close.
CloseLocked ==
    /\ link' = HungUp(conn)
    /\ conn' = NoConn
    /\ session' = IF conn = NoConn THEN session ELSE NoHandle

\* Variant: the loop runs once too seldom.
FewerAttempts(i) == attempt + 1 < budget[i]

\* The loop of sendCommand goes on.
MoreAttempts(i) == attempt < budget[i]

\* sendCommand after an error: closeLocked, then the pause and the next attempt,
\* or the error.
AttemptFailed(i) ==
    /\ CloseLocked
    /\ IF MoreAttempts(i)
       THEN /\ attempt' = attempt + 1
            /\ pc' = [pc EXCEPT ![i] = "attempt"]
            /\ UNCHANGED mu
       ELSE Return(i, "failed")

RegisterRequest(i) == [call |-> i, cmd |-> "register", sess |-> NoHandle]

\* ensureConnLocked up to the write of registerSessionLocked.  Nothing of the
\* client can come between the dial and that write, and what the device does
\* between them shows in the reply or its absence.
Connect(i, k) ==
    /\ pc[i] = "attempt"
    /\ conn = NoConn
    /\ Free(k)
    /\ link' = [link EXCEPT ![k] = [@ EXCEPT !.st = "up", !.req = <<RegisterRequest(i)>>]]
    /\ conn' = k
    /\ pc' = [pc EXCEPT ![i] = "registering"]
    /\ UNCHANGED <<device, mu, session, maxRetries, attempt, op, built, val, budget, history>>

ConnectFail(i) ==
    /\ pc[i] = "attempt"
    /\ conn = NoConn
    /\ AttemptFailed(i)
    /\ faults' = MoreFaults(i)
    /\ Forget
    /\ UNCHANGED <<maxRetries, op, built, val, budget, checks, store, seen, hits>>

\* A failed Open closes the connection, but leaves the session field alone.
OpenFailed(i) ==
    /\ link' = HungUp(conn)
    /\ conn' = NoConn
    /\ Return(i, "failed")

\* The end of registerSessionLocked: for Open the end of the call, and for a
\* command the start of its transmission.
Registered(i) ==
    IF op[i].kind = "open"
    THEN Return(i, "ok")
    ELSE /\ pc' = [pc EXCEPT ![i] = "attempt"]
         /\ UNCHANGED <<mu, attempt>>

\* Variant: the handle of a reply is checked, but not kept.
SessionBefore(r) == session

\* What the session field becomes when the reply r to a registration is read.
SessionOf(r) == r.sess

TakeSession(i) ==
    /\ pc[i] = "registering"
    /\ link[conn].rep # <<>>
    /\ Head(link[conn].rep).sess # NoHandle
    /\ link' = Consumed(conn)
    /\ session' = SessionOf(Head(link[conn].rep))
    /\ Registered(i)
    /\ UNCHANGED <<device, conn, maxRetries, op, built, val, budget, history>>

\* No reply in time, a connection that ends, or the handle 0, which the field
\* keeps.
RegisterFail(i) ==
    /\ pc[i] = "registering"
    /\ \/ /\ faults' = IF Live THEN MoreFaults(i) ELSE faults
          /\ op[i].kind = "open" => UNCHANGED session
       \/ /\ link[conn].rep # <<>>
          /\ Head(link[conn].rep).sess = NoHandle
          /\ op[i].kind = "open" => session' = NoHandle
          /\ UNCHANGED faults
    /\ IF op[i].kind = "open" THEN OpenFailed(i) ELSE AttemptFailed(i)
    /\ Forget
    /\ UNCHANGED <<maxRetries, op, built, val, budget, checks, store, seen, hits>>

Transmit(i) ==
    /\ pc[i] = "attempt"
    /\ conn # NoConn
    /\ link' = Written(conn, [call |-> i, cmd |-> "send", sess |-> built[i]])
    /\ pc' = [pc EXCEPT ![i] = "await"]
    /\ UNCHANGED <<device, mu, conn, session, maxRetries, attempt, op, built,
                   val, budget, history>>

TransmitFail(i) ==
    /\ pc[i] = "attempt"
    /\ conn # NoConn
    /\ AttemptFailed(i)
    /\ faults' = IF Live THEN MoreFaults(i) ELSE faults
    /\ Forget
    /\ UNCHANGED <<maxRetries, op, built, val, budget, checks, store, seen, hits>>

\* Any reply ends the attempts.  A write asks nothing more of it; a read takes
\* what stands where its data should, and fails if nothing does.
TakeReply(i) ==
    /\ pc[i] = "await"
    /\ link[conn].rep # <<>>
    /\ LET r == Head(link[conn].rep) IN
          IF op[i].kind = "write" \/ r.val # NoVal
          THEN /\ Return(i, "ok")
               /\ val' = [val EXCEPT ![i] = r.val]
          ELSE /\ Return(i, "rejected")
               /\ UNCHANGED val
    /\ link' = Consumed(conn)
    /\ UNCHANGED <<device, conn, session, maxRetries, op, built, budget, history>>

ReceiveFail(i) ==
    /\ pc[i] = "await"
    /\ AttemptFailed(i)
    /\ faults' = IF Live THEN MoreFaults(i) ELSE faults
    /\ Forget
    /\ UNCHANGED <<maxRetries, op, built, val, budget, checks, store, seen, hits>>

-----------------------------------------------------------------------------
\* Open, Close and SetRetryPolicy

\* Variant: Open does not close the connection before.
OldKept == link

\* Open closes the connection before it dials.
OldClosed == HungUp(conn)

\* Open up to the write of its registration, which ends as for a command.
Open(i, k) ==
    /\ pc[i] = "blocked"
    /\ op[i].kind = "open"
    /\ mu = NoCall
    /\ Free(k)
    /\ link' = [OldClosed EXCEPT ![k].st = "up", ![k].req = <<RegisterRequest(i)>>]
    /\ Forget
    /\ conn' = k
    /\ mu' = i
    /\ pc' = [pc EXCEPT ![i] = "registering"]
    /\ UNCHANGED <<session, maxRetries, attempt, op, built, val, budget, checks, store, history>>

\* The dial of Open fails.
OpenFail(i) ==
    /\ pc[i] = "blocked"
    /\ op[i].kind = "open"
    /\ mu = NoCall
    /\ OpenFailed(i)
    /\ Forget
    /\ UNCHANGED <<session, maxRetries, op, built, val, budget, checks, store, history>>

Close(i) ==
    /\ pc[i] = "blocked"
    /\ op[i].kind = "close"
    /\ mu = NoCall
    /\ link' = HungUp(conn)
    /\ conn' = NoConn
    /\ session' = NoHandle
    /\ \E outcome \in {"ok", "failed"} :
          /\ outcome = "failed" => conn # NoConn
          /\ pc' = [pc EXCEPT ![i] = outcome]
    /\ Forget
    /\ UNCHANGED <<checks, store, mu, maxRetries, attempt, op, built, val, budget, history>>

\* Variant: a negative MaxRetries is kept.
NormalizeNothing(n) == n

\* core.RetryPolicy.Normalize
Normalize(n) == IF n < 0 THEN 0 ELSE n

SetRetryPolicy(n) ==
    /\ mu = NoCall
    /\ maxRetries' = Normalize(n)
    /\ UNCHANGED <<link, device, mu, conn, session, attempt, calls, history>>

-----------------------------------------------------------------------------
\* The device and the network.

\* The device grants the registration at the head of k a handle that no other
\* connection has, or refuses it with the handle 0.
Register(k, h) ==
    /\ link[k].req # <<>>
    /\ Head(link[k].req).cmd = "register"
    /\ h # NoHandle => \A j \in Conns : link[j].st = "up" => reg[j] # h
    /\ LET q == Head(link[k].req) IN
          /\ link' = Answered(k, [call |-> q.call, cmd |-> "register", sess |-> h, val |-> NoVal])
          /\ faults' = IF k = conn /\ h = NoHandle THEN MoreFaults(q.call) ELSE faults
    /\ reg' = [reg EXCEPT ![k] = IF link'[k] = Down THEN NoHandle ELSE h]
    /\ UNCHANGED <<mu, conn, session, maxRetries, attempt, calls, checks, store, seen, hits>>

\* The device knows the handle of the command q on k, or does not look at it.
Admits(k, q) == checks => q.sess = reg[k] /\ reg[k] # NoHandle

CommandReply(q, v) == [call |-> q.call, cmd |-> "send", sess |-> q.sess, val |-> v]

\* The device executes the command at the head of k.
Execute(k) ==
    /\ link[k].req # <<>>
    /\ LET q == Head(link[k].req)  o == op[Head(link[k].req).call] IN
          /\ q.cmd = "send"
          /\ Admits(k, q)
          /\ link' = Answered(k, CommandReply(q, IF o.kind = "read" THEN store[o.tag] ELSE NoVal))
          /\ hits' = [hits EXCEPT ![q.call] = @ + 1]
          /\ \/ /\ o.kind = "write"
                /\ store' = [store EXCEPT ![o.tag] = o.val]
                /\ UNCHANGED seen
             \/ /\ o.kind = "read"
                /\ seen' = [seen EXCEPT ![q.call] = @ \cup {store[o.tag]}]
                /\ UNCHANGED store
    /\ Forget
    /\ UNCHANGED <<checks, mu, conn, session, maxRetries, attempt, calls, faults>>

\* The device answers the command at the head of k with an error, for a reason
\* of its own, which no retry can help, or because it does not know its handle,
\* which is none of its faults.  An error of its own may have status words, which
\* matter while somebody can read them; an unknown handle is answered with a
\* header alone.
Refuse(k) ==
    /\ link[k].req # <<>>
    /\ LET q == Head(link[k].req) IN
          /\ q.cmd = "send"
          /\ \/ /\ link' = Answered(k, CommandReply(q, NoVal))
                /\ UNCHANGED seen
             \/ /\ Admits(k, q)
                /\ op[q.call].kind = "read"
                /\ link[k].st = "up"
                /\ link' = Answered(k, CommandReply(q, StatusVal))
                /\ seen' = [seen EXCEPT ![q.call] = @ \cup {StatusVal}]
          /\ faults' = IF k = conn /\ Admits(k, q)
                       THEN [faults EXCEPT ![q.call] = budget[q.call] + 1]
                       ELSE faults
    /\ Forget
    /\ UNCHANGED <<mu, conn, session, maxRetries, attempt, calls, checks, store, hits>>

\* The device never answers the first request of k.
Ignore(k) ==
    /\ link[k].req # <<>>
    /\ link' = Ignored(k)
    /\ Forget
    /\ UNCHANGED <<mu, conn, session, maxRetries, attempt, calls, checks, store, history>>

\* The device, or the network, ends the client's connection and its session.
Sever(k) ==
    /\ link[k].st = "up"
    /\ link' = Severed(k)
    /\ reg' = [reg EXCEPT ![k] = NoHandle]
    /\ faults' = IF mu # NoCall THEN MoreFaults(mu) ELSE faults
    /\ UNCHANGED <<mu, conn, session, maxRetries, attempt, calls, checks, store, seen, hits>>

-----------------------------------------------------------------------------
Progress(i) ==
    \/ \E k \in Conns : Connect(i, k)
    \/ ConnectFail(i)
    \/ TakeSession(i)
    \/ RegisterFail(i)
    \/ Transmit(i)
    \/ TransmitFail(i)
    \/ TakeReply(i)
    \/ ReceiveFail(i)

Enter(i) ==
    \/ ReturnLocally(i)
    \/ Build(i)
    \/ Acquire(i)
    \/ \E k \in Conns : Open(i, k)
    \/ OpenFail(i)
    \/ Close(i)

Device(k) ==
    \/ \E h \in Handles \cup {NoHandle} : Register(k, h)
    \/ Execute(k)
    \/ Refuse(k)
    \/ Ignore(k)
    \/ Sever(k)

Next ==
    \/ \E i \in Calls : (\E o \in Ops : Invoke(i, o)) \/ Enter(i) \/ Progress(i)
    \/ \E n \in Policies : SetRetryPolicy(n)
    \/ \E k \in Conns : Device(k)

Spec == Init /\ [][Next]_vars

\* As for the Modbus client: every dial, write and read has a timeout, and the
\* mutex goes to a goroutine that keeps waiting for it.
Fairness == \A i \in Calls : WF_vars(Progress(i)) /\ SF_vars(Enter(i))

FairSpec == Spec /\ Fairness

-----------------------------------------------------------------------------
TypeOK ==
    /\ link \in [Conns -> Links(Request, Reply)]
    /\ checks \in Devices
    /\ reg \in [Conns -> Handles \cup {NoHandle}]
    /\ mu \in Calls \cup {NoCall}
    /\ conn \in Conns \cup {NoConn}
    /\ session \in Handles \cup {NoHandle}
    /\ maxRetries \in Nat
    /\ attempt \in Nat
    /\ pc \in [Calls -> {"new"} \cup Waiting \cup Returned]
    /\ op \in [Calls -> Ops \cup {NoOp}]
    /\ built \in [Calls -> Handles \cup {NoHandle}]
    /\ val \in [Calls -> Vals \cup {InitVal, StatusVal, NoVal}]
    /\ budget \in [Calls -> Nat]
    /\ store \in [Tags -> Vals \cup {InitVal}]
    /\ seen \in [Calls -> SUBSET (Vals \cup {InitVal, StatusVal})]
    /\ hits \in [Calls -> Nat]
    /\ faults \in [Calls -> Nat]

\* No socket leaks, whatever Open, Close and failed registrations overlap; a
\* connection in use carries at most one message, of the exchange of the call
\* with the mutex, because the client checks no identifier; and registration
\* comes first: no command is on it before the device registered it.
ConnectionInStep ==
    /\ \A k \in Conns : link[k].st # "down" => k = conn
    /\ conn # NoConn =>
          /\ Len(link[conn].req) + Len(link[conn].rep) <= 1
          /\ \A n \in DOMAIN link[conn].req : link[conn].req[n].call = mu
          /\ \A n \in DOMAIN link[conn].rep : link[conn].rep[n].call = mu
    /\ Live => \A n \in DOMAIN link[conn].req :
                   link[conn].req[n].cmd = "send" => reg[conn] # NoHandle

\* Between calls the session field is the handle of the connection that the
\* client holds, so a command built then would be admitted on it.
SessionOfConnection == mu = NoCall /\ Live => session = reg[conn]

\* A read that succeeds returns what the device answered to that very read: the
\* value of its tag then, or, as the client does not tell them apart, the status
\* words of an error.  Never the answer to another call or to nobody.
ReadFresh ==
    \A i \in Calls :
        pc[i] = "ok" /\ op[i].kind = "read" => val[i] \in seen[i]

\* The requests of call i the device may still execute.
Copies(i) ==
    {k \in Conns : \E n \in DOMAIN link[k].req :
        link[k].req[n].call = i /\ link[k].req[n].cmd = "send"}

\* The device executes a call at most once per attempt the policy allows.
AttemptsBounded ==
    \A i \in Calls :
        IsData(op[i]) => hits[i] + Cardinality(Copies(i)) <= budget[i] + 1

\* Retry and reconnect hide faults, as doc/api/README.md and the parity matrix
\* say: a call ends without success only after more faults than the retries it
\* was allowed, or an error of the device itself.
RetryMasksFaults ==
    \A i \in Calls :
        pc[i] \in {"failed", "rejected"} /\ IsData(op[i]) => faults[i] > budget[i]

\* The policy is kept: never more executions than attempts, and, on a device
\* that ignores the handle of a command, no failure while an attempt is left.
RetriesAsAllowed == AttemptsBounded /\ (~ checks => RetryMasksFaults)

\* An error reply is an error of the call, as doc/api/README.md says of all
\* protocols: what reports success, a read or a write, has been executed by the
\* device.
ErrorsReported ==
    \A i \in Calls : pc[i] = "ok" /\ IsData(op[i]) => hits[i] >= 1

\* Every call returns, however the device behaves and whoever else calls.
EveryCallReturns ==
    \A i \in Calls : pc[i] \in Waiting ~> pc[i] \in Returned

=============================================================================
