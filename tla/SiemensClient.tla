--------------------------- MODULE SiemensClient ---------------------------
(***************************************************************************)
(* The Siemens S7 client: a SiemensClient shared by goroutines over the    *)
(* library gos7, which has the connection.  The client creates a handler   *)
(* and a gos7.Client per connection, closes and replaces them, and repeats *)
(* a transfer that fails.                                                  *)
(*                                                                         *)
(* A transfer (AGReadDB, AGWriteDB...) may take several exchanges; one     *)
(* that fails in the middle leaves its part of the buffer, which all       *)
(* attempts of a read share.  Of gos7 nothing else is assumed: handler and *)
(* client are one with their connection, an idle connection may be closed  *)
(* without a word, and a Connect that fails holds nothing.                 *)
(***************************************************************************)
EXTENDS Wire

CONSTANTS
    Calls,         \* Method calls, each made by a goroutine of its own.
    NoCall,        \* The mutex is free.
    Areas,         \* Areas of the device that calls transfer.
    NoArea,        \* The area of a call that has none.
    Parts,         \* How many exchanges a transfer takes.
    Vals,          \* What callers write.
    InitVal,       \* What every part of every area holds at first.
    NoVal,         \* No value.
    Policies,      \* The MaxRetries callers hand to SetRetryPolicy.
    InitRetries    \* The MaxRetries of the constructor, 2.

ASSUME CallAssumption == NoCall \notin Calls
ASSUME PartAssumption == Parts \in Nat \ {0}
ASSUME ValueAssumption == NoVal \notin Vals \cup {InitVal}
ASSUME PolicyAssumption == Policies \subseteq Int /\ InitRetries \in Nat

VARIABLES
    store,        \* The device's memory, by area and part.
    mu,           \* The holder of SiemensClient.mu.
    conn,         \* The connection of SiemensClient.handler and .client.
    connected,    \* SiemensClient.connected
    maxRetries,   \* SiemensClient.retry.MaxRetries
    attempt,      \* withRetry's loop variable, of the holder of mu.
    call          \* Each call: where it is (pc), what it was asked (op), the
                  \* part it transfers, its buffer, and withRetry's budget.

\* History, read by no action of the program: what the device did for each
\* part in the attempt going on, and the faults the call met.
VARIABLES served, faults

fields == <<mu, conn, connected, maxRetries, attempt>>
vars   == <<link, store, fields, call, served, faults>>

Ops ==
    [kind : {"read"}, area : Areas, val : {NoVal}]
        \cup [kind : {"write"}, area : Areas, val : Vals]
        \cup [kind : {"open", "close", "invalid"}, area : {NoArea}, val : {NoVal}]

NoOp == [kind |-> "none", area |-> NoArea, val |-> NoVal]

Waiting  == {"blocked", "attempt", "await"}
Returned == {"ok", "failed", "rejected"}

IsData(o) == o.kind \in {"read", "write"}

Nothing == [p \in 1 .. Parts |-> NoVal]

-----------------------------------------------------------------------------
Init ==
    /\ link = [k \in Conns |-> Down]
    /\ store = [a \in Areas |-> [p \in 1 .. Parts |-> InitVal]]
    /\ mu = NoCall
    /\ conn = NoConn
    /\ connected = FALSE
    /\ maxRetries = InitRetries
    /\ attempt = 0
    /\ call = [i \in Calls |-> [pc |-> "new", op |-> NoOp, part |-> 1,
                                buf |-> Nothing, budget |-> 0]]
    /\ served = [i \in Calls |-> Nothing]
    /\ faults = [i \in Calls |-> 0]

\* One more fault for call i, counted up to the first it has no retry for.
MoreFaults(i) ==
    [faults EXCEPT ![i] = IF @ <= call[i].budget THEN @ + 1 ELSE @]

\* The connection of the client is one the device still serves.
Live == conn # NoConn /\ link[conn].st = "up"

\* Call i is at p, and goes on to q.
At(i, p) == call[i].pc = p
Goto(i, q) == call' = [call EXCEPT ![i].pc = q]

Invoke(i, o) ==
    /\ At(i, "new")
    /\ call' = [call EXCEPT ![i].op = o, ![i].pc = "blocked"]
    /\ UNCHANGED <<link, store, fields, served, faults>>

\* parseSiemensAddress, a length or the type of the value stops the call.
ReturnLocally(i) ==
    /\ At(i, "blocked")
    /\ call[i].op.kind = "invalid"
    /\ Goto(i, "rejected")
    /\ UNCHANGED <<link, store, fields, served, faults>>

-----------------------------------------------------------------------------
\* withRetry

\* A connection that ended while it was idle still counts as connected;
\* inheriting one is a fault the call meets.
Acquire(i) ==
    /\ At(i, "blocked")
    /\ IsData(call[i].op)
    /\ mu = NoCall
    /\ mu' = i
    /\ call' = [call EXCEPT ![i].budget = maxRetries, ![i].pc = "attempt"]
    /\ faults' = [faults EXCEPT ![i] = IF conn = NoConn \/ Live THEN 0 ELSE 1]
    /\ UNCHANGED <<link, store, conn, connected, maxRetries, attempt, served>>

\* Variant: the mutex is not released.
ReturnLocked(i, outcome) ==
    /\ attempt' = 0
    /\ Goto(i, outcome)
    /\ UNCHANGED mu

\* The deferred Unlock and the return of call i.
Return(i, outcome) ==
    /\ mu' = NoCall
    /\ attempt' = 0
    /\ Goto(i, outcome)

\* closeLocked, and the same lines in Close.
CloseLocked ==
    /\ link' = HungUp(conn)
    /\ conn' = NoConn
    /\ connected' = FALSE

\* Variant: the loop runs once too seldom.
FewerAttempts(i) == attempt + 1 < call[i].budget

\* The loop of withRetry goes on.
MoreAttempts(i) == attempt < call[i].budget

\* Variant: a repeated transfer goes on where the last attempt failed.
FailedPart(i) == call[i].part

\* A repeated transfer begins again.
FirstPart(i) == 1

\* openLocked or the transfer returned an error: closeLocked, then the pause
\* and the next attempt, or the error.
AttemptFailed(i) ==
    /\ CloseLocked
    /\ IF MoreAttempts(i)
       THEN /\ attempt' = attempt + 1
            /\ call' = [call EXCEPT ![i].pc = "attempt", ![i].part = FirstPart(i)]
            /\ UNCHANGED mu
       ELSE Return(i, "failed")
    /\ served' = [served EXCEPT ![i] = Nothing]
    /\ UNCHANGED <<store, maxRetries>>

\* The steps that may fail without an answer, at any time: Connect, and an
\* exchange of the transfer.  On a dead connection it is no new fault.
Fail(i) ==
    /\ call[i].pc \in {"attempt", "await"}
    /\ AttemptFailed(i)
    /\ faults' = IF conn = NoConn \/ Live THEN MoreFaults(i) ELSE faults

\* ensureConnectedLocked has nothing to do.
Ready == connected /\ conn # NoConn

\* openLocked: closeLocked, a new handler, its Connect.
OpenLocked(k) ==
    /\ Free(k)
    /\ link' = [HungUp(conn) EXCEPT ![k].st = "up"]
    /\ conn' = k
    /\ connected' = TRUE

Connect(i, k) ==
    /\ At(i, "attempt")
    /\ ~ Ready
    /\ OpenLocked(k)
    /\ UNCHANGED <<store, mu, maxRetries, attempt, call, served, faults>>

\* The next exchange of the transfer.
Transmit(i) ==
    /\ At(i, "attempt")
    /\ Ready
    /\ link' = Written(conn, [call |-> i, part |-> call[i].part])
    /\ Goto(i, "await")
    /\ UNCHANGED <<store, fields, served, faults>>

\* Its answer; after the last the transfer is done, and a read has its buffer.
TakeReply(i) ==
    /\ At(i, "await")
    /\ link[conn].rep # <<>>
    /\ LET r == Head(link[conn].rep)  p == call[i].part IN
          /\ r.kind = "normal"
          /\ call' = [call EXCEPT ![i].buf[p] = r.val,
                                  ![i].part = IF p = Parts THEN p ELSE p + 1,
                                  ![i].pc = IF p = Parts THEN "ok" ELSE "attempt"]
          /\ mu' = IF p = Parts THEN NoCall ELSE mu
          /\ attempt' = IF p = Parts THEN 0 ELSE attempt
    /\ link' = Consumed(conn)
    /\ UNCHANGED <<store, conn, connected, maxRetries, served, faults>>

\* An answer that gos7 makes an error of.
RefuseReply(i) ==
    /\ At(i, "await")
    /\ link[conn].rep # <<>>
    /\ Head(link[conn].rep).kind = "error"
    /\ AttemptFailed(i)
    /\ UNCHANGED faults

-----------------------------------------------------------------------------
\* Open, Close and SetRetryPolicy: one critical section each.

Open(i, k) ==
    /\ At(i, "blocked")
    /\ call[i].op.kind = "open"
    /\ mu = NoCall
    /\ OpenLocked(k)
    /\ Goto(i, "ok")
    /\ UNCHANGED <<store, mu, maxRetries, attempt, served, faults>>

\* Open whose Connect fails, and Close, whose error is that of the handler.
CloseOrFail(i) ==
    /\ At(i, "blocked")
    /\ mu = NoCall
    /\ \/ call[i].op.kind = "open" /\ Goto(i, "failed")
       \/ call[i].op.kind = "close" /\ Goto(i, "ok")
       \/ call[i].op.kind = "close" /\ conn # NoConn /\ Goto(i, "failed")
    /\ CloseLocked
    /\ UNCHANGED <<store, mu, maxRetries, attempt, served, faults>>

\* core.RetryPolicy.Normalize
Normalize(n) == IF n < 0 THEN 0 ELSE n

SetRetryPolicy(n) ==
    /\ mu = NoCall
    /\ maxRetries' = Normalize(n)
    /\ UNCHANGED <<link, store, mu, conn, connected, attempt, call, served, faults>>

-----------------------------------------------------------------------------
\* The device and the network.

\* The device serves the request at the head of k.
Execute(k) ==
    /\ link[k].req # <<>>
    /\ LET q == Head(link[k].req)
           o == call[q.call].op
           v == IF o.kind = "read" THEN store[o.area][q.part] ELSE o.val
       IN  /\ link' = Answered(k, [kind |-> "normal", val |-> v])
           /\ store' = [store EXCEPT ![o.area][q.part] = v]
           /\ served' = IF k = conn THEN [served EXCEPT ![q.call][q.part] = v] ELSE served
    /\ UNCHANGED <<fields, call, faults>>

\* The device answers it with an error.
Refuse(k) ==
    /\ link[k].req # <<>>
    /\ link' = Answered(k, [kind |-> "error", val |-> NoVal])
    /\ faults' = IF k = conn THEN MoreFaults(Head(link[k].req).call) ELSE faults
    /\ UNCHANGED <<store, fields, call, served>>

\* The device never answers it.
Ignore(k) ==
    /\ link[k].req # <<>>
    /\ link' = Ignored(k)
    /\ UNCHANGED <<store, fields, call, served, faults>>

\* The device, the network or gos7's idle timer ends the connection.
Sever(k) ==
    /\ link[k].st = "up"
    /\ link' = Severed(k)
    /\ faults' = IF mu # NoCall THEN MoreFaults(mu) ELSE faults
    /\ UNCHANGED <<store, fields, call, served>>

-----------------------------------------------------------------------------
Progress(i) ==
    \/ \E k \in Conns : Connect(i, k)
    \/ Transmit(i)
    \/ TakeReply(i)
    \/ RefuseReply(i)
    \/ Fail(i)

Enter(i) ==
    \/ ReturnLocally(i)
    \/ Acquire(i)
    \/ \E k \in Conns : Open(i, k)
    \/ CloseOrFail(i)

Device(k) == Execute(k) \/ Refuse(k) \/ Ignore(k) \/ Sever(k)

Next ==
    \/ \E i \in Calls : (\E o \in Ops : Invoke(i, o)) \/ Enter(i) \/ Progress(i)
    \/ \E n \in Policies : SetRetryPolicy(n)
    \/ \E k \in Conns : Device(k)

Spec == Init /\ [][Next]_vars

\* Connect and every exchange have a timeout, and the mutex goes to a goroutine
\* that keeps waiting for it.
Fairness == \A i \in Calls : WF_vars(Progress(i)) /\ SF_vars(Enter(i))

FairSpec == Spec /\ Fairness

-----------------------------------------------------------------------------
\* A transfer that succeeds was served whole by its last attempt: the buffer of
\* a read holds nothing of an attempt that failed before, and every part of a
\* write was executed after the last failure.
TransferOfOneAttempt ==
    \A i \in Calls : At(i, "ok") =>
        CASE call[i].op.kind = "read"  -> NoVal \notin {served[i][p] : p \in 1 .. Parts}
                                             /\ call[i].buf = served[i]
          [] call[i].op.kind = "write" -> \A p \in 1 .. Parts : served[i][p] = call[i].op.val
          [] OTHER                     -> TRUE

\* Retry and reconnect hide faults, as doc/api/README.md says, connections that
\* end while connected is still set included: a call fails only after more
\* faults than the retries it was allowed.
RetryMasksFaults ==
    \A i \in Calls :
        At(i, "failed") /\ IsData(call[i].op) => faults[i] > call[i].budget

\* The device may still serve the request that is awaited.
Asking == conn # NoConn /\ link[conn].req # <<>>

\* The connections on which the device may still serve a request for part p of
\* call i, other than the one in use.
GivenUp(i, p) ==
    {k \in Conns \ {conn} :
        \E n \in DOMAIN link[k].req : link[k].req[n] = [call |-> i, part |-> p]}

\* How the service sees call i, and what it returned.
Status(i) ==
    CASE At(i, "new")              -> "new"
      [] call[i].pc \in Waiting    -> "pending"
      [] At(i, "ok")               -> "ok"
      [] OTHER                     -> "failed"

Result(i) == IF At(i, "ok") /\ call[i].op.kind = "read" THEN call[i].buf ELSE Nothing

Service == INSTANCE TransferService WITH
    op     <- [i \in Calls |-> call[i].op],
    status <- [i \in Calls |-> Status(i)],
    val    <- [i \in Calls |-> Result(i)],
    turn   <- mu,
    asked  <- Asking,
    got    <- served,
    stray  <- [i \in Calls |-> [p \in 1 .. Parts |-> Cardinality(GivenUp(i, p))]]

\* Connections that end, errors, retries and reopened handlers included, client
\* and device are the service: between the parts of a transfer that succeeds
\* the device serves no other transfer, only what attempts that were given up
\* had asked for, each request at most once.
ImplementsService == Service!Spec

\* Every call returns, however the device behaves and whoever else calls.
EveryCallReturns ==
    \A i \in Calls : call[i].pc \in Waiting ~> call[i].pc \in Returned

=============================================================================
