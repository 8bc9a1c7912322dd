-------------------------- MODULE MitsubishiClient --------------------------
(***************************************************************************)
(* The MELSEC client, shared by goroutines.  As in the Modbus client one   *)
(* mutex covers a request with all its attempts, but a failed attempt is   *)
(* followed by a reconnection, also when it was the last, and an attempt   *)
(* without a connection dials for itself first.                            *)
(*                                                                         *)
(* SetRoute and SetReadWriteTimeout change what goes into a frame and when *)
(* deadlines pass, both left out.                                          *)
(***************************************************************************)
EXTENDS MelsecMessages

CONSTANTS
    Versions,     \* The versions that a client may be made for.
    Policies,     \* The maxRetries callers hand to SetRetryPolicy.
    InitRetries   \* The maxRetries of the constructor, 2.

ASSUME VersionAssumption == Versions \subseteq {"Qna3E", "A1E"}
ASSUME PolicyAssumption == Policies \subseteq Int /\ InitRetries \in Nat

VARIABLES
    version,      \* MitsubishiClient.version
    mu,           \* The holder of MitsubishiClient.mu, or NoCall.
    conn,         \* MitsubishiClient.conn
    maxRetries,   \* MitsubishiClient.maxRetries
    attempt,      \* sendRequest's loop variable, of the holder of mu.
    pc,           \* Where each call is.
    op,           \* What each call was asked to do.
    val           \* The words each read returned.

\* History: the faults that each call met, and the retries it was allowed.
VARIABLES faults, budget

calls  == <<pc, op, val>>
client == <<version, mu, conn, maxRetries, attempt, calls, faults, budget>>

Op(kind, q) == [kind |-> kind, addr |-> q.addr, count |-> q.count, words |-> q.words]

NoOp == [kind |-> "none", addr |-> 0, count |-> 0, words |-> <<>>]

\* "invalid": an address that is no D register, a length or a type that is
\* not allowed.
Ops ==
    {Op(q.cmd, q) : q \in {r \in Request : r.cmd # "other"}}
        \cup {[NoOp EXCEPT !.kind = k] : k \in {"open", "close", "invalid"}}

Waiting  == {"called", "blocked", "attempt", "await", "reconnecting"}
Returned == {"ok", "failed", "rejected"}

IsData(o) == o.kind \in {"read", "write"}

RequestOf(i) == [call |-> i, cmd |-> op[i].kind, addr |-> op[i].addr,
                 count |-> op[i].count, words |-> op[i].words]

ClientInit ==
    /\ version \in Versions
    /\ mu = NoCall
    /\ conn = NoConn
    /\ maxRetries = InitRetries
    /\ attempt = 0
    /\ pc = [i \in Calls |-> "new"]
    /\ op = [i \in Calls |-> NoOp]
    /\ val = [i \in Calls |-> <<>>]
    /\ faults = [i \in Calls |-> 0]
    /\ budget = [i \in Calls |-> 0]

\* One more fault for call i, counted up to the first it has no retry for.
MoreFaults(i) ==
    [faults EXCEPT ![i] = IF @ <= budget[i] THEN @ + 1 ELSE @]

\* The connection of the client is one the server still serves.
Live == conn # NoConn /\ link[conn].st = "up"

-----------------------------------------------------------------------------
\* The public methods up to the mutex.

Invoke(i, o) ==
    /\ pc[i] = "new"
    /\ op' = [op EXCEPT ![i] = o]
    /\ pc' = [pc EXCEPT ![i] = "called"]
    /\ UNCHANGED <<link, version, mu, conn, maxRetries, attempt, val, faults, budget>>

\* Open of an unsupported version fails, and so do bad arguments; a read of
\* no words returns none.  Reads and writes do not ask for the version.
ReturnLocally(i) ==
    /\ pc[i] = "called"
    /\ \/ /\ op[i].kind = "open" => version # "Qna3E"
          /\ op[i].kind \in {"open", "invalid"}
          /\ pc' = [pc EXCEPT ![i] = "rejected"]
       \/ /\ op[i].kind = "read" /\ op[i].count = 0
          /\ pc' = [pc EXCEPT ![i] = "ok"]
    /\ UNCHANGED <<link, version, mu, conn, maxRetries, attempt, op, val, faults, budget>>

\* The call goes on to the mutex.
Proceed(i) ==
    /\ pc[i] = "called"
    /\ \/ op[i].kind = "open" /\ version = "Qna3E"
       \/ op[i].kind \in {"close", "write"}
       \/ op[i].kind = "read" /\ op[i].count > 0
    /\ pc' = [pc EXCEPT ![i] = "blocked"]
    /\ UNCHANGED <<link, version, mu, conn, maxRetries, attempt, op, val, faults, budget>>

-----------------------------------------------------------------------------
\* sendRequest

\* A connection that was cut while idle counts as a fault the call meets.
Acquire(i) ==
    /\ pc[i] = "blocked"
    /\ IsData(op[i])
    /\ mu = NoCall
    /\ mu' = i
    /\ attempt' = 0
    /\ pc' = [pc EXCEPT ![i] = "attempt"]
    /\ budget' = [budget EXCEPT ![i] = maxRetries]
    /\ faults' = [faults EXCEPT ![i] = IF conn = NoConn \/ Live THEN 0 ELSE 1]
    /\ UNCHANGED <<link, version, conn, maxRetries, op, val>>

\* Variant: the mutex is not released.
ReturnLocked(i, outcome) ==
    /\ attempt' = 0
    /\ pc' = [pc EXCEPT ![i] = outcome]
    /\ UNCHANGED mu

\* The deferred Unlock and the return of call i.
Return(i, outcome) ==
    /\ mu' = NoCall
    /\ attempt' = 0
    /\ pc' = [pc EXCEPT ![i] = outcome]

\* Variant: the connection of a failed attempt is kept.
KeepConn == UNCHANGED <<link, conn>>

\* reconnectLocked closes before it dials.
DropConn ==
    /\ link' = HungUp(conn)
    /\ conn' = NoConn

\* sendRequestOnceLocked returned an error.
AttemptFailed(i) ==
    /\ DropConn
    /\ pc' = [pc EXCEPT ![i] = "reconnecting"]

\* The attempt has no connection: reconnectLocked.
Connect(i, k) ==
    /\ pc[i] = "attempt"
    /\ conn = NoConn
    /\ Free(k)
    /\ link' = Dialled(k)
    /\ conn' = k
    /\ UNCHANGED <<version, mu, maxRetries, attempt, calls, faults, budget>>

ConnectFail(i) ==
    /\ pc[i] = "attempt"
    /\ conn = NoConn
    /\ AttemptFailed(i)
    /\ faults' = MoreFaults(i)
    /\ UNCHANGED <<version, mu, maxRetries, attempt, op, val, budget>>

Transmit(i) ==
    /\ pc[i] = "attempt"
    /\ conn # NoConn
    /\ link' = Written(conn, RequestOf(i))
    /\ pc' = [pc EXCEPT ![i] = "await"]
    /\ UNCHANGED <<version, mu, conn, maxRetries, attempt, op, val, faults, budget>>

TransmitFail(i) ==
    /\ pc[i] = "attempt"
    /\ conn # NoConn
    /\ AttemptFailed(i)
    /\ faults' = IF Live THEN MoreFaults(i) ELSE faults
    /\ UNCHANGED <<version, mu, maxRetries, attempt, op, val, budget>>

\* Variant: the end code is not looked at, and the length not checked.
TakeReplyAnyEnd(i) ==
    /\ pc[i] = "await"
    /\ link[conn].rep # <<>>
    /\ Return(i, "ok")
    /\ val' = [val EXCEPT ![i] = Head(link[conn].rep).words]
    /\ link' = Consumed(conn)
    /\ UNCHANGED <<version, conn, maxRetries, op, faults, budget>>

\* End code 0: sendRequest is done, and a read checks the length.
TakeReply(i) ==
    /\ pc[i] = "await"
    /\ link[conn].rep # <<>>
    /\ LET r == Head(link[conn].rep)
           wanted == IF op[i].kind = "read" THEN op[i].count ELSE 0
       IN /\ r.end = "zero"
          /\ IF Len(r.words) < wanted
             THEN /\ Return(i, "rejected")
                  /\ UNCHANGED val
             ELSE /\ Return(i, "ok")
                  /\ val' = [val EXCEPT ![i] = SubSeq(r.words, 1, wanted)]
    /\ link' = Consumed(conn)
    /\ UNCHANGED <<version, conn, maxRetries, op, faults, budget>>

\* Another end code is an error of the attempt.
RefuseReply(i) ==
    /\ pc[i] = "await"
    /\ link[conn].rep # <<>>
    /\ Head(link[conn].rep).end = "error"
    /\ AttemptFailed(i)
    /\ UNCHANGED <<version, mu, maxRetries, attempt, op, val, faults, budget>>

\* The deadline passes, or the connection ends under the read.
ReceiveFail(i) ==
    /\ pc[i] = "await"
    /\ AttemptFailed(i)
    /\ faults' = IF Live THEN MoreFaults(i) ELSE faults
    /\ UNCHANGED <<version, mu, maxRetries, attempt, op, val, budget>>

\* Variant: the loop runs once too often.
MoreAttemptsByOne == attempt <= maxRetries

\* The loop of sendRequest goes on.
MoreAttempts == attempt < maxRetries

NextAttempt(i) ==
    IF MoreAttempts
    THEN /\ attempt' = attempt + 1
         /\ pc' = [pc EXCEPT ![i] = "attempt"]
         /\ UNCHANGED mu
    ELSE Return(i, "failed")

\* The rest of reconnectLocked after a failed attempt.  A dial that fails is
\* no error of its own: the next attempt dials again.
Redial(i, k) ==
    /\ pc[i] = "reconnecting"
    /\ Free(k)
    /\ link' = Dialled(k)
    /\ conn' = k
    /\ NextAttempt(i)
    /\ UNCHANGED <<version, maxRetries, op, val, faults, budget>>

RedialFail(i) ==
    /\ pc[i] = "reconnecting"
    /\ NextAttempt(i)
    /\ UNCHANGED <<link, version, conn, maxRetries, op, val, faults, budget>>

-----------------------------------------------------------------------------
\* Open, Close and SetRetryPolicy: one critical section each.

\* Variant: Open does not close the connection before.
OldKept == link

\* Open closes the connection before it dials.
OldClosed == HungUp(conn)

Open(i, k) ==
    /\ pc[i] = "blocked"
    /\ op[i].kind = "open"
    /\ mu = NoCall
    /\ Free(k)
    /\ link' = [OldClosed EXCEPT ![k].st = "up"]
    /\ conn' = k
    /\ pc' = [pc EXCEPT ![i] = "ok"]
    /\ UNCHANGED <<version, mu, maxRetries, attempt, op, val, faults, budget>>

OpenFail(i) ==
    /\ pc[i] = "blocked"
    /\ op[i].kind = "open"
    /\ mu = NoCall
    /\ link' = HungUp(conn)
    /\ conn' = NoConn
    /\ pc' = [pc EXCEPT ![i] = "failed"]
    /\ UNCHANGED <<version, mu, maxRetries, attempt, op, val, faults, budget>>

Close(i) ==
    /\ pc[i] = "blocked"
    /\ op[i].kind = "close"
    /\ mu = NoCall
    /\ link' = HungUp(conn)
    /\ conn' = NoConn
    /\ \E outcome \in {"ok", "failed"} :
          /\ outcome = "failed" => conn # NoConn
          /\ pc' = [pc EXCEPT ![i] = outcome]
    /\ UNCHANGED <<version, mu, maxRetries, attempt, op, val, faults, budget>>

\* Variant: a negative maxRetries is kept.
AsIs(n) == n

NotNegative(n) == IF n < 0 THEN 0 ELSE n

SetRetryPolicy(n) ==
    /\ mu = NoCall
    /\ maxRetries' = NotNegative(n)
    /\ UNCHANGED <<link, version, mu, conn, attempt, calls, faults, budget>>

-----------------------------------------------------------------------------
\* The dials, which the other end has to take, and everything else.

Dials(k) == \E i \in Calls : Connect(i, k) \/ Redial(i, k) \/ Open(i, k)

Progress(i) ==
    \/ ConnectFail(i)
    \/ Transmit(i)
    \/ TransmitFail(i)
    \/ TakeReply(i)
    \/ RefuseReply(i)
    \/ ReceiveFail(i)
    \/ RedialFail(i)

Enter(i) ==
    \/ ReturnLocally(i)
    \/ Proceed(i)
    \/ Acquire(i)
    \/ OpenFail(i)
    \/ Close(i)

ClientTypeOK ==
    /\ link \in [Conns -> Links(Request, Reply)]
    /\ version \in Versions
    /\ mu \in Calls \cup {NoCall}
    /\ conn \in Conns \cup {NoConn}
    /\ maxRetries \in Nat
    /\ attempt \in Nat
    /\ pc \in [Calls -> {"new"} \cup Waiting \cup Returned]
    /\ op \in [Calls -> Ops \cup {NoOp}]
    /\ val \in [Calls -> Runs]
    /\ faults \in [Calls -> Nat]
    /\ budget \in [Calls -> Nat]

=============================================================================
