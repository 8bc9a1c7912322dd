-------------------------- MODULE MitsubishiSystem --------------------------
(***************************************************************************)
(* MitsubishiClient against the server of package mock, the composition    *)
(* that the repository's own tests run.  The server is WordServer, which   *)
(* MockServer implements whatever its clients do.                          *)
(***************************************************************************)
EXTENDS MitsubishiClient, WordServer

\* History, read by no action: what the server found for the reads of a call,
\* and how often it executed a request of it.
VARIABLES seen, hits

vars == <<link, client, server, seen, hits>>

Init ==
    /\ link = [k \in Conns |-> Down]
    /\ ClientInit
    /\ ServerInit
    /\ seen = [i \in Calls |-> {}]
    /\ hits = [i \in Calls |-> 0]

\* The client's side: a dial needs a listener, and a connection whose old
\* goroutine is gone.
ClientSteps ==
    /\ \/ \E k \in Conns : listening /\ job[k] = Resting /\ Dials(k)
       \/ \E i \in Calls : (\E o \in Ops : Invoke(i, o)) \/ Enter(i) \/ Progress(i)
       \/ \E n \in Policies : SetRetryPolicy(n)
    /\ UNCHANGED <<server, seen, hits>>

\* The server's side.  An injected failure is a fault of the call it hits
\* while that call waits for this connection.
ServerTakes(k) ==
    /\ TakeRequest(k)
    /\ faults' = IF failNext /\ k = conn THEN MoreFaults(Head(link[k].req).call) ELSE faults
    /\ UNCHANGED <<version, mu, conn, maxRetries, attempt, calls, budget, seen, hits>>

ServerExecutes(k) ==
    /\ Execute(k)
    /\ LET q == job[k].req IN
          /\ hits' = [hits EXCEPT ![q.call] = @ + 1]
          /\ seen' = IF q.cmd = "read"
                     THEN [seen EXCEPT ![q.call] = @ \cup {Block(q, mem)}]
                     ELSE seen
    /\ UNCHANGED client

\* The network ends a connection that both ends hold.
Sever(k) ==
    /\ link[k].st = "up"
    /\ link' = Severed(k)
    /\ faults' = IF mu # NoCall THEN MoreFaults(mu) ELSE faults
    /\ UNCHANGED <<version, mu, conn, maxRetries, attempt, calls, budget, server, seen, hits>>

ServerSteps ==
    \/ \E k \in Conns : ServerTakes(k) \/ ServerExecutes(k) \/ Sever(k)
    \/ /\ Control \/ \E k \in Conns : Respond(k) \/ DropConnection(k)
       /\ UNCHANGED <<client, seen, hits>>

Next == ClientSteps \/ ServerSteps

Spec == Init /\ [][Next]_vars

\* Every dial, write and read of the client has a timeout, and the mutex goes
\* to a goroutine that keeps waiting for it.  Nothing is asked of the server.
Fairness ==
    \A i \in Calls :
        /\ WF_vars(Progress(i) /\ UNCHANGED <<server, seen, hits>>)
        /\ SF_vars(Enter(i) /\ UNCHANGED <<server, seen, hits>>)

FairSpec == Spec /\ Fairness

-----------------------------------------------------------------------------
TypeOK ==
    /\ ClientTypeOK
    /\ mem \in [Regs -> Words]
    /\ failNext \in BOOLEAN
    /\ listening \in BOOLEAN
    /\ job \in [Conns -> Jobs]
    /\ seen \in [Calls -> SUBSET Runs]
    /\ hits \in [Calls -> Nat]

\* No socket leaks, although two places dial for one attempt; and the client
\* looks at nothing but the end code of a reply, so the connection it uses
\* carries at most one message, that of the call with the mutex.
ConnectionInStep ==
    /\ \A k \in Conns : link[k].st # "down" => k = conn
    /\ conn # NoConn =>
          /\ Len(link[conn].req) + Len(link[conn].rep)
               + (IF job[conn].stage = "reading" THEN 0 ELSE 1) <= 1
          /\ \A n \in DOMAIN link[conn].req : link[conn].req[n].call = mu
          /\ \A n \in DOMAIN link[conn].rep : link[conn].rep[n].call = mu

\* A read that succeeds returns the registers as they were, all at once, when
\* the server executed a request of this very call.
ReadFresh ==
    \A i \in Calls :
        pc[i] = "ok" /\ op[i].kind = "read" /\ op[i].count > 0 => val[i] \in seen[i]

\* A write that reports success has been executed by the server.
WriteTookEffect ==
    \A i \in Calls : pc[i] = "ok" /\ op[i].kind = "write" => hits[i] >= 1

\* The connections on which the server may still execute a request of call i.
Copies(i) ==
    {k \in Conns :
        \/ \E n \in DOMAIN link[k].req : link[k].req[n].call = i
        \/ job[k].stage = "checked" /\ job[k].req.call = i}

\* The policy is kept: the server never executes a call more often than there
\* are attempts; and a failure that a test injects, a connection that ends or a
\* dial that fails is hidden while an attempt is left, as doc/api/README.md
\* promises with its reconnection and retry.
RetriesAsAllowed ==
    \A i \in Calls :
        IsData(op[i]) =>
            /\ hits[i] + Cardinality(Copies(i)) <= budget[i] + 1
            /\ pc[i] \in {"failed", "rejected"} => faults[i] > budget[i]

\* How the service sees call i.
Status(i) ==
    CASE pc[i] = "new"           -> "new"
      [] pc[i] \in Waiting       -> "pending"
      [] pc[i] = "ok"            -> "ok"
      [] OTHER                   -> "failed"

Service == INSTANCE BlockService WITH
    store    <- mem,
    status   <- [i \in Calls |-> Status(i)],
    inFlight <- [i \in Calls |-> Cardinality(Copies(i))]

\* Whatever is retried, cut or refused on the way, client and server are the
\* service together: a read that succeeds returns its registers as they were at
\* one moment, found for this very call, and a write that succeeds was stored
\* whole, at one moment; a request is executed while its call waits or later,
\* and no register changes but by a request in flight or a test.
ImplementsService == Service!Spec

\* Every call returns, whatever the server does and whoever else calls.
EveryCallReturns ==
    \A i \in Calls : pc[i] \in Waiting ~> pc[i] \in Returned

=============================================================================
