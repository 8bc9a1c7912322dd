----------------------------- MODULE MockServer -----------------------------
(***************************************************************************)
(* mock.Server: a goroutine per connection that reads a request, works on  *)
(* the shared registers word by word under the server's mutex, and writes  *)
(* the reply; beside them the test, which sets registers and injects       *)
(* failures.                                                               *)
(***************************************************************************)
EXTENDS MelsecMessages

CONSTANT Submitted    \* The requests that the clients of the server send.

ASSUME SubmittedAssumption == Submitted \subseteq Request

VARIABLES
    words,      \* Server.words
    failNext,   \* Server.failNextRequest
    smu,        \* The connection whose goroutine holds Server.mu, or NoConn.
    listening,  \* Server.listener is open.
    handler     \* handler[k]: the goroutine of connection k in handleConn.

vars == <<link, words, failNext, smu, listening, handler>>

\* A goroutine that reads the next header.
Reading == [stage |-> "reading", req |-> NoRequest, done |-> 0, body |-> <<>>]

Stages == {"reading", "checked", "looping", "answering", "refusing"}

Init ==
    /\ link = [k \in Conns |-> Down]
    /\ words = [a \in Regs |-> InitWord]
    /\ failNext = FALSE
    /\ smu = NoConn
    /\ listening = TRUE
    /\ handler = [k \in Conns |-> Reading]

-----------------------------------------------------------------------------
\* handleConn

\* fullRead of a request, and processRequest as far as its dispatch: the
\* mutex is held for the injected failure only.
ProcessRequest(k) ==
    /\ handler[k].stage = "reading"
    /\ link[k].req # <<>>
    /\ smu = NoConn
    /\ LET q == Head(link[k].req) IN
          handler' = [handler EXCEPT ![k].req = q,
                         ![k].stage = IF failNext \/ q.cmd = "other"
                                      THEN "refusing" ELSE "checked"]
    /\ failNext' = FALSE
    /\ link' = Ignored(k)
    /\ UNCHANGED <<words, smu, listening>>

\* Variant: the registers are used without the mutex.
TakeNothing(k) == UNCHANGED smu

TakeMutex(k) == smu = NoConn /\ smu' = k

\* handleRead and handleWrite take the mutex for their loop.
Lock(k) ==
    /\ handler[k].stage = "checked"
    /\ TakeMutex(k)
    /\ handler' = [handler EXCEPT ![k].stage = "looping"]
    /\ UNCHANGED <<link, words, failNext, listening>>

\* Variant: the loop of handleRead runs once too often.
WordsLeftByOne(h) ==
    h.done < IF h.req.cmd = "read" THEN h.req.count + 1 ELSE h.req.count

WordsLeft(h) == h.done < h.req.count

\* One round of the loop of handleRead or of handleWrite.
CopyWord(k) ==
    LET h == handler[k]  a == Reg(h.req, h.done) IN
    /\ h.stage = "looping"
    /\ WordsLeft(h)
    /\ \/ /\ h.req.cmd = "read"
          /\ handler' = [handler EXCEPT ![k].done = @ + 1,
                                        ![k].body = Append(@, words[a])]
          /\ UNCHANGED words
       \/ /\ h.req.cmd = "write"
          /\ words' = [words EXCEPT ![a] = h.req.words[h.done + 1]]
          /\ handler' = [handler EXCEPT ![k].done = @ + 1]
    /\ UNCHANGED <<link, failNext, smu, listening>>

\* Variant: handleWrite returns without its Unlock.
ReleaseReads(k) == smu' = IF handler[k].req.cmd = "read" THEN NoConn ELSE smu

Release(k) == smu' = NoConn

Unlock(k) ==
    /\ handler[k].stage = "looping"
    /\ handler[k].done = handler[k].req.count
    /\ Release(k)
    /\ handler' = [handler EXCEPT ![k].stage = "answering", ![k].done = 0]
    /\ UNCHANGED <<link, words, failNext, listening>>

\* conn.Write, whose error is ignored.
Respond(k) ==
    /\ handler[k].stage \in {"answering", "refusing"}
    /\ link' = IF link[k].st = "up"
               THEN [link EXCEPT ![k].rep =
                       Append(@, [call |-> handler[k].req.call,
                                  end |-> IF handler[k].stage = "answering"
                                          THEN "zero" ELSE "error",
                                  words |-> handler[k].body])]
               ELSE link
    /\ handler' = [handler EXCEPT ![k] = Reading]
    /\ UNCHANGED <<words, failNext, smu, listening>>

\* fullRead fails on a connection that was closed: the goroutine ends, and
\* what it has not read is lost.
HandlerReturns(k) ==
    /\ handler[k].stage = "reading"
    /\ link[k].st = "down"
    /\ link[k].req # <<>>
    /\ link' = [link EXCEPT ![k].req = <<>>]
    /\ UNCHANGED <<words, failNext, smu, listening, handler>>

-----------------------------------------------------------------------------
\* The methods that a test calls, one critical section each.

SetWord(a, w) ==
    /\ smu = NoConn
    /\ words' = [words EXCEPT ![a] = w]
    /\ UNCHANGED <<link, failNext, smu, listening, handler>>

FailNextRequest ==
    /\ smu = NoConn
    /\ failNext' = TRUE
    /\ UNCHANGED <<link, words, smu, listening, handler>>

\* Close ends the listener, not the goroutines of its connections.
CloseListener ==
    /\ listening' = FALSE
    /\ UNCHANGED <<link, words, failNext, smu, handler>>

-----------------------------------------------------------------------------
\* The client's end, and the network.  The clients of this library have one
\* request at a time on a connection.

Accept(k) ==
    /\ listening
    /\ Free(k)
    /\ handler[k] = Reading
    /\ link' = Dialled(k)

Peer(k) ==
    /\ \/ Accept(k)
       \/ /\ link[k].st = "up"
          /\ link[k].req = <<>> /\ link[k].rep = <<>> /\ handler[k] = Reading
          /\ \E q \in Submitted : link' = Written(k, q)
       \/ link[k].rep # <<>> /\ link' = Consumed(k)
       \/ link[k].st # "down" /\ link' = HungUp(k)
       \/ link[k].st = "up" /\ link' = Severed(k)
    /\ UNCHANGED <<words, failNext, smu, listening, handler>>

Handle(k) ==
    \/ ProcessRequest(k)
    \/ Lock(k)
    \/ CopyWord(k)
    \/ Unlock(k)
    \/ Respond(k)
    \/ HandlerReturns(k)

Next ==
    \/ \E k \in Conns : Handle(k) \/ Peer(k)
    \/ \E a \in Regs, w \in Words : SetWord(a, w)
    \/ FailNextRequest
    \/ CloseListener

Spec == Init /\ [][Next]_vars

\* Goroutines run, and the mutex goes to one that keeps waiting for it.
Fairness ==
    \A k \in Conns :
        /\ WF_vars(CopyWord(k) \/ Unlock(k) \/ Respond(k))
        /\ SF_vars(ProcessRequest(k))
        /\ SF_vars(Lock(k))

FairSpec == Spec /\ Fairness

-----------------------------------------------------------------------------
TypeOK ==
    /\ link \in [Conns -> Links(Request, Reply)]
    /\ words \in [Regs -> Words]
    /\ failNext \in BOOLEAN
    /\ smu \in Conns \cup {NoConn}
    /\ listening \in BOOLEAN
    /\ handler \in [Conns -> [stage : Stages, req : Request \cup {NoRequest},
                              done : 0 .. MaxWords, body : Runs]]

\* Registers as they will be when the goroutine with the mutex has let it go.
Settled ==
    IF smu # NoConn /\ handler[smu].stage = "looping" /\ handler[smu].req.cmd = "write"
    THEN StoredFrom(handler[smu].req, handler[smu].done, words)
    ELSE words

\* A goroutine as a job of the atomic server: its loop counts as done when it
\* has taken the mutex.
Job(k) ==
    LET h == handler[k]
        result == IF h.stage = "looping" /\ h.req.cmd = "read"
                  THEN Block(h.req, words) ELSE h.body
    IN  [stage |-> IF h.stage = "looping" THEN "answering" ELSE h.stage,
         req |-> h.req, words |-> result]

Atomic == INSTANCE WordServer WITH
    mem <- Settled,
    job <- [k \in Conns |-> Job(k)]

\* Reads and writes of several registers are atomic, over all connections and
\* against SetWord, and an injected failure hits exactly one request: the word
\* by word server implements the atomic one.
ImplementsWordServer == Atomic!ServerSpec

\* A request the server has taken is done with, also while other connections
\* and the test compete for the mutex.
HandlersFinish ==
    \A k \in Conns : handler[k].stage # "reading" ~> handler[k].stage = "reading"

=============================================================================
