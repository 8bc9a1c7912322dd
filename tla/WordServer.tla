----------------------------- MODULE WordServer -----------------------------
(***************************************************************************)
(* What mock.Server promises: a memory of D registers on which each read   *)
(* and each write is one step, whatever its length and however many        *)
(* connections there are, and an injected failure that hits one request.   *)
(***************************************************************************)
EXTENDS MelsecMessages

VARIABLES
    mem,        \* mem[a]: the register Da.
    failNext,   \* The next request is to fail.
    listening,  \* The server accepts connections.
    job         \* job[k]: what the server does for connection k.

server == <<mem, failNext, listening, job>>

Resting == [stage |-> "reading", req |-> NoRequest, words |-> <<>>]

Jobs == [stage : {"reading", "checked", "answering", "refusing"},
         req : Request \cup {NoRequest}, words : Runs]

ServerInit ==
    /\ mem = [a \in Regs |-> InitWord]
    /\ failNext = FALSE
    /\ listening = TRUE
    /\ job = [k \in Conns |-> Resting]

\* The server takes the next request of k; an injected failure, or a request
\* it does not know, ends in an error.
TakeRequest(k) ==
    /\ job[k].stage = "reading"
    /\ link[k].req # <<>>
    /\ LET q == Head(link[k].req) IN
          job' = [job EXCEPT ![k] =
                     [stage |-> IF failNext \/ q.cmd = "other" THEN "refusing" ELSE "checked",
                      req |-> q, words |-> <<>>]]
    /\ failNext' = FALSE
    /\ link' = Ignored(k)
    /\ UNCHANGED <<mem, listening>>

\* A whole read or write at once.
Execute(k) ==
    /\ job[k].stage = "checked"
    /\ LET q == job[k].req IN
          /\ mem' = StoredFrom(q, IF q.cmd = "write" THEN 0 ELSE q.count, mem)
          /\ job' = [job EXCEPT ![k].stage = "answering",
                                ![k].words = IF q.cmd = "read" THEN Block(q, mem) ELSE <<>>]
    /\ UNCHANGED <<link, failNext, listening>>

\* The reply is lost when the client no longer holds its socket.
Respond(k) ==
    /\ job[k].stage \in {"answering", "refusing"}
    /\ link' = IF link[k].st = "up"
               THEN [link EXCEPT ![k].rep =
                       Append(@, [call |-> job[k].req.call,
                                  end |-> IF job[k].stage = "answering" THEN "zero" ELSE "error",
                                  words |-> job[k].words])]
               ELSE link
    /\ job' = [job EXCEPT ![k] = Resting]
    /\ UNCHANGED <<mem, failNext, listening>>

\* The server finds its connection closed and does not read what is left.
DropConnection(k) ==
    /\ job[k].stage = "reading"
    /\ link[k].st = "down"
    /\ link[k].req # <<>>
    /\ link' = [link EXCEPT ![k].req = <<>>]
    /\ UNCHANGED server

SetWord(a, w) ==
    /\ mem' = [mem EXCEPT ![a] = w]
    /\ UNCHANGED <<link, failNext, listening, job>>

FailNextRequest ==
    /\ failNext' = TRUE
    /\ UNCHANGED <<link, mem, listening, job>>

\* Connections already accepted are served on.
StopListening ==
    /\ listening' = FALSE
    /\ UNCHANGED <<link, mem, failNext, job>>

Serve(k) == TakeRequest(k) \/ Execute(k) \/ Respond(k) \/ DropConnection(k)

Control ==
    \/ \E a \in Regs, w \in Words : SetWord(a, w)
    \/ FailNextRequest
    \/ StopListening

\* Anything the client side may do to a connection.
PeerStep(k) ==
    /\ \/ Free(k) /\ listening /\ job[k] = Resting /\ link' = Dialled(k)
       \/ \E q \in Request : link[k].st = "up" /\ link' = Written(k, q)
       \/ link[k].rep # <<>> /\ link' = Consumed(k)
       \/ link[k].st # "down" /\ link' = HungUp(k)
       \/ link[k].st = "up" /\ link' = Severed(k)
    /\ UNCHANGED server

ServerSpec ==
    /\ link = [k \in Conns |-> Down]
    /\ ServerInit
    /\ [][Control \/ \E k \in Conns : Serve(k) \/ PeerStep(k)]_<<link, server>>

=============================================================================
