---------------------------- MODULE BlockService ----------------------------
(***************************************************************************)
(* What a client and a server of runs of registers promise together, as    *)
(* DataService does for one register: a read returns its registers as they *)
(* were at one moment, a write stores its words at one moment, at least    *)
(* once and with no promise of order.  The registers are also written from *)
(* outside.                                                                *)
(***************************************************************************)
EXTENDS Integers, Sequences

CONSTANTS Calls, AddrMod, Words, InitWord, Ops, NoOp

VARIABLES
    store,      \* The registers.
    op,         \* What each call was asked to do.
    status,     \* "new", "pending", "ok" or "failed".
    val,        \* The words each call returned.
    seen,       \* What was found for the requests of the call.
    hits,       \* How often a request of the call was executed.
    inFlight    \* How many of its requests may still be executed.

vars == <<store, op, status, val, seen, hits, inFlight>>

Registers == 0 .. AddrMod - 1

\* The register of the n-th word of o, after the last one the first.
Cell(o, n) == (o.addr + (n - 1)) % AddrMod

Init ==
    /\ store = [a \in Registers |-> InitWord]
    /\ op = [i \in Calls |-> NoOp]
    /\ status = [i \in Calls |-> "new"]
    /\ val = [i \in Calls |-> <<>>]
    /\ seen = [i \in Calls |-> {}]
    /\ hits = [i \in Calls |-> 0]
    /\ inFlight = [i \in Calls |-> 0]

Invoke(i, o) ==
    /\ status[i] = "new"
    /\ op' = [op EXCEPT ![i] = o]
    /\ status' = [status EXCEPT ![i] = "pending"]
    /\ UNCHANGED <<store, val, seen, hits, inFlight>>

Send(i) ==
    /\ status[i] = "pending"
    /\ op[i].kind \in {"read", "write"}
    /\ inFlight' = [inFlight EXCEPT ![i] = @ + 1]
    /\ UNCHANGED <<store, op, status, val, seen, hits>>

\* All the registers of the run and no other, whatever their order.
Store(o) ==
    /\ store' \in [Registers -> Words]
    /\ \A n \in 1 .. o.count : store'[Cell(o, n)] = o.words[n]
    /\ \A a \in Registers : (\A n \in 1 .. o.count : Cell(o, n) # a) => store'[a] = store[a]

Execute(i) ==
    /\ inFlight[i] > 0
    /\ inFlight' = [inFlight EXCEPT ![i] = @ - 1]
    /\ hits' = [hits EXCEPT ![i] = @ + 1]
    /\ \/ /\ op[i].kind = "write"
          /\ Store(op[i])
          /\ UNCHANGED seen
       \/ /\ op[i].kind = "read"
          /\ seen' = [seen EXCEPT ![i] =
                         @ \cup {[n \in 1 .. op[i].count |-> store[Cell(op[i], n)]]}]
          /\ UNCHANGED store
    /\ UNCHANGED <<op, status, val>>

Lose(i) ==
    /\ inFlight[i] > 0
    /\ inFlight' = [inFlight EXCEPT ![i] = @ - 1]
    /\ UNCHANGED <<store, op, status, val, seen, hits>>

\* A read of no words returns none, and needs no request.
Succeed(i) ==
    /\ status[i] = "pending"
    /\ op[i].kind = "write" => hits[i] > 0
    /\ IF op[i].kind = "read" /\ op[i].count > 0
       THEN \E words \in seen[i] : val' = [val EXCEPT ![i] = words]
       ELSE UNCHANGED val
    /\ status' = [status EXCEPT ![i] = "ok"]
    /\ UNCHANGED <<store, op, seen, hits, inFlight>>

Fail(i) ==
    /\ status[i] = "pending"
    /\ status' = [status EXCEPT ![i] = "failed"]
    /\ UNCHANGED <<store, op, val, seen, hits, inFlight>>

SetWord(a, w) ==
    /\ store' = [store EXCEPT ![a] = w]
    /\ UNCHANGED <<op, status, val, seen, hits, inFlight>>

Next ==
    \/ \E a \in Registers, w \in Words : SetWord(a, w)
    \/ \E i \in Calls :
          \/ \E o \in Ops : Invoke(i, o)
          \/ Succeed(i) \/ Fail(i) \/ Send(i) \/ Lose(i) \/ Execute(i)

Spec == Init /\ [][Next]_vars
=============================================================================
