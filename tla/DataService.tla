---------------------------- MODULE DataService -----------------------------
(***************************************************************************)
(* What a client of this library promises its callers, whatever protocol   *)
(* it speaks: the IoTClient interface of clients/interfaces.go over one    *)
(* device, at least once and with no promise of order.                     *)
(*                                                                         *)
(* Each call puts requests in flight for as long as it is pending and not  *)
(* after.  The device may execute any request in flight, also after the    *)
(* call has returned, and any may be lost.  A read that succeeds returns   *)
(* what the device reported to one of the call's own requests; a write     *)
(* that succeeds has been executed.  A call with no request to make may    *)
(* return either way.                                                      *)
(***************************************************************************)
EXTENDS Integers

CONSTANTS Calls, Addrs, Vals, InitVal, NoVal, Ops, NoOp

VARIABLES
    store,      \* The device's registers.
    op,         \* What each call was asked to do.
    status,     \* "new", "pending", "ok" or "failed".
    val,        \* What each call returned.
    seen,       \* The values the device reported to requests of the call.
    hits,       \* How often the device executed one of its requests.
    inFlight    \* How many of its requests the device may still execute.

vars == <<store, op, status, val, seen, hits, inFlight>>

Init ==
    /\ store = [a \in Addrs |-> InitVal]
    /\ op = [i \in Calls |-> NoOp]
    /\ status = [i \in Calls |-> "new"]
    /\ val = [i \in Calls |-> NoVal]
    /\ seen = [i \in Calls |-> {}]
    /\ hits = [i \in Calls |-> 0]
    /\ inFlight = [i \in Calls |-> 0]

Invoke(i, o) ==
    /\ status[i] = "new"
    /\ op' = [op EXCEPT ![i] = o]
    /\ status' = [status EXCEPT ![i] = "pending"]
    /\ UNCHANGED <<store, val, seen, hits, inFlight>>

Send(i) ==
    /\ status[i] = "pending"
    /\ op[i].kind \in {"read", "write"}
    /\ inFlight' = [inFlight EXCEPT ![i] = @ + 1]
    /\ UNCHANGED <<store, op, status, val, seen, hits>>

Execute(i) ==
    /\ inFlight[i] > 0
    /\ inFlight' = [inFlight EXCEPT ![i] = @ - 1]
    /\ hits' = [hits EXCEPT ![i] = @ + 1]
    /\ \/ /\ op[i].kind = "write"
          /\ store' = [store EXCEPT ![op[i].addr] = op[i].val]
          /\ UNCHANGED seen
       \/ /\ op[i].kind = "read"
          /\ seen' = [seen EXCEPT ![i] = @ \cup {store[op[i].addr]}]
          /\ UNCHANGED store
    /\ UNCHANGED <<op, status, val>>

Lose(i) ==
    /\ inFlight[i] > 0
    /\ inFlight' = [inFlight EXCEPT ![i] = @ - 1]
    /\ UNCHANGED <<store, op, status, val, seen, hits>>

Succeed(i) ==
    /\ status[i] = "pending"
    /\ op[i].kind = "write" => hits[i] > 0
    /\ IF op[i].kind = "read"
       THEN \E v \in seen[i] : val' = [val EXCEPT ![i] = v]
       ELSE UNCHANGED val
    /\ status' = [status EXCEPT ![i] = "ok"]
    /\ UNCHANGED <<store, op, seen, hits, inFlight>>

Fail(i) ==
    /\ status[i] = "pending"
    /\ status' = [status EXCEPT ![i] = "failed"]
    /\ UNCHANGED <<store, op, val, seen, hits, inFlight>>

Next ==
    \E i \in Calls :
        \/ \E o \in Ops : Invoke(i, o)
        \/ Send(i) \/ Execute(i) \/ Lose(i) \/ Succeed(i) \/ Fail(i)

Spec == Init /\ [][Next]_vars
=============================================================================
