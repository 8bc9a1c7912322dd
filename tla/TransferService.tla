-------------------------- MODULE TransferService ---------------------------
(***************************************************************************)
(* What a client and a device of transfers in several parts promise        *)
(* together: transfers take turns, and one that succeeds had each of its   *)
(* parts served in order within one attempt.  Between these parts no other *)
(* transfer goes on; only requests of attempts that were given up may      *)
(* still be served, each at most once.                                     *)
(***************************************************************************)
EXTENDS Integers

CONSTANTS Calls, NoCall, Areas, Parts, InitVal, NoVal, Ops, NoOp

VARIABLES
    store,      \* The device's memory, by area and part.
    op,         \* What each call was asked to do.
    status,     \* "new", "pending", "ok" or "failed".
    val,        \* The parts each read returned.
    turn,       \* The call whose transfer is going on, or NoCall.
    asked,      \* A request of the attempt going on may be served.
    got,        \* What was served for each part, in the last attempt.
    stray       \* How many requests for each part were given up and may
                \* still be served.

vars == <<store, op, status, val, turn, asked, got, stray>>

None == [p \in 1 .. Parts |-> NoVal]

IsTransfer(i) == op[i].kind \in {"read", "write"}

\* Part p is the next that the attempt of call i needs.
NextPart(i, p) ==
    /\ p \in 1 .. Parts
    /\ got[i][p] = NoVal
    /\ \A b \in 1 .. p - 1 : got[i][b] # NoVal

Init ==
    /\ store = [a \in Areas |-> [p \in 1 .. Parts |-> InitVal]]
    /\ op = [i \in Calls |-> NoOp]
    /\ status = [i \in Calls |-> "new"]
    /\ val = [i \in Calls |-> None]
    /\ turn = NoCall
    /\ asked = FALSE
    /\ got = [i \in Calls |-> None]
    /\ stray = [i \in Calls |-> [p \in 1 .. Parts |-> 0]]

Invoke(i, o) ==
    /\ status[i] = "new"
    /\ op' = [op EXCEPT ![i] = o]
    /\ status' = [status EXCEPT ![i] = "pending"]
    /\ UNCHANGED <<store, val, turn, asked, got, stray>>

Begin(i) ==
    /\ status[i] = "pending"
    /\ IsTransfer(i)
    /\ turn = NoCall
    /\ turn' = i
    /\ UNCHANGED <<store, op, status, val, asked, got, stray>>

Ask(i) ==
    /\ turn = i
    /\ ~ asked
    /\ \E p \in 1 .. Parts : NextPart(i, p)
    /\ asked' = TRUE
    /\ UNCHANGED <<store, op, status, val, turn, got, stray>>

\* Part p of call i is read from the memory, or written to it.
Transfer(i, p) ==
    IF op[i].kind = "read"
    THEN UNCHANGED store
    ELSE store' = [store EXCEPT ![op[i].area][p] = op[i].val]

Serve(i) ==
    /\ turn = i
    /\ asked
    /\ asked' = FALSE
    /\ \E p \in 1 .. Parts :
          /\ NextPart(i, p)
          /\ Transfer(i, p)
          /\ got' = [got EXCEPT ![i][p] = IF op[i].kind = "read"
                                          THEN store[op[i].area][p] ELSE op[i].val]
    /\ UNCHANGED <<op, status, val, turn, stray>>

\* The request of the attempt going on is lost, or refused.
Lose ==
    /\ asked
    /\ asked' = FALSE
    /\ UNCHANGED <<store, op, status, val, turn, got, stray>>

\* The attempt of call i is given up, but not what it may have asked for.
GiveUp(i) ==
    /\ turn = i
    /\ asked' = FALSE
    /\ got' = [got EXCEPT ![i] = None]
    /\ IF asked
       THEN \E p \in 1 .. Parts : NextPart(i, p) /\ stray' = [stray EXCEPT ![i][p] = @ + 1]
       ELSE UNCHANGED stray
    /\ UNCHANGED <<store, op, val>>

\* The transfer begins anew, or was the last.
Repeat(i) == GiveUp(i) /\ UNCHANGED <<turn, status>>

Fail(i) ==
    /\ status[i] = "pending"
    /\ status' = [status EXCEPT ![i] = "failed"]
    /\ \/ GiveUp(i) /\ turn' = NoCall
       \/ ~ IsTransfer(i) /\ UNCHANGED <<store, op, val, turn, asked, got, stray>>

\* A request that was given up is served after all, or lost.
ServeStray(i, p) ==
    /\ stray[i][p] > 0
    /\ stray' = [stray EXCEPT ![i][p] = @ - 1]
    /\ Transfer(i, p)
    /\ UNCHANGED <<op, status, val, turn, asked, got>>

LoseStray(i, p) ==
    /\ stray[i][p] > 0
    /\ stray' = [stray EXCEPT ![i][p] = @ - 1]
    /\ UNCHANGED <<store, op, status, val, turn, asked, got>>

Succeed(i) ==
    /\ status[i] = "pending"
    /\ status' = [status EXCEPT ![i] = "ok"]
    /\ IF IsTransfer(i)
       THEN /\ turn = i
            /\ turn' = NoCall
            /\ ~ asked
            /\ \A p \in 1 .. Parts : got[i][p] # NoVal
            /\ val' = IF op[i].kind = "read" THEN [val EXCEPT ![i] = got[i]] ELSE val
       ELSE UNCHANGED <<turn, val>>
    /\ UNCHANGED <<store, op, asked, got, stray>>

Next ==
    \/ Lose
    \/ \E i \in Calls :
          \/ \E o \in Ops : Invoke(i, o)
          \/ Begin(i) \/ Ask(i) \/ Serve(i) \/ Repeat(i) \/ Fail(i) \/ Succeed(i)
          \/ \E p \in 1 .. Parts : ServeStray(i, p) \/ LoseStray(i, p)

Spec == Init /\ [][Next]_vars
=============================================================================
