------------------------- MODULE SerialModbusClient -------------------------
(***************************************************************************)
(* The Modbus client on a serial line (RtuClient, AsciiClient): the same   *)
(* modbusClient, with serialDial for its dial.  Calls, mutex, attempts and *)
(* device are those of ModbusClient; what the line changes is here.        *)
(*                                                                         *)
(* A member of Conns is a serial port.  Opening it again gives the same    *)
(* line with the same device, which may still answer what it was asked     *)
(* before: closing the port, or losing it, only drops what had arrived.    *)
(*                                                                         *)
(* The port has no SetDeadline.  Its read timeout makes Read return no     *)
(* bytes and no error, and io.ReadFull asks again, so that a read ends     *)
(* with a frame or with an error of the port and not otherwise.            *)
(***************************************************************************)
EXTENDS ModbusClient

CONSTANT MaxLine   \* How many frames may wait unread before noise adds more.

ASSUME LineAssumption == MaxLine \in Nat

\* History: what may put client and device out of step has happened, noise on
\* the line or the loss of the port while the device had a request.
VARIABLE disturbed

serialVars == <<vars, disturbed>>

SerialInit == Init /\ disturbed = FALSE

\* serialDial for an attempt: nothing keeps the port from being opened again.
Reopen(i, k) ==
    /\ pc[i] = "attempt"
    /\ conn = NoConn
    /\ link' = Dialled(k)
    /\ conn' = k
    /\ UNCHANGED <<mu, transID, maxRetries, attempt, calls, store, history>>

\* Open closes the port and opens it, at once as far as the device can tell.
OpenPort(i, k) ==
    /\ pc[i] = "blocked"
    /\ op[i].kind = "open"
    /\ mu = NoCall
    /\ link' = [OldClosed EXCEPT ![k].st = "up"]
    /\ conn' = k
    /\ pc' = [pc EXCEPT ![i] = "ok"]
    /\ UNCHANGED <<mu, transID, maxRetries, attempt, op, val, budget, store, history>>

\* Variant: a read ends when the read timeout has passed.
EndsInTime == TRUE

\* When a read that has not got its frame ends: the port is gone.
ReadEnds == link[conn].st = "cut"

ReadFail(i) ==
    /\ pc[i] = "await"
    /\ ReadEnds
    /\ ReceiveFail(i)

\* Bytes that nobody sent, or the tail of a damaged frame that the client gave up
\* before its end: the client reads them as a frame, which is bad.  They count as
\* a fault of the call inside sendPDU, if there is one.
Noise(k) ==
    /\ link[k].st = "up"
    /\ Len(link[k].rep) < MaxLine
    /\ \E i \in Calls :
          /\ mu # NoCall => i = mu
          /\ link' = [link EXCEPT ![k].rep =
                Append(@, [call |-> i, tid |-> 0, kind |-> "garbled", val |-> NoVal])]
    /\ disturbed' = TRUE
    /\ faults' = IF mu # NoCall THEN MoreFaults(mu) ELSE faults
    /\ UNCHANGED <<client, calls, store, seen, hits>>

\* The port goes away under the client, as when its adapter is unplugged.  The
\* device at the end of the line notices nothing.
LosePort(k) ==
    /\ link[k].st = "up"
    /\ link' = [link EXCEPT ![k].st = "cut"]
    /\ disturbed' = (disturbed \/ link[k].req # <<>>)
    /\ faults' = IF mu # NoCall THEN MoreFaults(mu) ELSE faults
    /\ UNCHANGED <<client, calls, store, seen, hits>>

SerialDevice(k) ==
    /\ (\E kind \in ReplyKinds : Serve(k, kind)) \/ Ignore(k)
    /\ UNCHANGED disturbed

-----------------------------------------------------------------------------
SerialProgress(i) ==
    /\ \/ \E k \in Conns : Reopen(i, k)
       \/ ConnectFail(i)
       \/ Transmit(i)
       \/ TransmitFail(i)
       \/ RefuseReply(i)
       \/ TakeReply(i)
       \/ ReadFail(i)
    /\ UNCHANGED disturbed

SerialEnter(i) ==
    /\ \/ ReturnLocally(i)
       \/ Acquire(i)
       \/ \E k \in Conns : OpenPort(i, k)
       \/ OpenFail(i)
       \/ Close(i)
    /\ UNCHANGED disturbed

SerialNext ==
    \/ \E i \in Calls :
          \/ \E o \in Ops : Invoke(i, o) /\ UNCHANGED disturbed
          \/ SerialEnter(i)
          \/ SerialProgress(i)
    \/ \E n \in Policies : SetRetryPolicy(n) /\ UNCHANGED disturbed
    \/ \E k \in Conns : SerialDevice(k) \/ LosePort(k) \/ Noise(k)

SerialSpec == SerialInit /\ [][SerialNext]_serialVars

\* A call that can go on does, and the mutex goes to a goroutine that keeps
\* waiting for it.  Nothing is asked of the device.
SerialFairness ==
    \A i \in Calls : WF_serialVars(SerialProgress(i)) /\ SF_serialVars(SerialEnter(i))

SerialFairSpec == SerialSpec /\ SerialFairness

-----------------------------------------------------------------------------
\* Until it is disturbed the line is as good as a connection, although frames
\* have no identifiers and the port no deadline: reads return what the device
\* reported to them, writes that succeed were executed, and no call fails for
\* less than its faults, refusals, failed openings and ports lost between
\* requests among them.  It holds because no attempt is given up while its
\* answer may still come.  One noisy byte, or a port lost while the device had a
\* request, is enough to lose it: the answer to the attempt that was given up is
\* then read as that of the next, or of the next call.
InStepUntilDisturbed ==
    ~ disturbed => ReadFresh /\ WriteTookEffect /\ RetryMasksFaults

\* The call that holds the mutex waits for an answer that has not come.
Silent ==
    \E i \in Calls : mu = i /\ pc[i] = "await" /\ ~ ReadEnds /\ link[conn].rep = <<>>

\* The mutex is never lost, noise and reopened ports included: calls that do not
\* return are all behind one that waits for ever for a device that is silent.
ReturnsUnlessSilent == <>[]Silent \/ EveryCallReturns

=============================================================================
